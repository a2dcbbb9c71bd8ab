-------------------------- MODULE BwmDaemonProofs --------------------------
(***************************************************************************)
(* Proofs about BwmDaemon's Spec, for any number of sandboxes, addresses   *)
(* and ids: ids are never shared, and what SetQos promised stays in force. *)
(*                                                                         *)
(* Neither NoSharedId nor QosInForce is inductive.  The parts of IndInv    *)
(* say what the local variables of a handler know while other handlers     *)
(* run: a handler's podInfo stays what the id manager holds for its        *)
(* sandbox, which nobody else changes.                                     *)
(*                                                                         *)
(* At the end, bwm-daemon implements QosService, and a completed DEL       *)
(* leaves nothing behind.  Both rest on IndInv and on ResidueInv, which    *)
(* says whose every entry of the maps is: what SetQosDone and Succeeded    *)
(* say of what must be there, ResidueInv says of what must not.            *)
(***************************************************************************)
EXTENDS BwmDaemon, TLAPS

\* Sandboxes with an address have addresses of their own.
AddressesApart ==
    /\ \A c \in ContainerIds : sandbox[c] \in {"up", "stopping"} => ip[c] # None
    /\ \A c1, c2 \in ContainerIds : ip[c1] # None /\ ip[c1] = ip[c2] => c1 = c2

\* The two maps of the id manager agree on who holds an id, and the entry of a
\* sandbox has its address.
PodChain ==
    \A c \in ContainerIds : containerIdMap[c] # None =>
      /\ podIdMap[containerIdMap[c].LocalId] = c
      /\ containerIdMap[c].VethIpv4 = ip[c]
      /\ sandbox[c] \in {"up", "stopping"}

\* While SetQos runs, its podInfo is the sandbox's entry.
SetQosHolds ==
    \A c \in ContainerIds : setPc[c] # "idle" =>
      /\ containerIdMap[c] # None
      /\ setInfo[c] = containerIdMap[c]
      /\ sandbox[c] = "up" /\ unsetPc[c] = "idle" /\ ~success[c]

\* Likewise UnSetQos.
UnSetQosHolds ==
    \A c \in ContainerIds : unsetPc[c] # "idle" =>
      /\ sandbox[c] = "stopping"
      /\ unsetInfo[c] = containerIdMap[c]
      /\ unsetPc[c] # "release" => containerIdMap[c] # None

Classified(c, d) ==
    ip[c] \notin Contested =>
      throttleId[d][PodKey(ip[c])] = GenerateClassId(c, containerIdMap[c].LocalId)

Configured(c, d) ==
    containerIdMap[c].LocalId \in CfgIndexes => throttleCfg[d][containerIdMap[c].LocalId] = c

\* What SetQos has written so far is still there.
SetQosDone ==
    \A c \in ContainerIds :
      /\ setPc[c] \in {"ingressId", "egressCfg", "ingressCfg", "insert"}
           => Classified(c, "egress")
      /\ setPc[c] \in {"egressCfg", "ingressCfg", "insert"}
           => Classified(c, "ingress")
      /\ setPc[c] \in {"ingressCfg", "insert"} => Configured(c, "egress")
      /\ setPc[c] = "insert" => Configured(c, "ingress")

Succeeded ==
    \A c \in ContainerIds : success[c] =>
      /\ sandbox[c] = "up"
      /\ containerIdMap[c] # None
      /\ \A d \in Dirs : Classified(c, d) /\ Configured(c, d)

\* A handler has the podInfo it is about to use.
HandlersKnow ==
    \A c \in ContainerIds :
      /\ setPc[c] # "idle" => setInfo[c] # None
      /\ unsetPc[c] \notin {"idle", "release"} => unsetInfo[c] # None

BaseInv == TypeOK /\ AddressesApart /\ HandlersKnow
IdInv == TypeOK /\ AddressesApart /\ PodChain /\ SetQosHolds /\ UnSetQosHolds
IndInv == IdInv /\ SetQosDone /\ Succeeded
-----------------------------------------------------------------------------
(* The operations the handlers call keep the types of the maps.            *)

\* An id of a pod is an id.
LEMMA PodIdsLocal == PodIds \subseteq LocalIds
  BY DEF LocalIds

\* AllocatePodId, ReleasePodIdByContainerId and InsertPodInfo keep the types
\* of the four maps.
LEMMA AllocateType ==
  ASSUME IDManagerTypeOK, NEW c \in ContainerIds, NEW a \in Ips,
         NEW id \in PodIds, AllocatePodId(c, a, id)
  PROVE  IDManagerTypeOK'
  <1>1. [LocalId |-> id, VethIpv4 |-> a] \in PodInfo
    BY DEF PodInfo
  <1>2. CASE UNCHANGED podMaps
    BY <1>2 DEF AllocatePodId, IDManagerTypeOK, podMaps, flowMaps
  <1>3. CASE /\ podIdMap' = [podIdMap EXCEPT ![id] = c]
             /\ containerIdMap' =
                  [containerIdMap EXCEPT ![c] = [LocalId |-> id, VethIpv4 |-> a]]
    BY <1>1, <1>3 DEF AllocatePodId, IDManagerTypeOK, flowMaps, Holders
  <1>4. QED
    BY <1>2, <1>3 DEF AllocatePodId

LEMMA ReleaseType ==
  ASSUME IDManagerTypeOK, NEW c \in ContainerIds, ReleasePodIdByContainerId(c)
  PROVE  IDManagerTypeOK'
  <1>1. CASE containerIdMap[c] # None
    BY <1>1 DEF ReleasePodIdByContainerId, IDManagerTypeOK, flowMaps
  <1>2. CASE containerIdMap[c] = None
    BY <1>2 DEF ReleasePodIdByContainerId, IDManagerTypeOK, podMaps, flowMaps
  <1>3. QED
    BY <1>1, <1>2

LEMMA InsertType ==
  ASSUME IDManagerTypeOK, NEW c \in ContainerIds, NEW info \in PodInfo,
         InsertPodInfo(c, info)
  PROVE  IDManagerTypeOK'
  BY DEF InsertPodInfo, IDManagerTypeOK, flowMaps, Holders

\* So do the writes to the id maps and to the configuration arrays.
LEMMA UpdateIdType ==
  ASSUME EdtMapsTypeOK, NEW d \in Dirs, NEW key \in TcEdtIdKey,
         NEW class \in ClassIds \union {None},
         throttleId' = [throttleId EXCEPT ![d][key] = class],
         UNCHANGED throttleCfg
  PROVE  EdtMapsTypeOK'
  BY DEF EdtMapsTypeOK

LEMMA WriteCfgType ==
  ASSUME EdtMapsTypeOK, NEW d \in Dirs, NEW id \in LocalIds,
         NEW h \in Holders \union {None}, SingleWriteThrottleCfg(d, id, h)
  PROVE  EdtMapsTypeOK'
  BY DEF EdtMapsTypeOK, SingleWriteThrottleCfg

LEMMA PodKeyType == \A a \in Ips : PodKey(a) \in TcEdtIdKey
  BY DEF PodKey, TcEdtIdKey

LEMMA ClassIdType ==
  \A c \in ContainerIds : \A id \in PodIds : GenerateClassId(c, id) \in ClassIds
  BY PodIdsLocal DEF GenerateClassId, ClassIds, Holders
-----------------------------------------------------------------------------
(* The types and the ids.                                                  *)

LEMMA IdInvBase == IdInv => BaseInv
  BY DEF IdInv, BaseInv, HandlersKnow, SetQosHolds, UnSetQosHolds

\* The handler of a running SetQos knows a PodInfo.
LEMMA SetInfoType ==
  ASSUME BaseInv, NEW c \in ContainerIds, setPc[c] # "idle"
  PROVE  /\ setInfo[c] \in PodInfo
         /\ setInfo[c].LocalId \in PodIds
         /\ setInfo[c].VethIpv4 \in Ips
         /\ PodKey(setInfo[c].VethIpv4) \in TcEdtIdKey
         /\ GenerateClassId(c, setInfo[c].LocalId) \in ClassIds
  <1>1. setInfo[c] \in PodInfo
    BY DEF BaseInv, HandlersKnow, TypeOK
  <1>2. setInfo[c].LocalId \in PodIds /\ setInfo[c].VethIpv4 \in Ips
    BY <1>1 DEF PodInfo
  <1>3. QED
    BY <1>1, <1>2, PodKeyType, ClassIdType

\* So does the handler of an UnSetQos that cleans the maps.
LEMMA UnsetInfoType ==
  ASSUME BaseInv, NEW c \in ContainerIds, unsetPc[c] \notin {"idle", "release"}
  PROVE  /\ unsetInfo[c] \in PodInfo
         /\ unsetInfo[c].LocalId \in PodIds
         /\ unsetInfo[c].VethIpv4 \in Ips
         /\ PodKey(unsetInfo[c].VethIpv4) \in TcEdtIdKey
  <1>1. unsetInfo[c] \in PodInfo
    BY DEF BaseInv, HandlersKnow, TypeOK
  <1>2. unsetInfo[c].LocalId \in PodIds /\ unsetInfo[c].VethIpv4 \in Ips
    BY <1>1 DEF PodInfo
  <1>3. QED
    BY <1>1, <1>2, PodKeyType

LEMMA InitIdInv == Init => IdInv
  <1> SUFFICES ASSUME Init PROVE IdInv
    OBVIOUS
  <1>1. IDManagerTypeOK
    BY DEF Init, NewPodIDManager, IDManagerTypeOK
  <1>2. EdtMapsTypeOK
    BY DEF Init, EdtMapsInit, EdtMapsTypeOK
  <1>3. TypeOK
    BY <1>1, <1>2, FaultAssumption
       DEF Init, TypeOK, DaemonStates, SetPcs, UnsetPcs, LatePcs, RestorePcs, Sandboxes,
           Phases, Recovered
  <1>4. AddressesApart /\ PodChain /\ SetQosHolds /\ UnSetQosHolds
    BY DEF Init, NewPodIDManager, AddressesApart, PodChain, SetQosHolds,
           UnSetQosHolds
  <1>5. QED
    BY <1>3, <1>4 DEF IdInv

\* A DEL that begins keeps the types.
LEMMA UnSetQosStartType ==
  ASSUME TypeOK, NEW c \in ContainerIds, UnSetQosStart(c)
  PROVE  TypeOK'
  <1>1. IDManagerTypeOK' /\ EdtMapsTypeOK'
    BY DEF UnSetQosStart, TypeOK, IDManagerTypeOK, EdtMapsTypeOK, idManagerVars,
           edtVars
  <1>2. containerIdMap[c] \in PodInfo \union {None}
    BY DEF TypeOK, IDManagerTypeOK
  <1>3. QED
    BY <1>1, <1>2 DEF UnSetQosStart, UnSetQosFirst, TypeOK, faultVars, startVars,
                      lateVars, UnsetPcs,
                      Sandboxes

\* One step of the node or of a handler keeps the types.
LEMMA TypeStep == BaseInv /\ [Next]_vars => TypeOK'
  <1> SUFFICES ASSUME BaseInv, [Next]_vars PROVE TypeOK'
    OBVIOUS
  <1> USE DEF BaseInv
  <1>0. CASE UNCHANGED vars
    BY <1>0 DEF vars, TypeOK, IDManagerTypeOK, EdtMapsTypeOK, idManagerVars,
                edtVars, handlerVars, faultVars, startVars, lateVars, nodeVars
  <1>1. ASSUME NEW c \in ContainerIds, Node(c) PROVE TypeOK'
    <2>1. IDManagerTypeOK' /\ EdtMapsTypeOK'
      BY <1>1 DEF Node, RunPodSandbox, PodStarted, PodRemoved, TypeOK,
                  IDManagerTypeOK, EdtMapsTypeOK, idManagerVars, edtVars
    <2>2. QED
      BY <1>1, <2>1 DEF Node, RunPodSandbox, PodStarted, PodRemoved, TypeOK,
                        handlerVars, faultVars, startVars, lateVars, Sandboxes, Phases
  <1>2. ASSUME NEW c \in ContainerIds, SetQosAllocate(c) PROVE TypeOK'
    <2>1. ip[c] \in Ips
      BY <1>2 DEF SetQosAllocate, AddressesApart, TypeOK
    <2>2. PICK id \in PodIds :
            /\ AllocatePodId(c, ip[c], id)
            /\ setInfo' = [setInfo EXCEPT ![c] = [LocalId |-> id, VethIpv4 |-> ip[c]]]
      BY <1>2 DEF SetQosAllocate
    <2>3. IDManagerTypeOK'
      BY <2>1, <2>2, AllocateType DEF TypeOK
    <2>4. [LocalId |-> id, VethIpv4 |-> ip[c]] \in PodInfo
      BY <2>1 DEF PodInfo
    <2>5. EdtMapsTypeOK'
      BY <1>2 DEF SetQosAllocate, TypeOK, EdtMapsTypeOK, edtVars
    <2>6. QED
      BY <1>2, <2>2, <2>3, <2>4, <2>5
         DEF SetQosAllocate, TypeOK, faultVars, startVars, lateVars, nodeVars, SetPcs
  <1>3. ASSUME NEW c \in ContainerIds, SetQosPatch(c) \/ SetQosPatchFails(c)
        PROVE  TypeOK'
    <2>1. IDManagerTypeOK' /\ EdtMapsTypeOK'
      BY <1>3 DEF SetQosPatch, PatchPodQosInfo, SetQosPatchFails, TypeOK,
                  IDManagerTypeOK, EdtMapsTypeOK, idManagerVars, edtVars
    <2>2. QED
      BY <1>3, <2>1 DEF SetQosPatch, PatchPodQosInfo, SetQosPatchFails, SetQosTo, TypeOK,
                        faultVars, startVars, lateVars, SetPcs
  <1>4. ASSUME NEW c \in ContainerIds,
               \/ SetQosUpdateEgressThrottleId(c)
               \/ SetQosUpdateIngressThrottleId(c)
               \/ SetQosUpdateFails(c)
        PROVE  TypeOK'
    <2>1. IDManagerTypeOK'
      BY <1>4 DEF SetQosUpdateEgressThrottleId, SetQosUpdateIngressThrottleId,
                  SetQosUpdateFails, TypeOK, IDManagerTypeOK, idManagerVars
    <2>2. setPc[c] # "idle"
      BY <1>4 DEF SetQosUpdateEgressThrottleId, SetQosUpdateIngressThrottleId,
                  SetQosUpdateFails
    <2>3. EdtMapsTypeOK'
      <3>1. CASE SetQosUpdateFails(c)
        BY <3>1 DEF SetQosUpdateFails, TypeOK, EdtMapsTypeOK, edtVars
      <3>2. ASSUME NEW d \in Dirs, SetQosUpdateThrottleId(c, d)
            PROVE  EdtMapsTypeOK'
        BY <2>2, <3>2, SetInfoType, UpdateIdType
           DEF SetQosUpdateThrottleId, UpdateThrottleId, TypeOK
      <3>3. QED
        BY <1>4, <3>1, <3>2 DEF SetQosUpdateEgressThrottleId,
             SetQosUpdateIngressThrottleId, Dirs
    <2>4. QED
      BY <1>4, <2>1, <2>3
         DEF SetQosUpdateEgressThrottleId, SetQosUpdateIngressThrottleId,
             SetQosUpdateFails, SetQosTo, TypeOK, faultVars, startVars, lateVars,
             nodeVars, SetPcs
  <1>5. ASSUME NEW c \in ContainerIds,
               SetQosAddEgressConfig(c) \/ SetQosAddIngressConfig(c)
        PROVE  TypeOK'
    <2>1. IDManagerTypeOK'
      BY <1>5 DEF SetQosAddEgressConfig, SetQosAddIngressConfig, TypeOK,
                  IDManagerTypeOK, idManagerVars
    <2>2. setInfo[c].LocalId \in LocalIds
      BY <1>5, SetInfoType, PodIdsLocal
         DEF SetQosAddEgressConfig, SetQosAddIngressConfig
    <2>3. EdtMapsTypeOK'
      BY <1>5, <2>2, WriteCfgType
         DEF SetQosAddEgressConfig, SetQosAddIngressConfig, AddConfig, Dirs,
             TypeOK, Holders
    <2>4. QED
      BY <1>5, <2>1, <2>3
         DEF SetQosAddEgressConfig, SetQosAddIngressConfig, SetQosTo, TypeOK,
             faultVars, startVars, lateVars, nodeVars, SetPcs
  <1>6. ASSUME NEW c \in ContainerIds, SetQosInsertPodInfo(c) PROVE TypeOK'
    <2>1. IDManagerTypeOK'
      BY <1>6, SetInfoType, InsertType DEF SetQosInsertPodInfo, TypeOK
    <2>2. EdtMapsTypeOK'
      BY <1>6 DEF SetQosInsertPodInfo, TypeOK, EdtMapsTypeOK, edtVars
    <2>3. QED
      BY <1>6, <2>1, <2>2
         DEF SetQosInsertPodInfo, SetQosTo, TypeOK, faultVars, startVars, lateVars, SetPcs
  <1>7. ASSUME NEW c \in ContainerIds, UnSetQosLookup(c) PROVE TypeOK'
    BY <1>7, UnSetQosStartType DEF UnSetQosLookup
  <1>8. ASSUME NEW c \in ContainerIds,
               \/ UnSetQosClearEgress(c) \/ UnSetQosClearIngress(c)
               \/ UnSetQosDeleteEgressThrottleId(c)
               \/ UnSetQosDeleteIngressThrottleId(c)
        PROVE  TypeOK'
    <2> USE DEF UnSetQosClearEgress, UnSetQosClearIngress,
                UnSetQosDeleteEgressThrottleId, UnSetQosDeleteIngressThrottleId
    <2>1. IDManagerTypeOK'
      BY <1>8 DEF UnSetQosTo, TypeOK, IDManagerTypeOK, idManagerVars
    <2>2. /\ unsetInfo[c].LocalId \in LocalIds
          /\ PodKey(unsetInfo[c].VethIpv4) \in TcEdtIdKey
      BY <1>8, UnsetInfoType, PodIdsLocal
    <2>3. EdtMapsTypeOK'
      BY <1>8, <2>2, WriteCfgType, UpdateIdType DEF DeleteThrottleId, Dirs, TypeOK
    <2>4. QED
      BY <1>8, <2>1, <2>3 DEF UnSetQosTo, TypeOK, faultVars, startVars, lateVars,
                              nodeVars, UnsetPcs
  <1>9. ASSUME NEW c \in ContainerIds, UnSetQosRelease(c) PROVE TypeOK'
    <2>1. IDManagerTypeOK'
      BY <1>9, ReleaseType DEF UnSetQosRelease, TypeOK
    <2>2. EdtMapsTypeOK'
      BY <1>9 DEF UnSetQosRelease, TypeOK, EdtMapsTypeOK, edtVars
    <2>3. QED
      BY <1>9, <2>1, <2>2
         DEF UnSetQosRelease, TypeOK, faultVars, startVars, lateVars, UnsetPcs, Sandboxes
  <1>10. QED
    BY <1>0, <1>1, <1>2, <1>3, <1>4, <1>5, <1>6, <1>7, <1>8, <1>9
       DEF Next, SetQos, UnSetQos
\* One step keeps the addresses apart, the two maps of the id manager in
\* agreement, and the podInfo of every handler what the id manager holds.
LEMMA IdInvStep == IdInv /\ [Next]_vars => IdInv'
  <1> SUFFICES ASSUME IdInv, [Next]_vars
               PROVE  (AddressesApart /\ PodChain /\ SetQosHolds /\ UnSetQosHolds)'
    BY TypeStep, IdInvBase DEF IdInv
  <1> DEFINE Parts == AddressesApart /\ PodChain /\ SetQosHolds /\ UnSetQosHolds
  <1> USE DEF IdInv, AddressesApart, PodChain, SetQosHolds, UnSetQosHolds
  <1>0. CASE UNCHANGED vars
    BY <1>0 DEF vars, idManagerVars, handlerVars, nodeVars
  <1>1. ASSUME NEW c \in ContainerIds, Node(c) PROVE Parts'
    <2>1. CASE RunPodSandbox(c)
      <3>1. PICK a \in Ips : /\ \A o \in ContainerIds : ip[o] # a
                             /\ ip' = [ip EXCEPT ![c] = a]
        BY <2>1 DEF RunPodSandbox
      <3>2. AddressesApart'
        BY <2>1, <3>1, NoneAssumption DEF RunPodSandbox, TypeOK
      <3>3. (PodChain /\ SetQosHolds /\ UnSetQosHolds)'
        BY <2>1, <3>1 DEF RunPodSandbox, TypeOK, idManagerVars, handlerVars
      <3>4. QED
        BY <3>2, <3>3
    <2>2. CASE PodStarted(c) \/ PodRemoved(c)
      BY <2>2 DEF PodStarted, PodRemoved, idManagerVars, handlerVars
    <2>3. QED
      BY <1>1, <2>1, <2>2 DEF Node
  <1>2. ASSUME NEW c \in ContainerIds, SetQosAllocate(c) PROVE Parts'
    <2>1. PICK id \in PodIds :
            /\ AllocatePodId(c, ip[c], id)
            /\ setInfo' = [setInfo EXCEPT ![c] = [LocalId |-> id, VethIpv4 |-> ip[c]]]
      BY <1>2 DEF SetQosAllocate
    <2> DEFINE info == [LocalId |-> id, VethIpv4 |-> ip[c]]
    <2>2. info \in PodInfo
      BY <1>2 DEF SetQosAllocate, PodInfo, TypeOK
    <2>3. CASE containerIdMap[c] # None
      <3>1. containerIdMap[c] \in PodInfo /\ containerIdMap[c].VethIpv4 = ip[c]
        BY <2>3 DEF TypeOK, IDManagerTypeOK
      <3>2. UNCHANGED podMaps /\ id = containerIdMap[c].LocalId
        BY <2>1, <2>3 DEF AllocatePodId
      <3>3. containerIdMap[c] = info
        BY <3>1, <3>2 DEF PodInfo
      <3>4. (AddressesApart /\ PodChain /\ UnSetQosHolds)'
        BY <1>2, <3>2 DEF SetQosAllocate, TypeOK, podMaps, nodeVars
      <3>5. SetQosHolds'
        BY <1>2, <2>1, <2>3, <3>2, <3>3
           DEF SetQosAllocate, TypeOK, podMaps, nodeVars
      <3>6. QED
        BY <3>4, <3>5
    <2>4. CASE containerIdMap[c] = None
      <3>1. /\ podIdMap[id] = None
            /\ podIdMap' = [podIdMap EXCEPT ![id] = c]
            /\ containerIdMap' = [containerIdMap EXCEPT ![c] = info]
        BY <2>1, <2>4 DEF AllocatePodId, IsFirstFree
      <3>2. info # None /\ info.LocalId = id /\ info.VethIpv4 = ip[c]
        BY <2>2, NoneAssumption
      <3>3. AddressesApart' /\ UnSetQosHolds'
        BY <1>2, <3>1 DEF SetQosAllocate, TypeOK, IDManagerTypeOK, nodeVars
      <3>4. PodChain'
        BY <1>2, <3>1, <3>2, PodIdsLocal, NoneAssumption
           DEF SetQosAllocate, TypeOK, IDManagerTypeOK, nodeVars, Holders
      <3>5. SetQosHolds'
        BY <1>2, <2>1, <3>1, <3>2
           DEF SetQosAllocate, TypeOK, IDManagerTypeOK, nodeVars
      <3>6. QED
        BY <3>3, <3>4, <3>5
    <2>5. QED
      BY <2>3, <2>4
  <1>3. ASSUME NEW c \in ContainerIds, SetQosPatch(c) \/ SetQosPatchFails(c)
        PROVE  Parts'
    BY <1>3 DEF SetQosPatch, SetQosPatchFails, SetQosTo, TypeOK, idManagerVars
  <1>4. ASSUME NEW c \in ContainerIds,
               \/ SetQosUpdateEgressThrottleId(c)
               \/ SetQosUpdateIngressThrottleId(c)
               \/ SetQosUpdateFails(c)
               \/ SetQosAddEgressConfig(c) \/ SetQosAddIngressConfig(c)
        PROVE  Parts'
    BY <1>4 DEF SetQosUpdateEgressThrottleId, SetQosUpdateIngressThrottleId,
                SetQosUpdateFails, SetQosAddEgressConfig, SetQosAddIngressConfig,
                SetQosTo, TypeOK, idManagerVars, nodeVars
  <1>5. ASSUME NEW c \in ContainerIds, SetQosInsertPodInfo(c) PROVE Parts'
    \* Both entries are there already.
    <2>1. setInfo[c] = containerIdMap[c] /\ containerIdMap[c] # None
      BY <1>5 DEF SetQosInsertPodInfo
    <2>2. podIdMap' = podIdMap /\ containerIdMap' = containerIdMap
      BY <1>5, <2>1
         DEF SetQosInsertPodInfo, InsertPodInfo, TypeOK, IDManagerTypeOK
    <2>3. QED
      BY <1>5, <2>2 DEF SetQosInsertPodInfo, SetQosTo, TypeOK
  <1>6. ASSUME NEW c \in ContainerIds, UnSetQosLookup(c) PROVE Parts'
    BY <1>6 DEF UnSetQosLookup, UnSetQosStart, UnSetQosFirst, TypeOK, idManagerVars
  <1>7. ASSUME NEW c \in ContainerIds,
               \/ UnSetQosClearEgress(c) \/ UnSetQosClearIngress(c)
               \/ UnSetQosDeleteEgressThrottleId(c)
               \/ UnSetQosDeleteIngressThrottleId(c)
        PROVE  Parts'
    BY <1>7 DEF UnSetQosClearEgress, UnSetQosClearIngress,
                UnSetQosDeleteEgressThrottleId, UnSetQosDeleteIngressThrottleId,
                UnSetQosTo, TypeOK, idManagerVars, nodeVars
  <1>8. ASSUME NEW c \in ContainerIds, UnSetQosRelease(c) PROVE Parts'
    <2>1. containerIdMap' = [containerIdMap EXCEPT ![c] = None]
      BY <1>8 DEF UnSetQosRelease, ReleasePodIdByContainerId, podMaps, TypeOK,
                  IDManagerTypeOK
    <2>2. AddressesApart'
      BY <1>8 DEF UnSetQosRelease, TypeOK
    <2>3. PodChain'
      <3> SUFFICES ASSUME NEW o \in ContainerIds, o # c, containerIdMap[o] # None
                   PROVE  /\ podIdMap'[containerIdMap[o].LocalId] = o
                          /\ ip'[o] = ip[o] /\ sandbox'[o] = sandbox[o]
        BY <2>1 DEF TypeOK, IDManagerTypeOK
      <3>1. podIdMap'[containerIdMap[o].LocalId] = o
        <4>1. CASE containerIdMap[c] = None
          BY <1>8, <4>1 DEF UnSetQosRelease, ReleasePodIdByContainerId, podMaps
        <4>2. CASE containerIdMap[c] # None
          \* The sandboxes have different ids: podIdMap gives one holder to each.
          <5>1. containerIdMap[c].LocalId # containerIdMap[o].LocalId
            BY <4>2
          <5>2. podIdMap' = [podIdMap EXCEPT ![containerIdMap[c].LocalId] = None]
            BY <1>8, <4>2 DEF UnSetQosRelease, ReleasePodIdByContainerId
          <5>3. QED
            BY <5>1, <5>2 DEF TypeOK, IDManagerTypeOK
        <4>3. QED
          BY <4>1, <4>2
      <3>2. QED
        BY <1>8, <3>1 DEF UnSetQosRelease, TypeOK
    <2>4. SetQosHolds' /\ UnSetQosHolds'
      BY <1>8, <2>1 DEF UnSetQosRelease, TypeOK, IDManagerTypeOK
    <2>5. QED
      BY <2>2, <2>3, <2>4
  <1>9. QED
    BY <1>0, <1>1, <1>2, <1>3, <1>4, <1>5, <1>6, <1>7, <1>8
       DEF Next, SetQos, UnSetQos

\* Spec keeps the types of all its variables: in particular no handler uses a
\* podInfo it has not got.
THEOREM TypeCorrect == Spec => []TypeOK
  <1>1. IdInv => TypeOK
    BY DEF IdInv
  <1>2. QED
    BY InitIdInv, IdInvStep, <1>1, PTL DEF Spec

\* The handlers of different sandboxes, interleaved in any way, never make two
\* sandboxes hold one id, though InsertPodInfo and ReleasePodIdByContainerId
\* overwrite what they find.
THEOREM IdsNotShared == Spec => []NoSharedId
  <1>1. IdInv => NoSharedId
    BY DEF IdInv, PodChain, NoSharedId
  <1>2. QED
    BY InitIdInv, IdInvStep, <1>1, PTL DEF Spec
-----------------------------------------------------------------------------
(* The QoS in force.                                                       *)

\* Two sandboxes with entries are kept apart by id and by address.
LEMMA Apart ==
  ASSUME IdInv, NEW c \in ContainerIds, NEW o \in ContainerIds, c # o,
         containerIdMap[c] # None, containerIdMap[o] # None
  PROVE  /\ containerIdMap[c].LocalId # containerIdMap[o].LocalId
         /\ PodKey(ip[c]) # PodKey(ip[o])
  BY DEF IdInv, PodChain, AddressesApart, PodKey

\* A sandbox's entry names an id, an index of the arrays if they reach so far, and
\* a key of the id maps.
LEMMA EntryInRange ==
  ASSUME IdInv, NEW c \in ContainerIds,
         containerIdMap[c] # None
  PROVE  /\ containerIdMap[c].LocalId \in PodIds
         /\ containerIdMap[c].LocalId \in CfgIndexes <=> containerIdMap[c].LocalId < MapSize
         /\ PodKey(ip[c]) \in TcEdtIdKey
         /\ containerIdMap[c].VethIpv4 = ip[c]
  <1>1. containerIdMap[c] \in PodInfo /\ containerIdMap[c].VethIpv4 = ip[c]
    BY DEF IdInv, TypeOK, IDManagerTypeOK, PodChain
  <1>2. containerIdMap[c].LocalId \in PodIds /\ ip[c] \in Ips
    BY <1>1 DEF PodInfo
  <1>3. QED
    BY <1>1, <1>2, PodIdsLocal, PodKeyType DEF CfgIndexes

\* What SetQos writes for c is there afterwards, and the entries of the others
\* are as before.
LEMMA ClassifiedAfter ==
  ASSUME IdInv, NEW c \in ContainerIds, NEW d \in Dirs,
         setPc[c] # "idle", SetQosUpdateThrottleId(c, d),
         UNCHANGED <<ip, containerIdMap>>
  PROVE  /\ Classified(c, d)'
         /\ \A e \in Dirs : e # d => (Classified(c, e)' <=> Classified(c, e))
         /\ \A o \in ContainerIds \ {c} : containerIdMap[o] # None =>
              \A e \in Dirs : Classified(o, e)' <=> Classified(o, e)
         /\ \A o \in ContainerIds : \A e \in Dirs :
              Configured(o, e)' <=> Configured(o, e)
  <1>1. containerIdMap[c] # None /\ setInfo[c] = containerIdMap[c]
    BY DEF IdInv, SetQosHolds
  <1>2. throttleId' = [throttleId EXCEPT ![d][PodKey(ip[c])] =
                         GenerateClassId(c, containerIdMap[c].LocalId)]
    BY <1>1, EntryInRange DEF SetQosUpdateThrottleId, UpdateThrottleId
  <1>3. PodKey(ip[c]) \in TcEdtIdKey
    BY <1>1, EntryInRange
  <1>4. throttleId \in [Dirs -> [TcEdtIdKey -> ClassIds \union {None}]]
    BY DEF IdInv, TypeOK, EdtMapsTypeOK
  <1>5. Classified(c, d)'
    BY <1>2, <1>3, <1>4 DEF Classified, GenerateClassId, PodKey
  <1>6. \A e \in Dirs : e # d => throttleId'[e] = throttleId[e]
    BY <1>2, <1>4
  <1>7. \A k \in TcEdtIdKey : k # PodKey(ip[c]) => throttleId'[d][k] = throttleId[d][k]
    BY <1>2, <1>4
  <1>8. \A o \in ContainerIds \ {c} : containerIdMap[o] # None =>
          PodKey(ip[o]) \in TcEdtIdKey /\ PodKey(ip[o]) # PodKey(ip[c])
    BY <1>1, Apart, EntryInRange
  <1>9. UNCHANGED throttleCfg
    BY DEF SetQosUpdateThrottleId, UpdateThrottleId
  <1>10. QED
    BY <1>5, <1>6, <1>7, <1>8, <1>9 DEF Classified, Configured, GenerateClassId, PodKey

LEMMA ConfiguredAfter ==
  ASSUME IdInv, NEW c \in ContainerIds, NEW d \in Dirs,
         setPc[c] # "idle", AddConfig(d, setInfo[c].LocalId, c),
         UNCHANGED <<ip, containerIdMap>>
  PROVE  /\ Configured(c, d)'
         /\ \A e \in Dirs : e # d => (Configured(c, e)' <=> Configured(c, e))
         /\ \A o \in ContainerIds \ {c} : containerIdMap[o] # None =>
              \A e \in Dirs : Configured(o, e)' <=> Configured(o, e)
         /\ \A o \in ContainerIds : \A e \in Dirs :
              Classified(o, e)' <=> Classified(o, e)
  <1>1. containerIdMap[c] # None /\ setInfo[c] = containerIdMap[c]
    BY DEF IdInv, SetQosHolds
  <1>2. throttleCfg' = IF containerIdMap[c].LocalId \in CfgIndexes
                       THEN [throttleCfg EXCEPT ![d][containerIdMap[c].LocalId] = c]
                       ELSE throttleCfg
    BY <1>1, EntryInRange DEF AddConfig, SingleWriteThrottleCfg
  <1>3. throttleCfg \in [Dirs -> [CfgIndexes -> Holders \union {None}]]
    BY DEF IdInv, TypeOK, EdtMapsTypeOK
  <1>5. Configured(c, d)'
    BY <1>2, <1>3 DEF Configured
  <1>6. \A e \in Dirs : e # d => throttleCfg'[e] = throttleCfg[e]
    BY <1>2, <1>3
  <1>7. \A i \in CfgIndexes :
          i # containerIdMap[c].LocalId => throttleCfg'[d][i] = throttleCfg[d][i]
    BY <1>2, <1>3
  <1>8. \A o \in ContainerIds \ {c} : containerIdMap[o] # None =>
          containerIdMap[o].LocalId # containerIdMap[c].LocalId
    BY <1>1, Apart
  <1>9. UNCHANGED throttleId
    BY DEF AddConfig, SingleWriteThrottleCfg
  <1>10. QED
    BY <1>5, <1>6, <1>7, <1>8, <1>9 DEF Classified, Configured, GenerateClassId, PodKey

\* What UnSetQos clears for c is nobody else's.
LEMMA OthersKept ==
  ASSUME IdInv, NEW c \in ContainerIds, NEW d \in Dirs,
         unsetPc[c] \notin {"idle", "release"},
         \/ SingleWriteThrottleCfg(d, unsetInfo[c].LocalId, None)
         \/ DeleteThrottleId(d, PodKey(unsetInfo[c].VethIpv4)),
         UNCHANGED <<ip, containerIdMap>>
  PROVE  \A o \in ContainerIds \ {c} : containerIdMap[o] # None =>
           \A e \in Dirs : /\ Classified(o, e)' <=> Classified(o, e)
                           /\ Configured(o, e)' <=> Configured(o, e)
  <1>1. containerIdMap[c] # None /\ unsetInfo[c] = containerIdMap[c]
    BY DEF IdInv, UnSetQosHolds
  <1>2. \A o \in ContainerIds \ {c} : containerIdMap[o] # None =>
          /\ containerIdMap[o].LocalId # containerIdMap[c].LocalId
          /\ PodKey(ip[o]) \in TcEdtIdKey /\ PodKey(ip[o]) # PodKey(ip[c])
    BY <1>1, Apart, EntryInRange
  <1>3. CASE SingleWriteThrottleCfg(d, unsetInfo[c].LocalId, None)
    <2>1. throttleCfg' = IF containerIdMap[c].LocalId \in CfgIndexes
                         THEN [throttleCfg EXCEPT ![d][containerIdMap[c].LocalId] = None]
                         ELSE throttleCfg
      BY <1>1, <1>3, EntryInRange DEF SingleWriteThrottleCfg
    <2>2. \A e \in Dirs : \A i \in CfgIndexes :
            i # containerIdMap[c].LocalId => throttleCfg'[e][i] = throttleCfg[e][i]
      BY <2>1 DEF IdInv, TypeOK, EdtMapsTypeOK
    <2>3. UNCHANGED throttleId
      BY <1>3 DEF SingleWriteThrottleCfg
    <2>4. QED
      BY <1>2, <2>2, <2>3 DEF Classified, Configured, GenerateClassId, PodKey
  <1>4. CASE DeleteThrottleId(d, PodKey(unsetInfo[c].VethIpv4))
    <2>1. throttleId' = [throttleId EXCEPT ![d][PodKey(ip[c])] = None]
      BY <1>1, <1>4, EntryInRange DEF DeleteThrottleId
    <2>2. \A e \in Dirs : \A k \in TcEdtIdKey :
            k # PodKey(ip[c]) => throttleId'[e][k] = throttleId[e][k]
      BY <2>1 DEF IdInv, TypeOK, EdtMapsTypeOK
    <2>3. UNCHANGED throttleCfg
      BY <1>4 DEF DeleteThrottleId
    <2>4. QED
      BY <1>2, <2>2, <2>3 DEF Classified, Configured, GenerateClassId, PodKey
  <1>5. QED
    BY <1>3, <1>4
\* Steps that write no map, no address and no entry change nothing of this.
LEMMA AllKept ==
  ASSUME UNCHANGED <<throttleId, throttleCfg, ip, containerIdMap>>
  PROVE  \A o \in ContainerIds : \A e \in Dirs :
           /\ Classified(o, e)' <=> Classified(o, e)
           /\ Configured(o, e)' <=> Configured(o, e)
  BY DEF Classified, Configured, GenerateClassId, PodKey

\* What SetQos has done and what it has promised survives every step.
LEMMA DoneStep ==
  IndInv /\ [Next]_vars => (SetQosDone /\ Succeeded)'
  <1> SUFFICES ASSUME IndInv, [Next]_vars
               PROVE  (SetQosDone /\ Succeeded)'
    OBVIOUS
  <1> DEFINE Goal == SetQosDone /\ Succeeded
  <1>a. IdInv /\ SetQosDone /\ Succeeded
    BY DEF IndInv
  <1>b. /\ setPc \in [ContainerIds -> SetPcs]
        /\ unsetPc \in [ContainerIds -> UnsetPcs]
        /\ sandbox \in [ContainerIds -> Sandboxes]
        /\ success \in [ContainerIds -> BOOLEAN]
        /\ containerIdMap \in [ContainerIds -> PodInfo \union {None}]
        /\ ip \in [ContainerIds -> Ips \union {None}]
    BY <1>a DEF IdInv, TypeOK, IDManagerTypeOK
  <1>c. SetQosHolds /\ UnSetQosHolds
    BY <1>a DEF IdInv
  <1> USE DEF SetQosDone, Succeeded, SetQosHolds, UnSetQosHolds, Dirs
  <1>0. CASE UNCHANGED vars
    <2>1. UNCHANGED <<throttleId, throttleCfg, ip, containerIdMap>>
      BY <1>0 DEF vars, edtVars, idManagerVars, nodeVars
    <2>2. QED
      BY <1>0, <1>a, <2>1, AllKept DEF vars, handlerVars, nodeVars
  <1>1. ASSUME NEW c \in ContainerIds, Node(c) PROVE Goal'
    <2>1. CASE RunPodSandbox(c)
      <3>1. \A o \in ContainerIds : containerIdMap[o] # None => o # c
        BY <2>1, <1>a DEF RunPodSandbox, IdInv, PodChain
      <3>2. \A o \in ContainerIds \ {c} : ip'[o] = ip[o] /\ sandbox'[o] = sandbox[o]
        BY <2>1, <1>b DEF RunPodSandbox
      <3>3. UNCHANGED <<throttleId, throttleCfg, containerIdMap, setPc, success>>
        BY <2>1 DEF RunPodSandbox, edtVars, idManagerVars, handlerVars
      <3>4. \A o \in ContainerIds \ {c} : \A e \in Dirs :
              /\ Classified(o, e)' <=> Classified(o, e)
              /\ Configured(o, e)' <=> Configured(o, e)
        BY <3>2, <3>3 DEF Classified, Configured, GenerateClassId, PodKey
      <3>5. setPc[c] = "idle" /\ ~success[c]
        BY <1>a, <1>b, <1>c, <3>1
      <3>6. QED
        BY <1>a, <3>2, <3>3, <3>4, <3>5
    <2>2. CASE PodStarted(c) \/ PodRemoved(c)
      <3>1. UNCHANGED <<throttleId, throttleCfg, ip, containerIdMap>>
        BY <2>2 DEF PodStarted, PodRemoved, edtVars, idManagerVars
      <3>2. QED
        BY <1>a, <2>2, <3>1, AllKept DEF PodStarted, PodRemoved, handlerVars
    <2>3. QED
      BY <1>1, <2>1, <2>2 DEF Node
  <1>2. ASSUME NEW c \in ContainerIds, SetQosAllocate(c) PROVE Goal'
    <2>1. \A o \in ContainerIds \ {c} : containerIdMap'[o] = containerIdMap[o]
      BY <1>2, <1>b DEF SetQosAllocate, AllocatePodId, podMaps
    <2>2. UNCHANGED <<throttleId, throttleCfg, ip, sandbox, success>>
      BY <1>2 DEF SetQosAllocate, edtVars, nodeVars
    <2>3. \A o \in ContainerIds \ {c} : \A e \in Dirs :
            /\ Classified(o, e)' <=> Classified(o, e)
            /\ Configured(o, e)' <=> Configured(o, e)
      BY <2>1, <2>2 DEF Classified, Configured, GenerateClassId, PodKey
    <2>4. setPc' = [setPc EXCEPT ![c] = "patch"] /\ ~success[c]
      BY <1>2 DEF SetQosAllocate
    <2>5. QED
      BY <1>a, <1>b, <2>1, <2>2, <2>3, <2>4
  <1>3. ASSUME NEW c \in ContainerIds, SetQosPatch(c) \/ SetQosPatchFails(c)
        PROVE  Goal'
    <2>1. UNCHANGED <<throttleId, throttleCfg, ip, containerIdMap, sandbox, success>>
      BY <1>3 DEF SetQosPatch, SetQosPatchFails, edtVars, idManagerVars
    <2>2. \E p \in {"egressId", "idle"} : setPc' = [setPc EXCEPT ![c] = p]
      BY <1>3 DEF SetQosPatch, SetQosPatchFails, SetQosTo
    <2>3. QED
      BY <1>a, <1>b, <2>1, <2>2, AllKept
  <1>4. ASSUME NEW c \in ContainerIds, SetQosUpdateFails(c) PROVE Goal'
    <2>1. UNCHANGED <<throttleId, throttleCfg, ip, containerIdMap, sandbox, success>>
      BY <1>4 DEF SetQosUpdateFails, edtVars, idManagerVars, nodeVars
    <2>2. setPc' = [setPc EXCEPT ![c] = "idle"]
      BY <1>4 DEF SetQosUpdateFails, SetQosTo
    <2>3. QED
      BY <1>a, <1>b, <2>1, <2>2, AllKept
  <1>5. ASSUME NEW c \in ContainerIds,
               \/ SetQosUpdateEgressThrottleId(c) \/ SetQosUpdateIngressThrottleId(c)
               \/ SetQosAddEgressConfig(c) \/ SetQosAddIngressConfig(c)
        PROVE  Goal'
    <2> USE DEF SetQosUpdateEgressThrottleId, SetQosUpdateIngressThrottleId,
                SetQosAddEgressConfig, SetQosAddIngressConfig
    <2>1. UNCHANGED <<ip, containerIdMap, sandbox, success>>
      BY <1>5 DEF idManagerVars, nodeVars
    <2>2. setPc[c] # "idle" /\ ~success[c]
      BY <1>5, <1>c
    <2>3. \A o \in ContainerIds : \A e \in Dirs :
            o # c /\ containerIdMap[o] # None =>
              /\ Classified(o, e)' <=> Classified(o, e)
              /\ Configured(o, e)' <=> Configured(o, e)
      BY <1>5, <1>a, <2>1, <2>2, ClassifiedAfter, ConfiguredAfter
    <2>4. CASE SetQosUpdateEgressThrottleId(c)
      BY <1>a, <1>b, <1>c, <2>1, <2>2, <2>3, <2>4, ClassifiedAfter DEF SetQosTo
    <2>5. CASE SetQosUpdateIngressThrottleId(c)
      BY <1>a, <1>b, <1>c, <2>1, <2>2, <2>3, <2>5, ClassifiedAfter DEF SetQosTo
    <2>6. CASE SetQosAddEgressConfig(c)
      BY <1>a, <1>b, <1>c, <2>1, <2>2, <2>3, <2>6, ConfiguredAfter DEF SetQosTo
    <2>7. CASE SetQosAddIngressConfig(c)
      BY <1>a, <1>b, <1>c, <2>1, <2>2, <2>3, <2>7, ConfiguredAfter DEF SetQosTo
    <2>8. QED
      BY <1>5, <2>4, <2>5, <2>6, <2>7
  <1>6. ASSUME NEW c \in ContainerIds, SetQosInsertPodInfo(c) PROVE Goal'
    <2>1. setPc[c] = "insert" /\ containerIdMap[c] # None /\ sandbox[c] = "up"
      BY <1>6, <1>c DEF SetQosInsertPodInfo
    <2>2. UNCHANGED <<throttleId, throttleCfg, ip, containerIdMap, sandbox>>
      BY <1>6, <1>b, <1>c, <2>1 DEF SetQosInsertPodInfo, InsertPodInfo, edtVars
    <2>3. /\ setPc' = [setPc EXCEPT ![c] = "idle"]
          /\ success' = [success EXCEPT ![c] = TRUE]
      BY <1>6, <2>1 DEF SetQosInsertPodInfo, SetQosTo
    <2>4. QED
      BY <1>a, <1>b, <2>1, <2>2, <2>3, AllKept
  <1>7. ASSUME NEW c \in ContainerIds, UnSetQosLookup(c) PROVE Goal'
    <2>1. UNCHANGED <<throttleId, throttleCfg, ip, containerIdMap, setPc>>
      BY <1>7 DEF UnSetQosLookup, UnSetQosStart, edtVars, idManagerVars
    <2>2. /\ sandbox' = [sandbox EXCEPT ![c] = "stopping"]
          /\ success' = [success EXCEPT ![c] = FALSE]
      BY <1>7 DEF UnSetQosLookup, UnSetQosStart
    <2>3. QED
      BY <1>a, <1>b, <2>1, <2>2, AllKept
  <1>8. ASSUME NEW c \in ContainerIds,
               \/ UnSetQosClearEgress(c) \/ UnSetQosClearIngress(c)
               \/ UnSetQosDeleteEgressThrottleId(c)
               \/ UnSetQosDeleteIngressThrottleId(c)
        PROVE  Goal'
    <2> USE DEF UnSetQosClearEgress, UnSetQosClearIngress,
                UnSetQosDeleteEgressThrottleId, UnSetQosDeleteIngressThrottleId
    <2>1. UNCHANGED <<ip, containerIdMap, sandbox, success, setPc>>
      BY <1>8 DEF UnSetQosTo, idManagerVars, nodeVars
    <2>2. unsetPc[c] \notin {"idle", "release"}
      BY <1>8
    <2>3. setPc[c] = "idle" /\ ~success[c]
      BY <1>a, <1>b, <1>c, <2>2
    <2>4. \A o \in ContainerIds \ {c} : containerIdMap[o] # None =>
            \A e \in Dirs : /\ Classified(o, e)' <=> Classified(o, e)
                            /\ Configured(o, e)' <=> Configured(o, e)
      BY <1>8, <1>a, <2>1, <2>2, OthersKept
    <2>5. QED
      BY <1>a, <1>c, <2>1, <2>3, <2>4
  <1>9. ASSUME NEW c \in ContainerIds, UnSetQosRelease(c) PROVE Goal'
    <2>1. \A o \in ContainerIds \ {c} : /\ containerIdMap'[o] = containerIdMap[o]
                                        /\ ip'[o] = ip[o]
                                        /\ sandbox'[o] = sandbox[o]
      BY <1>9, <1>b DEF UnSetQosRelease, ReleasePodIdByContainerId, podMaps
    <2>2. UNCHANGED <<throttleId, throttleCfg, setPc, success>>
      BY <1>9 DEF UnSetQosRelease, edtVars
    <2>3. setPc[c] = "idle" /\ ~success[c]
      BY <1>9, <1>a, <1>b, <1>c DEF UnSetQosRelease
    <2>4. \A o \in ContainerIds \ {c} : \A e \in Dirs :
            /\ Classified(o, e)' <=> Classified(o, e)
            /\ Configured(o, e)' <=> Configured(o, e)
      BY <2>1, <2>2 DEF Classified, Configured, GenerateClassId, PodKey
    <2>5. QED
      BY <1>a, <2>1, <2>2, <2>3, <2>4
  <1>10. QED
    BY <1>0, <1>1, <1>2, <1>3, <1>4, <1>5, <1>6, <1>7, <1>8, <1>9
       DEF Next, SetQos, UnSetQos

LEMMA IndInvInForce == ASSUME IndInv PROVE QosInForce
  <1>1. SUFFICES ASSUME NEW c \in ContainerIds, success[c] PROVE InForce(c)
    BY DEF QosInForce
  <1>2. containerIdMap[c] # None /\ \A d \in Dirs : Classified(c, d) /\ Configured(c, d)
    BY <1>1 DEF IndInv, Succeeded
  <1>3. QED
    BY <1>2 DEF InForce, ThrottledAs, Classified, Configured

LEMMA IndInvariant == Spec => []IndInv
  <1>1. Init => IndInv
    <2>1. Init => SetQosDone /\ Succeeded
      BY DEF Init, SetQosDone, Succeeded
    <2>2. QED
      BY <2>1, InitIdInv DEF IndInv
  <1>2. IndInv /\ [Next]_vars => IndInv'
    BY IdInvStep, DoneStep DEF IndInv
  <1>3. QED
    BY <1>1, <1>2, PTL DEF Spec

\* The QoS of a pod whose SetQos has returned Success stays in force until its DEL,
\* for any number of sandboxes, any size of the arrays and any interleaving of the
\* handlers.
THEOREM QosStaysInForce == Spec => []QosInForce
  BY IndInvariant, IndInvInForce, PTL

\* In the data path every packet of a pod, its id within the arrays or beyond, is
\* classified as the pod's own.
PodTraffic ==
    \A c \in ContainerIds, d \in Dirs, packet \in Packets :
      success[c] /\ LocalEnd(d, packet)[1] = ip[c] /\ ip[c] \notin Contested
        => Classify(d, packet) = GenerateClassId(c, containerIdMap[c].LocalId)

\* What the handlers of bwm-daemon enter is what bwm_tc_egress and bwm_tc_ingress
\* look up first: no flow set for a pod's address takes packets from the pod.
THEOREM PodTrafficClassified == Spec => []PodTraffic
  <1>1. IndInv => PodTraffic
    <2>1. SUFFICES ASSUME IndInv, NEW c \in ContainerIds, NEW d \in Dirs,
                          NEW packet \in Packets, success[c],
                          LocalEnd(d, packet)[1] = ip[c], ip[c] \notin Contested
                   PROVE  Classify(d, packet)
                            = GenerateClassId(c, containerIdMap[c].LocalId)
      BY DEF PodTraffic
    <2>2. /\ containerIdMap[c] # None
          /\ throttleId[d][PodKey(ip[c])] = GenerateClassId(c, containerIdMap[c].LocalId)
      BY <2>1 DEF IndInv, Succeeded, Classified
    <2>3. throttleId[d][PodKey(ip[c])] # None
      <3>1. containerIdMap[c].LocalId \in PodIds
        BY <2>1, <2>2, EntryInRange DEF IndInv
      <3>2. QED
        BY <2>2, <3>1, ClassIdType, NoClassIdAssumption
    <2>4. QED
      BY <2>1, <2>2, <2>3 DEF Classify
  <1>2. QED
    BY <1>1, IndInvariant, PTL
-----------------------------------------------------------------------------
(* FaultSpec: crashes, restarts, CNI calls that time out, early RPCs.  A   *)
(* restart may give the daemon other ids than its maps hold, so IdInv does *)
(* not survive; what does is that nobody is wrong about an address.  Only  *)
(* UnSetQos deletes from the id maps, and it runs only while its sandbox   *)
(* still has its address, so it deletes under the sandbox's own key; only  *)
(* the handler of a DEL its client gave up on deletes under a key that may *)
(* be another sandbox's by then, and swept has the sandboxes it meets.     *)

\* A podInfo of a sandbox that has an address names that address.
Known(c, info) ==
    info # None => /\ sandbox[c] # "none"
                   /\ ip[c] # None => info.VethIpv4 = ip[c]

\* That goes for the daemon's memory, the handlers and what a restart reads.
AddressKnown ==
    \A c \in ContainerIds :
      /\ Known(c, containerIdMap[c]) /\ Known(c, annotation[c])
      /\ Known(c, setInfo[c]) /\ Known(c, unsetInfo[c])

\* UnSetQos runs for a sandbox that is being deleted, and success ends there.
Deleting ==
    \A c \in ContainerIds :
      /\ unsetPc[c] # "idle" => sandbox[c] = "stopping"
      /\ success[c] => sandbox[c] = "up"

\* What runs without a caller, the loop of the start-up and a handler its client
\* gave up on, has the podInfo it is about to use.
CallerlessKnow ==
    /\ restorePc # "next" => restore \in Recovered
    /\ \A c \in ContainerIds : latePc[c] \notin {"none", "release", "done"} => lateInfo[c] # None

Entered(c, d) == throttleId[d][PodKey(ip[c])] # None

\* The entries of the id maps SetQos has made stay until the DEL.
StillEntered ==
    \A c \in ContainerIds \ swept : sandbox[c] = "up" =>
      /\ setPc[c] \in {"ingressId", "egressCfg", "ingressCfg", "insert"}
           => Entered(c, "egress")
      /\ setPc[c] \in {"egressCfg", "ingressCfg", "insert"}
           => Entered(c, "ingress")
      /\ success[c] => \A d \in Dirs : Entered(c, d)

FaultInv ==
    BaseInv /\ CallerlessKnow /\ AddressKnown /\ Deleting /\ StillEntered

LEMMA InitFaultInv == Init => FaultInv
  <1> SUFFICES ASSUME Init PROVE FaultInv
    OBVIOUS
  <1>1. BaseInv
    BY InitIdInv, IdInvBase
  <1>2. CallerlessKnow /\ AddressKnown /\ Deleting /\ StillEntered
    BY DEF Init, NewPodIDManager, CallerlessKnow, AddressKnown, Known, Deleting,
           StillEntered
  <1>3. QED
    BY <1>1, <1>2 DEF FaultInv

\* A handler its client gave up on knows a PodInfo while it cleans the maps.
LEMMA LateInfoType ==
  ASSUME FaultInv, NEW c \in ContainerIds, latePc[c] \notin {"none", "release", "done"}
  PROVE  /\ lateInfo[c] \in PodInfo
         /\ lateInfo[c].LocalId \in LocalIds
         /\ lateInfo[c].VethIpv4 \in Ips
         /\ PodKey(lateInfo[c].VethIpv4) \in TcEdtIdKey
  <1>1. lateInfo[c] \in PodInfo
    BY DEF FaultInv, BaseInv, CallerlessKnow, TypeOK
  <1>2. lateInfo[c].LocalId \in PodIds /\ lateInfo[c].VethIpv4 \in Ips
    BY <1>1 DEF PodInfo
  <1>3. QED
    BY <1>1, <1>2, PodKeyType, PodIdsLocal

\* A DEL on which its client gives up keeps the types, then and later.
LEMMA LateType ==
  ASSUME FaultInv, NEW c \in ContainerIds, UnSetQosGivenUp(c) \/ UnSetQosLate(c)
  PROVE  TypeOK'
  <1>0. TypeOK
    BY DEF FaultInv, BaseInv
  <1>1. CASE UnSetQosGivenUp(c)
    <2>1. IDManagerTypeOK' /\ EdtMapsTypeOK'
      BY <1>0, <1>1 DEF UnSetQosGivenUp, TypeOK, IDManagerTypeOK, EdtMapsTypeOK,
                        idManagerVars, edtVars
    <2>2. latePc' \in [ContainerIds -> LatePcs] /\ unsetPc' \in [ContainerIds -> UnsetPcs]
      BY <1>0, <1>1 DEF UnSetQosGivenUp, TypeOK, LatePcs, UnsetPcs
    <2>3. /\ lateInfo' \in [ContainerIds -> PodInfo \union {None}]
          /\ unsetInfo' \in [ContainerIds -> PodInfo \union {None}]
      BY <1>0, <1>1 DEF UnSetQosGivenUp, TypeOK
    <2>4. QED
      BY <1>0, <1>1, <2>1, <2>2, <2>3 DEF UnSetQosGivenUp, TypeOK, startVars, nodeVars
  <1>2. CASE UnSetQosLate(c)
    <2>1. IDManagerTypeOK'
      BY <1>0, <1>2, ReleaseType DEF UnSetQosLate, LateClear, LateDelete, TypeOK,
                                     IDManagerTypeOK, idManagerVars
    <2>2. EdtMapsTypeOK'
      <3>1. CASE latePc[c] = "release"
        BY <1>0, <1>2, <3>1 DEF UnSetQosLate, TypeOK, EdtMapsTypeOK, edtVars
      <3>2. CASE latePc[c] # "release"
        <4>1. /\ lateInfo[c].LocalId \in LocalIds
              /\ PodKey(lateInfo[c].VethIpv4) \in TcEdtIdKey
          BY <1>2, <3>2, LateInfoType DEF UnSetQosLate
        <4>2. QED
          BY <1>0, <1>2, <3>2, <4>1, WriteCfgType, UpdateIdType
             DEF UnSetQosLate, LateClear, LateDelete, DeleteThrottleId, Dirs, TypeOK
      <3>3. QED
        BY <3>1, <3>2
    <2>3. swept' \in SUBSET ContainerIds
      BY <1>0, <1>2 DEF UnSetQosLate, LateClear, LateDelete, TypeOK
    <2>4. latePc' \in [ContainerIds -> LatePcs]
      BY <1>0, <1>2 DEF UnSetQosLate, LateTo, TypeOK, LatePcs, UnsetPcs
    <2>5. QED
      BY <1>0, <1>2, <2>1, <2>2, <2>3, <2>4
         DEF UnSetQosLate, LateTo, TypeOK, handlerVars, startVars, nodeVars
  <1>3. QED
    BY <1>1, <1>2

\* The start-up and the end of the daemon keep the types.
LEMMA FaultTypeStep == FaultInv /\ [FaultNext]_vars => TypeOK'
  <1> SUFFICES ASSUME FaultInv, FaultNext PROVE TypeOK'
    BY TypeStep DEF FaultInv
  <1>0. TypeOK
    BY DEF FaultInv, BaseInv
  <1>1. CASE Next
    BY <1>1, TypeStep DEF FaultInv
  <1>2. CASE Die
    <2>1. IDManagerTypeOK'
      BY <1>2 DEF Die, IDManagerTypeOK
    <2>2. EdtMapsTypeOK'
      BY <1>0, <1>2 DEF Die, TypeOK, EdtMapsTypeOK, edtVars
    <2>3. restarts' \in 0..MaxRestarts
      BY <1>0, <1>2, FaultAssumption DEF Die, TypeOK
    <2>4. QED
      BY <1>0, <1>2, <2>1, <2>2, <2>3
         DEF Die, TypeOK, nodeVars, DaemonStates, SetPcs, UnsetPcs, RestorePcs, LatePcs
  <1>3. CASE RecoverIdmanagerFromCache
    <2>1. /\ podIdMap' \in [LocalIds -> ContainerIds \union {None}]
          /\ UNCHANGED <<flowIdMap, processIdMap>>
      BY <1>3 DEF RecoverIdmanagerFromCache, flowMaps
    <2>2. containerIdMap' \in [ContainerIds -> PodInfo \union {None}]
      BY <1>0, <1>3 DEF RecoverIdmanagerFromCache, GetPodPatchData, TypeOK
    <2>3. IDManagerTypeOK'
      BY <1>0, <2>1, <2>2 DEF TypeOK, IDManagerTypeOK, Holders
    <2>4. EdtMapsTypeOK'
      BY <1>0, <1>3 DEF RecoverIdmanagerFromCache, TypeOK, EdtMapsTypeOK, edtVars
    <2>5. QED
      BY <1>0, <1>3, <2>3, <2>4
         DEF RecoverIdmanagerFromCache, TypeOK, handlerVars, lateVars, nodeVars,
             DaemonStates
  <1>4. CASE NewTcbpf \/ ListPodInfo \/ RestoreNext
    <2>1. IDManagerTypeOK' /\ EdtMapsTypeOK'
      BY <1>0, <1>4 DEF NewTcbpf, ListPodInfo, RestoreNext, TypeOK,
           IDManagerTypeOK, EdtMapsTypeOK, idManagerVars, edtVars
    <2>2. todo' \in SUBSET Recovered
      <3>1. CASE ListPodInfo
        BY <1>0, <3>1 DEF ListPodInfo, TypeOK, IDManagerTypeOK, Recovered
      <3>2. CASE NewTcbpf \/ RestoreNext
        BY <1>0, <3>2 DEF NewTcbpf, RestoreNext, TypeOK
      <3>3. QED
        BY <1>4, <3>1, <3>2
    <2>3. restore' \in Recovered \union {None} /\ restorePc' \in RestorePcs
      BY <1>0, <1>4 DEF NewTcbpf, ListPodInfo, RestoreNext, TypeOK, RestorePcs
    <2>4. QED
      BY <1>0, <1>4, <2>1, <2>2, <2>3
         DEF NewTcbpf, ListPodInfo, RestoreNext, TypeOK, handlerVars, lateVars, nodeVars,
             DaemonStates
  <1>5. CASE RestoreConfigs \/ RestoreThrottleIds
    <2>1. restore \in ContainerIds \X PodInfo
      BY <1>0, <1>5 DEF RestoreConfigs, RestoreThrottleIds, FaultInv,
           CallerlessKnow, TypeOK, Recovered
    <2>2. /\ restore[1] \in ContainerIds
          /\ restore[2].LocalId \in PodIds /\ restore[2].VethIpv4 \in Ips
      BY <2>1 DEF PodInfo
    <2>3. /\ restore[2].LocalId \in LocalIds
          /\ PodKey(restore[2].VethIpv4) \in TcEdtIdKey
          /\ GenerateClassId(restore[1], restore[2].LocalId) \in ClassIds
      BY <2>2, PodIdsLocal, PodKeyType, ClassIdType
    <2>4. EdtMapsTypeOK'
      <3>1. CASE RestoreConfigs
        BY <1>0, <2>2, <2>3, <3>1, WriteCfgType
           DEF RestoreConfigs, AddConfig, Dirs, Holders, TypeOK
      <3>2. ASSUME NEW d \in Dirs, RestoreThrottleId(d) PROVE EdtMapsTypeOK'
        <4>1. CASE UNCHANGED edtVars
          BY <1>0, <4>1 DEF TypeOK, EdtMapsTypeOK, edtVars
        <4>2. CASE UpdateThrottleId(d, PodKey(restore[2].VethIpv4),
                        GenerateClassId(restore[1], restore[2].LocalId))
          BY <1>0, <2>3, <4>2, UpdateIdType DEF UpdateThrottleId, TypeOK
        <4>3. QED
          BY <3>2, <4>1, <4>2 DEF RestoreThrottleId
      <3>3. QED
        BY <1>5, <3>1, <3>2 DEF RestoreThrottleIds, Dirs
    <2>5. IDManagerTypeOK'
      BY <1>0, <1>5 DEF RestoreConfigs, RestoreThrottleIds, RestoreTo, TypeOK,
           IDManagerTypeOK, idManagerVars
    <2>6. QED
      BY <1>0, <1>5, <2>4, <2>5
         DEF RestoreConfigs, RestoreThrottleIds, RestoreTo, TypeOK, handlerVars,
             lateVars, nodeVars, RestorePcs
  <1>6. ASSUME NEW c \in ContainerIds, UnSetQosAfterTimeout(c) PROVE TypeOK'
    BY <1>0, <1>6, UnSetQosStartType DEF UnSetQosAfterTimeout
  <1>7. QED
    BY <1>1, <1>2, <1>3, <1>4, <1>5, <1>6, LateType
       DEF FaultNext, Crash, StartUp, NilEdtPanic, GivenUp

\* The addresses, and what is known of them, in a step of the node.
LEMMA NodeKeepsAddresses ==
  ASSUME FaultInv, NEW c \in ContainerIds, Node(c)
  PROVE  (AddressesApart /\ HandlersKnow /\ CallerlessKnow /\ AddressKnown /\ Deleting)'
  <1> USE DEF FaultInv, BaseInv, AddressesApart, HandlersKnow, CallerlessKnow, Deleting
  <1>1. CASE RunPodSandbox(c)
    <2>1. PICK a \in Ips : /\ \A o \in ContainerIds : ip[o] # a
                           /\ ip' = [ip EXCEPT ![c] = a]
      BY <1>1 DEF RunPodSandbox
    <2>2. AddressesApart'
      BY <1>1, <2>1, NoneAssumption DEF RunPodSandbox, TypeOK
    <2>3. (HandlersKnow /\ CallerlessKnow /\ Deleting)'
      BY <1>1 DEF RunPodSandbox, TypeOK, handlerVars, faultVars, startVars, lateVars
    <2>4. AddressKnown'
      BY <1>1, <2>1 DEF RunPodSandbox, TypeOK, AddressKnown, Known, handlerVars,
                        idManagerVars
    <2>5. QED
      BY <2>2, <2>3, <2>4
  <1>2. CASE PodStarted(c)
    BY <1>2 DEF PodStarted, AddressKnown, Known, handlerVars, faultVars, startVars,
                lateVars, idManagerVars
  <1>3. CASE PodRemoved(c)
    BY <1>3 DEF PodRemoved, AddressKnown, Known, TypeOK, handlerVars, faultVars,
                startVars, lateVars,
                idManagerVars
  <1>4. QED
    BY <1>1, <1>2, <1>3 DEF Node

\* Likewise in a step of SetQos.
LEMMA SetQosKeepsAddresses ==
  ASSUME FaultInv, NEW c \in ContainerIds, SetQos(c)
  PROVE  (AddressesApart /\ HandlersKnow /\ CallerlessKnow /\ AddressKnown /\ Deleting)'
  <1> USE DEF FaultInv, BaseInv, AddressesApart, HandlersKnow, CallerlessKnow, Deleting
  <1>1. CASE SetQosAllocate(c)
    <2>1. PICK id \in PodIds :
            /\ AllocatePodId(c, ip[c], id)
            /\ setInfo' = [setInfo EXCEPT ![c] = [LocalId |-> id, VethIpv4 |-> ip[c]]]
      BY <1>1 DEF SetQosAllocate
    <2> DEFINE info == [LocalId |-> id, VethIpv4 |-> ip[c]]
    <2>2. info # None /\ info.VethIpv4 = ip[c]
      <3>1. info \in PodInfo
        BY <1>1 DEF SetQosAllocate, PodInfo, TypeOK
      <3>2. QED
        BY <3>1, NoneAssumption
    <2>3. \/ containerIdMap' = containerIdMap
          \/ containerIdMap' = [containerIdMap EXCEPT ![c] = info]
      BY <2>1 DEF AllocatePodId, podMaps
    <2> HIDE DEF info
    <2>4. setInfo' = [setInfo EXCEPT ![c] = info]
      BY <2>1 DEF info
    <2>5. (AddressesApart /\ CallerlessKnow /\ Deleting)'
      BY <1>1 DEF SetQosAllocate, faultVars, startVars, lateVars, nodeVars
    <2>6. HandlersKnow'
      BY <1>1, <2>2, <2>4 DEF SetQosAllocate, TypeOK
    <2>7. AddressKnown'
      BY <1>1, <2>2, <2>3, <2>4
         DEF SetQosAllocate, TypeOK, IDManagerTypeOK, AddressKnown, Known, nodeVars
    <2>8. QED
      BY <2>5, <2>6, <2>7
  <1>2. CASE SetQosPatch(c) \/ SetQosPatchFails(c)
    <2>1. AddressKnown'
      BY <1>2 DEF SetQosPatch, SetQosPatchFails, PatchPodQosInfo, SetQosTo, TypeOK,
                  AddressKnown, Known, idManagerVars
    <2>2. QED
      BY <1>2, <2>1 DEF SetQosPatch, SetQosPatchFails, SetQosTo, TypeOK, faultVars,
                        startVars, lateVars
  <1>3. CASE \/ SetQosUpdateEgressThrottleId(c) \/ SetQosUpdateIngressThrottleId(c)
             \/ SetQosUpdateFails(c)
             \/ SetQosAddEgressConfig(c) \/ SetQosAddIngressConfig(c)
    <2> USE DEF SetQosUpdateEgressThrottleId, SetQosUpdateIngressThrottleId,
                SetQosUpdateFails, SetQosAddEgressConfig, SetQosAddIngressConfig, SetQosTo
    <2>1. AddressKnown'
      BY <1>3 DEF TypeOK, AddressKnown, Known, idManagerVars, nodeVars
    <2>2. QED
      BY <1>3, <2>1 DEF TypeOK, faultVars, startVars, lateVars, nodeVars
  <1>4. CASE SetQosInsertPodInfo(c)
    <2>1. containerIdMap' = [containerIdMap EXCEPT ![c] = setInfo[c]]
      BY <1>4 DEF SetQosInsertPodInfo, InsertPodInfo
    <2>2. AddressKnown'
      BY <1>4, <2>1 DEF SetQosInsertPodInfo, SetQosTo, TypeOK, IDManagerTypeOK,
                        AddressKnown, Known
    <2>3. QED
      BY <1>4, <2>2 DEF SetQosInsertPodInfo, SetQosTo, TypeOK, faultVars, startVars,
                        lateVars
  <1>5. QED
    BY <1>1, <1>2, <1>3, <1>4 DEF SetQos

\* And in a step of UnSetQos, which a CNI call that timed out may begin early.
LEMMA UnSetQosKeepsAddresses ==
  ASSUME FaultInv, NEW c \in ContainerIds, UnSetQos(c) \/ UnSetQosAfterTimeout(c)
  PROVE  (AddressesApart /\ HandlersKnow /\ CallerlessKnow /\ AddressKnown /\ Deleting)'
  <1> USE DEF FaultInv, BaseInv, AddressesApart, HandlersKnow, CallerlessKnow, Deleting
  <1>1. CASE UnSetQosStart(c)
    <2>1. AddressKnown'
      BY <1>1 DEF UnSetQosStart, TypeOK, IDManagerTypeOK, AddressKnown, Known,
                  idManagerVars
    <2>2. HandlersKnow'
      BY <1>1 DEF UnSetQosStart, UnSetQosFirst, TypeOK
    <2>3. QED
      BY <1>1, <2>1, <2>2 DEF UnSetQosStart, TypeOK, faultVars, startVars, lateVars
  <1>2. CASE \/ UnSetQosClearEgress(c) \/ UnSetQosClearIngress(c)
             \/ UnSetQosDeleteEgressThrottleId(c)
             \/ UnSetQosDeleteIngressThrottleId(c)
    <2> USE DEF UnSetQosClearEgress, UnSetQosClearIngress, UnSetQosTo,
                UnSetQosDeleteEgressThrottleId, UnSetQosDeleteIngressThrottleId
    <2>1. AddressKnown'
      BY <1>2 DEF AddressKnown, Known, idManagerVars, nodeVars
    <2>2. QED
      BY <1>2, <2>1 DEF TypeOK, faultVars, startVars, lateVars, nodeVars
  <1>3. CASE UnSetQosRelease(c)
    <2>1. \/ containerIdMap' = containerIdMap
          \/ containerIdMap' = [containerIdMap EXCEPT ![c] = None]
      BY <1>3 DEF UnSetQosRelease, ReleasePodIdByContainerId, podMaps
    <2>2. AddressKnown'
      BY <1>3, <2>1 DEF UnSetQosRelease, TypeOK, IDManagerTypeOK, AddressKnown, Known
    <2>3. QED
      BY <1>3, <2>2 DEF UnSetQosRelease, TypeOK, faultVars, startVars, lateVars
  <1>4. QED
    BY <1>1, <1>2, <1>3 DEF UnSetQos, UnSetQosLookup, UnSetQosAfterTimeout

\* And when the client gives up on a DEL, then and later.
LEMMA LateKeepsAddresses ==
  ASSUME FaultInv, NEW c \in ContainerIds, UnSetQosGivenUp(c) \/ UnSetQosLate(c)
  PROVE  (AddressesApart /\ HandlersKnow /\ CallerlessKnow /\ AddressKnown /\ Deleting)'
  <1> USE DEF FaultInv, BaseInv, AddressesApart, HandlersKnow, CallerlessKnow, Deleting
  <1>1. CASE UnSetQosGivenUp(c)
    <2>1. AddressKnown'
      BY <1>1 DEF UnSetQosGivenUp, TypeOK, AddressKnown, Known, idManagerVars, nodeVars
    <2>2. CallerlessKnow'
      BY <1>1 DEF UnSetQosGivenUp, TypeOK, startVars
    <2>3. QED
      BY <1>1, <2>1, <2>2 DEF UnSetQosGivenUp, TypeOK, nodeVars
  <1>2. CASE UnSetQosLate(c)
    <2>1. \/ containerIdMap' = containerIdMap
          \/ containerIdMap' = [containerIdMap EXCEPT ![c] = None]
      BY <1>2 DEF UnSetQosLate, LateClear, LateDelete, ReleasePodIdByContainerId, podMaps,
                  idManagerVars
    <2>2. UNCHANGED <<handlerVars, startVars, nodeVars, lateInfo>>
      BY <1>2 DEF UnSetQosLate, LateTo
    <2>3. CallerlessKnow'
      BY <1>2, <2>2 DEF UnSetQosLate, LateTo, TypeOK, startVars
    <2>4. AddressKnown'
      BY <2>1, <2>2 DEF TypeOK, IDManagerTypeOK, AddressKnown, Known, handlerVars, nodeVars
    <2>5. QED
      BY <2>2, <2>3, <2>4 DEF handlerVars, nodeVars
  <1>3. QED
    BY <1>1, <1>2

\* And when the daemon ends or starts.
LEMMA StartUpKeepsAddresses ==
  ASSUME FaultInv, Die \/ StartUp
  PROVE  (AddressesApart /\ HandlersKnow /\ CallerlessKnow /\ AddressKnown /\ Deleting)'
  <1> USE DEF FaultInv, BaseInv, AddressesApart, HandlersKnow, CallerlessKnow, Deleting
  <1>1. CASE Die
    BY <1>1 DEF Die, AddressKnown, Known, nodeVars
  <1>2. CASE RecoverIdmanagerFromCache
    <2>1. \A c \in ContainerIds :
            containerIdMap'[c] = annotation[c] \/ containerIdMap'[c] = None
      BY <1>2 DEF RecoverIdmanagerFromCache, GetPodPatchData
    <2>2. AddressKnown'
      BY <1>2, <2>1 DEF RecoverIdmanagerFromCache, AddressKnown, Known, handlerVars,
                        nodeVars
    <2>3. QED
      BY <1>2, <2>2 DEF RecoverIdmanagerFromCache, handlerVars, lateVars, nodeVars
  <1>3. CASE NewTcbpf \/ ListPodInfo \/ RestoreNext \/ RestoreConfigs \/ RestoreThrottleIds
    <2> USE DEF NewTcbpf, ListPodInfo, RestoreNext, RestoreConfigs, RestoreThrottleIds,
                RestoreTo
    <2>1. UNCHANGED <<idManagerVars, handlerVars, nodeVars>>
      BY <1>3
    <2>2. (AddressesApart /\ HandlersKnow /\ AddressKnown /\ Deleting)'
      BY <2>1 DEF AddressKnown, Known, idManagerVars, handlerVars, nodeVars
    <2>3. CallerlessKnow'
      <3>1. CASE RestoreNext
        BY <3>1 DEF TypeOK, lateVars
      <3>2. CASE NewTcbpf \/ ListPodInfo \/ RestoreConfigs \/ RestoreThrottleIds
        BY <3>2 DEF lateVars
      <3>3. QED
        BY <1>3, <3>1, <3>2
    <2>4. QED
      BY <2>2, <2>3
  <1>4. QED
    BY <1>1, <1>2, <1>3 DEF StartUp

\* What a step may do to the id maps: leave them, enter a class id somewhere, take
\* out the entry of a sandbox that is being deleted, or, late, sweep the key of
\* whoever has it.
LEMMA IdMapStep ==
  ASSUME FaultInv, FaultNext
  PROVE  \/ UNCHANGED throttleId
         \/ \E e \in Dirs, k \in TcEdtIdKey, class \in ClassIds :
              throttleId' = [throttleId EXCEPT ![e][k] = class]
         \/ \E e \in Dirs, o \in ContainerIds :
              /\ sandbox[o] = "stopping"
              /\ throttleId' = [throttleId EXCEPT ![e][PodKey(ip[o])] = None]
         \/ \E e \in Dirs, a \in Ips :
              /\ \A o \in ContainerIds :
                   ip[o] = a /\ (success[o] \/ setPc[o] # "idle") => o \in swept'
              /\ throttleId' = [throttleId EXCEPT ![e][PodKey(a)] = None]
  <1>0. BaseInv /\ TypeOK
    BY DEF FaultInv, BaseInv
  <1>1. CASE Die \/ RecoverIdmanagerFromCache \/ NewTcbpf \/ ListPodInfo \/ RestoreNext
    BY <1>1 DEF Die, RecoverIdmanagerFromCache, NewTcbpf, ListPodInfo, RestoreNext, edtVars
  <1>2. CASE RestoreConfigs
    BY <1>2 DEF RestoreConfigs, AddConfig, SingleWriteThrottleCfg
  <1>3. CASE RestoreThrottleIds
    <2>1. restore \in ContainerIds \X PodInfo
      BY <1>3 DEF RestoreThrottleIds, FaultInv, CallerlessKnow, Recovered
    <2>2. /\ restore[1] \in ContainerIds
          /\ restore[2].LocalId \in PodIds /\ restore[2].VethIpv4 \in Ips
      BY <2>1 DEF PodInfo
    <2>3. /\ PodKey(restore[2].VethIpv4) \in TcEdtIdKey
          /\ GenerateClassId(restore[1], restore[2].LocalId) \in ClassIds
      BY <2>2, PodKeyType, ClassIdType
    <2>4. QED
      BY <1>3, <2>3 DEF RestoreThrottleIds, RestoreThrottleId, UpdateThrottleId, Dirs,
                        edtVars
  <1>4. ASSUME NEW c \in ContainerIds, Node(c) \/ UnSetQosAfterTimeout(c) \/ UnSetQosGivenUp(c)
        PROVE  UNCHANGED throttleId
    BY <1>4 DEF Node, RunPodSandbox, PodStarted, PodRemoved, UnSetQosAfterTimeout,
                UnSetQosStart, UnSetQosGivenUp, edtVars
  <1>5. ASSUME NEW c \in ContainerIds, SetQos(c)
        PROVE  \/ UNCHANGED throttleId
               \/ \E e \in Dirs, k \in TcEdtIdKey, class \in ClassIds :
                    throttleId' = [throttleId EXCEPT ![e][k] = class]
    <2>1. CASE SetQosUpdateEgressThrottleId(c) \/ SetQosUpdateIngressThrottleId(c)
      BY <1>0, <2>1, SetInfoType
         DEF SetQosUpdateEgressThrottleId, SetQosUpdateIngressThrottleId,
             SetQosUpdateThrottleId, UpdateThrottleId, Dirs
    <2>2. CASE ~(SetQosUpdateEgressThrottleId(c) \/ SetQosUpdateIngressThrottleId(c))
      BY <1>5, <2>2
         DEF SetQos, SetQosAllocate, SetQosPatch, SetQosPatchFails,
             SetQosUpdateFails, SetQosAddEgressConfig, SetQosAddIngressConfig,
             SetQosInsertPodInfo, AddConfig, SingleWriteThrottleCfg, edtVars
    <2>3. QED
      BY <2>1, <2>2
  <1>6. ASSUME NEW c \in ContainerIds, UnSetQos(c)
        PROVE  \/ UNCHANGED throttleId
               \/ \E e \in Dirs :
                    /\ sandbox[c] = "stopping"
                    /\ throttleId' = [throttleId EXCEPT ![e][PodKey(ip[c])] = None]
    <2>1. CASE UnSetQosDeleteEgressThrottleId(c) \/ UnSetQosDeleteIngressThrottleId(c)
      <3>1. unsetPc[c] \notin {"idle", "release"}
        BY <2>1 DEF UnSetQosDeleteEgressThrottleId, UnSetQosDeleteIngressThrottleId
      <3>2. sandbox[c] = "stopping" /\ unsetInfo[c] # None
        BY <1>0, <3>1 DEF FaultInv, Deleting, BaseInv, HandlersKnow
      <3>3. unsetInfo[c].VethIpv4 = ip[c]
        BY <1>0, <3>2 DEF FaultInv, AddressKnown, Known, BaseInv, AddressesApart
      <3>4. QED
        BY <2>1, <3>2, <3>3
           DEF UnSetQosDeleteEgressThrottleId, UnSetQosDeleteIngressThrottleId,
               DeleteThrottleId, Dirs
    <2>2. CASE ~(UnSetQosDeleteEgressThrottleId(c) \/ UnSetQosDeleteIngressThrottleId(c))
      BY <1>6, <2>2
         DEF UnSetQos, UnSetQosLookup, UnSetQosStart, UnSetQosClearEgress,
             UnSetQosClearIngress, UnSetQosRelease, SingleWriteThrottleCfg, edtVars
    <2>3. QED
      BY <2>1, <2>2
  <1>7. ASSUME NEW c \in ContainerIds, UnSetQosLate(c)
        PROVE  \/ UNCHANGED throttleId
               \/ \E e \in Dirs, a \in Ips :
                    /\ \A o \in ContainerIds :
                         ip[o] = a /\ (success[o] \/ setPc[o] # "idle") => o \in swept'
                    /\ throttleId' = [throttleId EXCEPT ![e][PodKey(a)] = None]
    <2>1. CASE latePc[c] \in {"egressId", "ingressId"}
      <3>1. lateInfo[c].VethIpv4 \in Ips
        BY <2>1, LateInfoType
      <3>2. PICK e \in Dirs : LateDelete(c, e)
        BY <1>7, <2>1 DEF UnSetQosLate, Dirs
      <3>3. QED
        BY <3>1, <3>2 DEF LateDelete, DeleteThrottleId
    <2>2. CASE latePc[c] \notin {"egressId", "ingressId"}
      BY <1>7, <2>2 DEF UnSetQosLate, LateClear, SingleWriteThrottleCfg, edtVars
    <2>3. QED
      BY <2>1, <2>2
  <1>8. QED
    BY <1>1, <1>2, <1>3, <1>4, <1>5, <1>6, <1>7
       DEF FaultNext, Next, Crash, NilEdtPanic, StartUp, GivenUp

\* Who is swept has been swept for good.
LEMMA SweptGrows == ASSUME FaultNext PROVE swept \subseteq swept'
  <1>1. ASSUME NEW c \in ContainerIds, Node(c) \/ SetQos(c) PROVE swept' = swept
    BY <1>1 DEF Node, RunPodSandbox, PodStarted, PodRemoved, SetQos, SetQosAllocate,
                SetQosPatch, SetQosPatchFails, SetQosTo, SetQosUpdateEgressThrottleId,
                SetQosUpdateIngressThrottleId, SetQosUpdateFails, SetQosAddEgressConfig,
                SetQosAddIngressConfig, SetQosInsertPodInfo, faultVars, lateVars
  <1>2. ASSUME NEW c \in ContainerIds, UnSetQos(c) \/ UnSetQosAfterTimeout(c)
        PROVE  swept' = swept
    BY <1>2 DEF UnSetQos, UnSetQosLookup, UnSetQosAfterTimeout, UnSetQosStart,
                UnSetQosClearEgress, UnSetQosClearIngress, UnSetQosTo,
                UnSetQosDeleteEgressThrottleId, UnSetQosDeleteIngressThrottleId,
                UnSetQosRelease, faultVars, lateVars
  <1>3. ASSUME NEW c \in ContainerIds, UnSetQosGivenUp(c) \/ UnSetQosLate(c)
        PROVE  swept \subseteq swept'
    BY <1>3 DEF UnSetQosGivenUp, UnSetQosLate, LateClear, LateDelete
  <1>4. CASE Die \/ StartUp
    BY <1>4 DEF Die, StartUp, RecoverIdmanagerFromCache, NewTcbpf, ListPodInfo, RestoreNext,
                RestoreConfigs, RestoreThrottleIds, RestoreTo, lateVars
  <1>5. QED
    BY <1>1, <1>2, <1>3, <1>4 DEF FaultNext, Next, Crash, NilEdtPanic, GivenUp

\* So the entry of a sandbox that is up stays, unless it is swept.
LEMMA EntryStays ==
  ASSUME FaultInv, FaultNext, NEW c \in ContainerIds, sandbox[c] = "up",
         ip'[c] = ip[c], NEW d \in Dirs, Entered(c, d), c \notin swept',
         success[c] \/ setPc[c] # "idle"
  PROVE  Entered(c, d)'
  <1>1. /\ throttleId \in [Dirs -> [TcEdtIdKey -> ClassIds \union {None}]]
        /\ \A o \in ContainerIds : sandbox[o] \in {"up", "stopping"} =>
             ip[o] \in Ips /\ PodKey(ip[o]) \in TcEdtIdKey
    BY PodKeyType DEF FaultInv, BaseInv, TypeOK, EdtMapsTypeOK, AddressesApart
  <1>2. PodKey(ip[c]) \in TcEdtIdKey /\ Entered(c, d)' = (throttleId'[d][PodKey(ip[c])] # None)
    BY <1>1 DEF Entered, PodKey
  <1>3. throttleId[d][PodKey(ip[c])] # None
    BY DEF Entered
  <1>4. CASE UNCHANGED throttleId
    BY <1>2, <1>3, <1>4
  <1>5. ASSUME NEW e \in Dirs, NEW k \in TcEdtIdKey, NEW class \in ClassIds,
               throttleId' = [throttleId EXCEPT ![e][k] = class]
        PROVE  Entered(c, d)'
    BY <1>1, <1>2, <1>3, <1>5, NoClassIdAssumption
  <1>6. ASSUME NEW e \in Dirs, NEW o \in ContainerIds, sandbox[o] = "stopping",
               throttleId' = [throttleId EXCEPT ![e][PodKey(ip[o])] = None]
        PROVE  Entered(c, d)'
    <2>1. ip[c] # ip[o]
      BY <1>6 DEF FaultInv, BaseInv, AddressesApart
    <2>2. PodKey(ip[c]) # PodKey(ip[o]) /\ PodKey(ip[o]) \in TcEdtIdKey
      BY <1>1, <1>6, <2>1 DEF PodKey
    <2>3. throttleId'[d][PodKey(ip[c])] = throttleId[d][PodKey(ip[c])]
      BY <1>1, <1>2, <1>6, <2>2
    <2>4. QED
      BY <1>2, <1>3, <2>3
  <1>7. ASSUME NEW e \in Dirs, NEW a \in Ips, ip[c] # a,
               throttleId' = [throttleId EXCEPT ![e][PodKey(a)] = None]
        PROVE  Entered(c, d)'
    <2>1. PodKey(ip[c]) # PodKey(a) /\ PodKey(a) \in TcEdtIdKey
      BY <1>7, PodKeyType DEF PodKey
    <2>2. throttleId'[d][PodKey(ip[c])] = throttleId[d][PodKey(ip[c])]
      BY <1>1, <1>2, <1>7, <2>1
    <2>3. QED
      BY <1>2, <1>3, <2>2
  <1>8. QED
    BY <1>4, <1>5, <1>6, <1>7, IdMapStep

\* Which steps take the SetQos of a sandbox that is up past a write to an id map,
\* or end it in success.
LEMMA SetQosProgress ==
  ASSUME FaultInv, FaultNext, NEW c \in ContainerIds, sandbox[c] = "up"
  PROVE  /\ ip'[c] = ip[c]
         /\ \/ setPc'[c] \in {setPc[c], "idle", "patch", "egressId"}
            \/ SetQosUpdateEgressThrottleId(c) \/ SetQosUpdateIngressThrottleId(c)
            \/ SetQosAddEgressConfig(c) \/ SetQosAddIngressConfig(c)
         /\ success'[c] \in {success[c], FALSE} \/ SetQosInsertPodInfo(c)
  <1> USE DEF FaultInv, BaseInv, TypeOK
  <1>1. CASE Die \/ StartUp
    BY <1>1 DEF Die, StartUp, RecoverIdmanagerFromCache, NewTcbpf, ListPodInfo,
                RestoreNext, RestoreConfigs, RestoreThrottleIds, RestoreTo,
                handlerVars, nodeVars
  <1>2. ASSUME NEW o \in ContainerIds, Node(o)
        PROVE  ip'[c] = ip[c] /\ setPc' = setPc /\ success' = success
    BY <1>2 DEF Node, RunPodSandbox, PodStarted, PodRemoved, handlerVars
  <1>3. ASSUME NEW o \in ContainerIds, SetQos(o)
        PROVE  /\ ip' = ip
               /\ o # c => setPc'[c] = setPc[c] /\ success'[c] = success[c]
    BY <1>3 DEF SetQos, SetQosAllocate, SetQosPatch, SetQosPatchFails, SetQosTo,
                SetQosUpdateEgressThrottleId, SetQosUpdateIngressThrottleId,
                SetQosUpdateFails, SetQosAddEgressConfig, SetQosAddIngressConfig,
                SetQosInsertPodInfo, nodeVars
  <1>4. ASSUME SetQos(c)
        PROVE  /\ \/ setPc'[c] \in {"idle", "patch", "egressId"}
                  \/ SetQosUpdateEgressThrottleId(c) \/ SetQosUpdateIngressThrottleId(c)
                  \/ SetQosAddEgressConfig(c) \/ SetQosAddIngressConfig(c)
               /\ success'[c] = success[c] \/ SetQosInsertPodInfo(c)
    BY <1>4 DEF SetQos, SetQosAllocate, SetQosPatch, SetQosPatchFails, SetQosTo,
                SetQosUpdateFails, SetQosUpdateEgressThrottleId,
                SetQosUpdateIngressThrottleId, SetQosAddEgressConfig,
                SetQosAddIngressConfig, SetQosInsertPodInfo, nodeVars
  <1>5. ASSUME NEW o \in ContainerIds, UnSetQos(o) \/ GivenUp(o)
        PROVE  ip'[c] = ip[c] /\ setPc' = setPc /\ success'[c] \in {success[c], FALSE}
    BY <1>5 DEF UnSetQos, UnSetQosLookup, UnSetQosAfterTimeout, UnSetQosStart,
                UnSetQosClearEgress, UnSetQosClearIngress, UnSetQosTo,
                UnSetQosDeleteEgressThrottleId, UnSetQosDeleteIngressThrottleId,
                UnSetQosRelease, nodeVars, Deleting, GivenUp, UnSetQosGivenUp,
                UnSetQosLate, LateTo, handlerVars
  <1>6. QED
    BY <1>1, <1>2, <1>3, <1>4, <1>5 DEF FaultNext, Next, Crash, NilEdtPanic

\* A sandbox comes up with neither a SetQos under way nor one that succeeded.
LEMMA ComesUp ==
  ASSUME FaultInv, FaultNext, NEW c \in ContainerIds, sandbox'[c] = "up",
         sandbox[c] # "up"
  PROVE  setPc'[c] = "idle" /\ ~success'[c]
  <1> USE DEF FaultInv, BaseInv, TypeOK
  <1>1. PICK o \in ContainerIds : RunPodSandbox(o)
    <2>1. ~Die /\ ~StartUp
      BY DEF Die, StartUp, RecoverIdmanagerFromCache, NewTcbpf, ListPodInfo, RestoreNext,
             RestoreConfigs, RestoreThrottleIds, RestoreTo, nodeVars
    <2>2. ASSUME NEW o \in ContainerIds, SetQos(o) PROVE sandbox' = sandbox
      BY <2>2 DEF SetQos, SetQosAllocate, SetQosPatch, SetQosPatchFails, SetQosUpdateFails,
                  SetQosUpdateEgressThrottleId, SetQosUpdateIngressThrottleId,
                  SetQosAddEgressConfig, SetQosAddIngressConfig, SetQosInsertPodInfo,
                  nodeVars
    <2>3. ASSUME NEW o \in ContainerIds, UnSetQos(o) \/ GivenUp(o)
          PROVE  sandbox'[c] # "up"
      BY <2>3 DEF UnSetQos, UnSetQosLookup, UnSetQosAfterTimeout, UnSetQosStart,
                  UnSetQosClearEgress, UnSetQosClearIngress, UnSetQosTo,
                  UnSetQosDeleteEgressThrottleId, UnSetQosDeleteIngressThrottleId,
                  UnSetQosRelease, GivenUp, UnSetQosGivenUp, UnSetQosLate, LateTo, nodeVars
    <2>4. PICK o \in ContainerIds : Node(o)
      BY <2>1, <2>2, <2>3 DEF FaultNext, Next, Crash, NilEdtPanic
    <2>5. RunPodSandbox(o)
      BY <2>4 DEF Node, PodStarted, PodRemoved
    <2>6. QED
      BY <2>5
  <1>2. o = c /\ sandbox[c] = "none"
    BY <1>1 DEF RunPodSandbox
  <1>3. setPc[c] = "idle" /\ ~success[c]
    BY <1>2 DEF HandlersKnow, AddressKnown, Known, Deleting
  <1>4. QED
    BY <1>1, <1>3 DEF RunPodSandbox, handlerVars

\* SetQos enters its class id under the address of its sandbox.
LEMMA EntersOwnKey ==
  ASSUME FaultInv, NEW c \in ContainerIds, sandbox[c] = "up", ip'[c] = ip[c],
         NEW d \in Dirs, setPc[c] # "idle", SetQosUpdateThrottleId(c, d)
  PROVE  Entered(c, d)'
  <1>1. setInfo[c].VethIpv4 = ip[c]
    BY DEF FaultInv, BaseInv, HandlersKnow, AddressesApart, AddressKnown, Known
  <1>2. /\ PodKey(ip[c]) \in TcEdtIdKey
        /\ GenerateClassId(c, setInfo[c].LocalId) \in ClassIds
    BY <1>1, SetInfoType DEF FaultInv
  <1>3. throttleId \in [Dirs -> [TcEdtIdKey -> ClassIds \union {None}]]
    BY DEF FaultInv, BaseInv, TypeOK, EdtMapsTypeOK
  <1>4. throttleId'[d][PodKey(ip[c])] = GenerateClassId(c, setInfo[c].LocalId)
    BY <1>1, <1>2, <1>3 DEF SetQosUpdateThrottleId, UpdateThrottleId
  <1>5. QED
    BY <1>2, <1>4, NoClassIdAssumption DEF Entered, PodKey

LEMMA StillEnteredStep == FaultInv /\ FaultNext => StillEntered'
  <1> SUFFICES ASSUME FaultInv, FaultNext, NEW c \in ContainerIds, c \notin swept',
                      sandbox'[c] = "up"
               PROVE  /\ setPc'[c] \in {"ingressId", "egressCfg", "ingressCfg", "insert"}
                           => Entered(c, "egress")'
                      /\ setPc'[c] \in {"egressCfg", "ingressCfg", "insert"}
                           => Entered(c, "ingress")'
                      /\ success'[c] => \A d \in Dirs : Entered(c, d)'
    BY DEF StillEntered
  <1>1. CASE sandbox[c] # "up"
    BY <1>1, ComesUp
  <1>2. CASE sandbox[c] = "up"
    <2>1. ip'[c] = ip[c]
      BY <1>2, SetQosProgress
    <2>2. success[c] \/ setPc[c] # "idle" =>
            \A d \in Dirs : Entered(c, d) => Entered(c, d)'
      BY <1>2, <2>1, EntryStays
    <2>3. "egress" \in Dirs /\ "ingress" \in Dirs
      BY DEF Dirs
    <2>4. /\ setPc[c] \in {"ingressId", "egressCfg", "ingressCfg", "insert"}
               => Entered(c, "egress")
          /\ setPc[c] \in {"egressCfg", "ingressCfg", "insert"} => Entered(c, "ingress")
          /\ success[c] => \A d \in Dirs : Entered(c, d)
      BY <1>2, SweptGrows DEF FaultInv, StillEntered
    <2>5. success'[c] => \A d \in Dirs : Entered(c, d)'
      <3>1. CASE SetQosInsertPodInfo(c)
        BY <2>2, <2>3, <2>4, <3>1 DEF SetQosInsertPodInfo, Dirs
      <3>2. CASE ~SetQosInsertPodInfo(c)
        BY <1>2, <2>2, <2>4, <3>2, SetQosProgress
      <3>3. QED
        BY <3>1, <3>2
    <2> DEFINE P(pc) ==
          /\ pc \in {"ingressId", "egressCfg", "ingressCfg", "insert"} => Entered(c, "egress")'
          /\ pc \in {"egressCfg", "ingressCfg", "insert"} => Entered(c, "ingress")'
    <2>6. P(setPc'[c])
      <3>0. setPc \in [ContainerIds -> SetPcs]
        BY DEF FaultInv, BaseInv, TypeOK
      <3>1. CASE setPc'[c] \in {setPc[c], "idle", "patch", "egressId"}
        BY <2>2, <2>3, <2>4, <3>1
      <3>2. CASE SetQosUpdateEgressThrottleId(c)
        <4>1. Entered(c, "egress")'
          BY <1>2, <2>1, <2>3, <3>2, EntersOwnKey DEF SetQosUpdateEgressThrottleId
        <4>2. setPc'[c] = "ingressId"
          BY <3>0, <3>2 DEF SetQosUpdateEgressThrottleId, SetQosTo
        <4>3. QED
          BY <4>1, <4>2
      <3>3. CASE SetQosUpdateIngressThrottleId(c)
        <4>1. Entered(c, "ingress")'
          BY <1>2, <2>1, <2>3, <3>3, EntersOwnKey DEF SetQosUpdateIngressThrottleId
        <4>2. setPc[c] = "ingressId"
          BY <3>3 DEF SetQosUpdateIngressThrottleId
        <4>3. QED
          BY <2>2, <2>3, <2>4, <4>1, <4>2
      <3>4. CASE SetQosAddEgressConfig(c) \/ SetQosAddIngressConfig(c)
        <4>1. setPc[c] \in {"egressCfg", "ingressCfg"}
          BY <3>4 DEF SetQosAddEgressConfig, SetQosAddIngressConfig
        <4>2. QED
          BY <2>2, <2>3, <2>4, <4>1
      <3>5. QED
        BY <1>2, <3>1, <3>2, <3>3, <3>4, SetQosProgress
    <2>7. QED
      BY <2>5, <2>6
  <1>3. QED
    BY <1>1, <1>2

LEMMA FaultInvStep == FaultInv /\ [FaultNext]_vars => FaultInv'
  <1> SUFFICES ASSUME FaultInv, [FaultNext]_vars PROVE FaultInv'
    OBVIOUS
  <1>1. CASE UNCHANGED vars
    <2>1. TypeOK'
      BY <1>1, FaultTypeStep
    <2>2. QED
      BY <1>1, <2>1
         DEF vars, idManagerVars, edtVars, handlerVars, faultVars, startVars, lateVars,
             nodeVars, FaultInv,
             BaseInv, AddressesApart, HandlersKnow, CallerlessKnow, AddressKnown, Known,
             Deleting, StillEntered, Entered, PodKey
  <1>2. CASE FaultNext
    <2>1. (AddressesApart /\ HandlersKnow /\ CallerlessKnow /\ AddressKnown /\ Deleting)'
      BY <1>2, NodeKeepsAddresses, SetQosKeepsAddresses, UnSetQosKeepsAddresses,
         StartUpKeepsAddresses, LateKeepsAddresses
         DEF FaultNext, Next, Crash, NilEdtPanic, GivenUp
    <2>2. QED
      BY <1>2, <2>1, FaultTypeStep, StillEnteredStep DEF FaultInv, BaseInv
  <1>3. QED
    BY <1>1, <1>2

\* Crashes at any step, restarts, a DEL that comes while the SetQos of the sandbox
\* still runs, a DEL that runs beside its retry or after it, and RPCs before the
\* daemon is ready: the daemon and its handlers keep the types of all variables, no
\* step of the start-up or of a handler uses a podInfo it has not got.
THEOREM FaultTypeCorrect == FaultSpec => []TypeOK
  <1>1. FaultInv => TypeOK
    BY DEF FaultInv, BaseInv
  <1>2. QED
    BY InitFaultInv, FaultInvStep, <1>1, PTL DEF FaultSpec

\* Through all that, a pod whose SetQos stands successful stays in both id maps of the
\* data path, though its packets may be taken for some other object's: nothing but a
\* DEL whose client gave up, and that came to its key when the retry was done and the
\* pod had got the address, takes it out.
THEOREM ClassifiedThroughFaults == FaultSpec => []StaysClassified
  <1>1. FaultInv => StaysClassified
    BY DEF FaultInv, Deleting, StillEntered, Entered, StaysClassified
  <1>2. QED
    BY InitFaultInv, FaultInvStep, <1>1, PTL DEF FaultSpec

-----------------------------------------------------------------------------
(* Nothing is left behind, and the abstract service is implemented.        *)

\* Who is entered in podIdMap under an id holds it.
IdChain ==
    \A id \in PodIds : podIdMap[id] # None =>
      /\ podIdMap[id] \in ContainerIds
      /\ containerIdMap[podIdMap[id]] # None
      /\ containerIdMap[podIdMap[id]].LocalId = id

\* What the id maps have for the pod of an address, and the arrays for an id: none
\* where an address is contested or an id beyond the arrays.
MarkAt(ids, d, a) == IF a \in Contested THEN None ELSE ids[d][PodKey(a)]
CfgAt(cfgs, d, id) == IF id \in CfgIndexes THEN cfgs[d][id] ELSE None

\* The class id of an address is that of the sandbox that has the address.
Marks ==
    \A d \in Dirs :
      /\ \A a \in Ips : (\A c \in ContainerIds : ip[c] # a) => MarkAt(throttleId, d, a) = None
      /\ \A c \in ContainerIds : ip[c] # None /\ MarkAt(throttleId, d, ip[c]) # None =>
           containerIdMap[c] # None /\ Classified(c, d)

\* The configuration of an id is that of the sandbox that holds the id.
Configs ==
    \A d \in Dirs : \A id \in PodIds :
      CfgAt(throttleCfg, d, id) # None => podIdMap[id] = CfgAt(throttleCfg, d, id)

\* What UnSetQos has cleared so far stays cleared.
Cleared ==
    \A c \in ContainerIds : containerIdMap[c] # None =>
      /\ unsetPc[c] \in {"ingressCfg", "egressId", "ingressId", "release"}
           => CfgAt(throttleCfg, "egress", containerIdMap[c].LocalId) = None
      /\ unsetPc[c] \in {"egressId", "ingressId", "release"}
           => CfgAt(throttleCfg, "ingress", containerIdMap[c].LocalId) = None
      /\ unsetPc[c] \in {"ingressId", "release"} => MarkAt(throttleId, "egress", ip[c]) = None
      /\ unsetPc[c] = "release" => MarkAt(throttleId, "ingress", ip[c]) = None

ResidueInv == IdChain /\ Marks /\ Configs /\ Cleared
FullInv == IndInv /\ ResidueInv

-----------------------------------------------------------------------------
(* The invariant.                                                          *)

LEMMA InitFull == Init => FullInv
  <1> SUFFICES ASSUME Init PROVE FullInv
    OBVIOUS
  <1>1. IndInv
    BY InitIdInv DEF Init, IndInv, SetQosDone, Succeeded
  <1>2. IdChain
    BY PodIdsLocal DEF Init, NewPodIDManager, IdChain
  <1>3. Marks
    BY PodKeyType, NoneAssumption DEF Init, EdtMapsInit, Marks, MarkAt
  <1>4. Configs
    BY DEF Init, EdtMapsInit, Configs, CfgAt
  <1>5. Cleared
    BY DEF Init, NewPodIDManager, Cleared
  <1> QED
    BY <1>1, <1>2, <1>3, <1>4, <1>5 DEF FullInv, ResidueInv

\* The facts about types that every step needs.
LEMMA Typed ==
  ASSUME IdInv
  PROVE  /\ setPc \in [ContainerIds -> SetPcs] /\ unsetPc \in [ContainerIds -> UnsetPcs]
         /\ sandbox \in [ContainerIds -> Sandboxes] /\ success \in [ContainerIds -> BOOLEAN]
         /\ ip \in [ContainerIds -> Ips \union {None}]
         /\ podIdMap \in [LocalIds -> Holders \union {None}]
         /\ containerIdMap \in [ContainerIds -> PodInfo \union {None}]
         /\ throttleId \in [Dirs -> [TcEdtIdKey -> ClassIds \union {None}]]
         /\ throttleCfg \in [Dirs -> [CfgIndexes -> Holders \union {None}]]
         /\ PodIds \subseteq LocalIds
         /\ \A a \in Ips : PodKey(a) \in TcEdtIdKey
  BY PodIdsLocal, PodKeyType
     DEF IdInv, TypeOK, IDManagerTypeOK, EdtMapsTypeOK

LEMMA KeyOfAddress == \A a, b : PodKey(a) = PodKey(b) => a = b
  BY DEF PodKey

\* A sandbox that holds an id has an address.
LEMMA Holds ==
  ASSUME IdInv, NEW c \in ContainerIds, containerIdMap[c] # None
  PROVE  /\ ip[c] \in Ips /\ ip[c] # None /\ containerIdMap[c].VethIpv4 = ip[c]
         /\ containerIdMap[c].LocalId \in PodIds
         /\ podIdMap[containerIdMap[c].LocalId] = c
  <1>1. containerIdMap[c] \in PodInfo /\ containerIdMap[c].VethIpv4 = ip[c]
        /\ podIdMap[containerIdMap[c].LocalId] = c
    BY DEF IdInv, TypeOK, IDManagerTypeOK, PodChain
  <1>2. containerIdMap[c].LocalId \in PodIds /\ ip[c] \in Ips
    BY <1>1 DEF PodInfo
  <1> QED
    BY <1>1, <1>2, NoneAssumption

\* A step that changes neither maps nor addresses nor entries of the id manager,
\* and lets no UnSetQos advance.
LEMMA ResidueKept ==
  ASSUME ResidueInv, UNCHANGED <<podIdMap, containerIdMap, throttleId, throttleCfg, ip, unsetPc>>
  PROVE  ResidueInv'
  <1>1. \A c \in ContainerIds, d \in Dirs : Classified(c, d)' <=> Classified(c, d)
    BY DEF Classified, GenerateClassId, PodKey
  <1> QED
    BY <1>1 DEF ResidueInv, IdChain, Marks, Configs, Cleared, PodKey, MarkAt, CfgAt

\* A handler enters or deletes the class id of its sandbox, which holds an id.
LEMMA MarkWritten ==
  ASSUME IdInv, Marks, NEW c \in ContainerIds, NEW d \in Dirs,
         containerIdMap[c] # None, UNCHANGED <<containerIdMap, ip>>,
         \/ throttleId' = [throttleId EXCEPT ![d][PodKey(ip[c])] = None]
         \/ throttleId' = [throttleId EXCEPT ![d][PodKey(ip[c])] =
                             GenerateClassId(c, containerIdMap[c].LocalId)]
  PROVE  /\ Marks'
         /\ MarkAt(throttleId', d, ip[c]) \in
              {None, GenerateClassId(c, containerIdMap[c].LocalId)}
         /\ \A e \in Dirs : e # d => throttleId'[e] = throttleId[e]
         /\ \A e \in Dirs, b \in Ips : b # ip[c] =>
              MarkAt(throttleId', e, b) = MarkAt(throttleId, e, b)
  <1>1. ip[c] \in Ips /\ ip[c] # None
    BY Holds
  <1>2. /\ MarkAt(throttleId', d, ip[c]) \in
             {None, GenerateClassId(c, containerIdMap[c].LocalId)}
        /\ \A e \in Dirs : e # d => throttleId'[e] = throttleId[e]
        /\ \A e \in Dirs, b \in Ips : b # ip[c] =>
             MarkAt(throttleId', e, b) = MarkAt(throttleId, e, b)
    <2>1. CASE throttleId' = [throttleId EXCEPT ![d][PodKey(ip[c])] = None]
      BY <1>1, <2>1, Typed, KeyOfAddress DEF MarkAt
    <2>2. CASE throttleId' = [throttleId EXCEPT ![d][PodKey(ip[c])] =
                               GenerateClassId(c, containerIdMap[c].LocalId)]
      BY <1>1, <2>2, Typed, KeyOfAddress DEF MarkAt
    <2> QED
      BY <2>1, <2>2
  <1>3. \A o \in ContainerIds : o # c /\ ip[o] # None => ip[o] \in Ips /\ ip[o] # ip[c]
    BY Typed DEF IdInv, AddressesApart
  <1>4. ASSUME NEW e \in Dirs
        PROVE  /\ \A a \in Ips : (\A o \in ContainerIds : ip[o] # a)
                                   => MarkAt(throttleId', e, a) = None
               /\ \A o \in ContainerIds :
                    ip[o] # None /\ MarkAt(throttleId', e, ip[o]) # None =>
                      containerIdMap[o] # None /\ Classified(o, e)'
    <2>1. ASSUME NEW a \in Ips, \A o \in ContainerIds : ip[o] # a
          PROVE  MarkAt(throttleId', e, a) = None
      BY <1>2, <2>1 DEF Marks
    <2>2. ASSUME NEW o \in ContainerIds, o # c,
                 ip[o] # None, MarkAt(throttleId', e, ip[o]) # None
          PROVE  containerIdMap[o] # None /\ Classified(o, e)'
      <3>1. MarkAt(throttleId', e, ip[o]) = MarkAt(throttleId, e, ip[o])
        BY <1>2, <1>3, <2>2
      <3> QED
        BY <2>2, <3>1 DEF Marks, Classified, GenerateClassId, PodKey, MarkAt
    <2>3. ASSUME MarkAt(throttleId', e, ip[c]) # None
          PROVE  Classified(c, e)'
      <3>1. CASE e = d
        BY <1>2, <2>3, <3>1 DEF Classified, GenerateClassId, PodKey, MarkAt
      <3>2. CASE e # d
        BY <1>1, <1>2, <2>3, <3>2 DEF Marks, Classified, GenerateClassId, PodKey, MarkAt
      <3> QED
        BY <3>1, <3>2
    <2> QED
      BY <2>1, <2>2, <2>3
  <1>5. Marks'
    BY <1>4 DEF Marks, PodKey, MarkAt
  <1> QED
    BY <1>2, <1>5

\* A handler writes or clears the configuration of its sandbox.
LEMMA ConfigWritten ==
  ASSUME IdInv, Configs, NEW c \in ContainerIds, NEW d \in Dirs,
         containerIdMap[c] # None, UNCHANGED <<podIdMap, containerIdMap>>,
         NEW v \in {None, c}, SingleWriteThrottleCfg(d, containerIdMap[c].LocalId, v)
  PROVE  /\ Configs'
         /\ CfgAt(throttleCfg', d, containerIdMap[c].LocalId)
              = IF containerIdMap[c].LocalId \in CfgIndexes THEN v ELSE None
         /\ \A e \in Dirs : e # d => throttleCfg'[e] = throttleCfg[e]
         /\ \A e \in Dirs, i \in PodIds : i # containerIdMap[c].LocalId =>
              CfgAt(throttleCfg', e, i) = CfgAt(throttleCfg, e, i)
  <1>1. /\ containerIdMap[c].LocalId \in PodIds
        /\ podIdMap[containerIdMap[c].LocalId] = c
    BY Holds
  <1>2. throttleCfg' = IF containerIdMap[c].LocalId \in CfgIndexes
                       THEN [throttleCfg EXCEPT ![d][containerIdMap[c].LocalId] = v]
                       ELSE throttleCfg
    BY EntryInRange DEF SingleWriteThrottleCfg
  <1>3. /\ CfgAt(throttleCfg', d, containerIdMap[c].LocalId)
             = IF containerIdMap[c].LocalId \in CfgIndexes THEN v ELSE None
        /\ \A e \in Dirs : e # d => throttleCfg'[e] = throttleCfg[e]
        /\ \A e \in Dirs, i \in PodIds : i # containerIdMap[c].LocalId =>
             CfgAt(throttleCfg', e, i) = CfgAt(throttleCfg, e, i)
    BY <1>1, <1>2, Typed DEF CfgAt
  <1>4. Configs'
    <2>1. SUFFICES ASSUME NEW e \in Dirs, NEW i \in PodIds, CfgAt(throttleCfg', e, i) # None
                   PROVE  podIdMap[i] = CfgAt(throttleCfg', e, i)
      BY DEF Configs, CfgAt
    <2>2. CASE e = d /\ i = containerIdMap[c].LocalId
      BY <1>1, <1>3, <2>1, <2>2
    <2>3. CASE ~(e = d /\ i = containerIdMap[c].LocalId)
      BY <1>3, <2>1, <2>3 DEF Configs, CfgAt
    <2> QED
      BY <2>2, <2>3
  <1> QED
    BY <1>3, <1>4

\* No handler touches what another one has cleared.
LEMMA OthersCleared ==
  ASSUME IdInv, ResidueInv, NEW c \in ContainerIds,
         containerIdMap[c] # None, UNCHANGED <<containerIdMap, ip>>,
         \A e \in Dirs, b \in Ips : b # ip[c] =>
           MarkAt(throttleId', e, b) = MarkAt(throttleId, e, b),
         \A e \in Dirs, i \in PodIds : i # containerIdMap[c].LocalId =>
           CfgAt(throttleCfg', e, i) = CfgAt(throttleCfg, e, i)
  PROVE  \A o \in ContainerIds \ {c} : containerIdMap[o] # None =>
           \A e \in Dirs :
             /\ MarkAt(throttleId', e, ip[o]) = MarkAt(throttleId, e, ip[o])
             /\ CfgAt(throttleCfg', e, containerIdMap[o].LocalId)
                  = CfgAt(throttleCfg, e, containerIdMap[o].LocalId)
  <1> SUFFICES ASSUME NEW o \in ContainerIds \ {c}, containerIdMap[o] # None
               PROVE  /\ ip[o] \in Ips /\ ip[o] # ip[c]
                      /\ containerIdMap[o].LocalId \in PodIds
                      /\ containerIdMap[o].LocalId # containerIdMap[c].LocalId
    OBVIOUS
  <1> QED
    BY Holds, Apart, KeyOfAddress DEF PodKey

LEMMA ResidueSetQos ==
  ASSUME IdInv, ResidueInv,
         NEW c \in ContainerIds, NEW d \in Dirs, setPc[c] # "idle",
         SetQosUpdateThrottleId(c, d) \/ AddConfig(d, setInfo[c].LocalId, c),
         UNCHANGED <<podIdMap, containerIdMap, ip, unsetPc>>
  PROVE  ResidueInv'
  <1>1. setInfo[c] = containerIdMap[c] /\ containerIdMap[c] # None /\ unsetPc[c] = "idle"
    BY DEF IdInv, SetQosHolds
  <1>2. ip[c] \in Ips /\ setInfo[c].VethIpv4 = ip[c]
    BY <1>1, Holds
  <1>3. CASE SetQosUpdateThrottleId(c, d)
    <2>1. throttleId' = [throttleId EXCEPT ![d][PodKey(ip[c])] =
                           GenerateClassId(c, containerIdMap[c].LocalId)]
          /\ throttleCfg' = throttleCfg
      BY <1>1, <1>2, <1>3 DEF SetQosUpdateThrottleId, UpdateThrottleId
    <2>2. Marks' /\ \A e \in Dirs, b \in Ips : b # ip[c] =>
            MarkAt(throttleId', e, b) = MarkAt(throttleId, e, b)
      BY <1>1, <2>1, MarkWritten DEF ResidueInv
    <2>3. Cleared'
      BY <1>1, <2>1, <2>2, OthersCleared DEF ResidueInv, Cleared, PodKey, Dirs, MarkAt,
                                             CfgAt
    <2> QED
      BY <2>1, <2>2, <2>3 DEF ResidueInv, IdChain, Configs, CfgAt
  <1>4. CASE AddConfig(d, setInfo[c].LocalId, c)
    <2>1. throttleId' = throttleId /\ SingleWriteThrottleCfg(d, containerIdMap[c].LocalId, c)
      BY <1>1, <1>4 DEF AddConfig, SingleWriteThrottleCfg
    <2>2. Configs' /\ \A e \in Dirs, i \in PodIds : i # containerIdMap[c].LocalId =>
            CfgAt(throttleCfg', e, i) = CfgAt(throttleCfg, e, i)
      BY <1>1, <2>1, ConfigWritten DEF ResidueInv
    <2>3. Cleared'
      BY <1>1, <2>1, <2>2, OthersCleared DEF ResidueInv, Cleared, PodKey, Dirs, MarkAt,
                                             CfgAt
    <2>4. Marks'
      BY <2>1 DEF ResidueInv, Marks, Classified, GenerateClassId, PodKey, MarkAt
    <2> QED
      BY <2>2, <2>3, <2>4 DEF ResidueInv, IdChain
  <1> QED
    BY <1>3, <1>4

LEMMA ResidueUnSetQos ==
  ASSUME IdInv, ResidueInv, NEW c \in ContainerIds,
         \/ UnSetQosClearEgress(c) \/ UnSetQosClearIngress(c)
         \/ UnSetQosDeleteEgressThrottleId(c) \/ UnSetQosDeleteIngressThrottleId(c)
  PROVE  ResidueInv'
  <1>1. unsetInfo[c] = containerIdMap[c] /\ containerIdMap[c] # None
    BY DEF IdInv, UnSetQosHolds, UnSetQosClearEgress, UnSetQosClearIngress,
           UnSetQosDeleteEgressThrottleId, UnSetQosDeleteIngressThrottleId
  <1>2. UNCHANGED <<podIdMap, containerIdMap, ip>>
    BY DEF UnSetQosClearEgress, UnSetQosClearIngress, UnSetQosDeleteEgressThrottleId,
           UnSetQosDeleteIngressThrottleId, UnSetQosTo, idManagerVars, nodeVars
  <1>3. "egress" \in Dirs /\ "ingress" \in Dirs /\ \A d \in Dirs : d \in {"egress", "ingress"}
    BY DEF Dirs
  <1>4. unsetPc \in [ContainerIds -> UnsetPcs]
    BY Typed
  <1>5. CASE UnSetQosClearEgress(c)
    <2>1. /\ throttleId' = throttleId
          /\ SingleWriteThrottleCfg("egress", containerIdMap[c].LocalId, None)
          /\ unsetPc' = [unsetPc EXCEPT ![c] = "ingressCfg"]
      BY <1>1, <1>5 DEF UnSetQosClearEgress, SingleWriteThrottleCfg, UnSetQosTo
    <2>2. /\ Configs' /\ CfgAt(throttleCfg', "egress", containerIdMap[c].LocalId) = None
          /\ \A e \in Dirs : e # "egress" => throttleCfg'[e] = throttleCfg[e]
          /\ \A e \in Dirs, i \in PodIds : i # containerIdMap[c].LocalId =>
               CfgAt(throttleCfg', e, i) = CfgAt(throttleCfg, e, i)
      BY <1>1, <1>2, <1>3, <2>1, ConfigWritten DEF ResidueInv
    <2>3. Cleared'
      <3>1. \A o \in ContainerIds \ {c} : containerIdMap[o] # None =>
              \A e \in Dirs :
                CfgAt(throttleCfg', e, containerIdMap[o].LocalId)
                  = CfgAt(throttleCfg, e, containerIdMap[o].LocalId)
        BY <1>1, <1>2, <2>1, <2>2, OthersCleared
      <3>2. \A o \in ContainerIds \ {c} : unsetPc'[o] = unsetPc[o]
        BY <1>4, <2>1
      <3>3. unsetPc'[c] = "ingressCfg" /\ unsetPc[c] = "egressCfg"
        BY <1>4, <1>5, <2>1 DEF UnSetQosClearEgress
      <3> QED
        BY <1>2, <1>3, <2>1, <2>2, <3>1, <3>2, <3>3 DEF ResidueInv, Cleared, PodKey,
                                                        MarkAt, CfgAt
    <2>4. Marks'
      BY <1>2, <2>1 DEF ResidueInv, Marks, Classified, GenerateClassId, PodKey, MarkAt
    <2> QED
      BY <1>2, <2>2, <2>3, <2>4 DEF ResidueInv, IdChain
  <1>6. CASE UnSetQosClearIngress(c)
    <2>1. /\ throttleId' = throttleId
          /\ SingleWriteThrottleCfg("ingress", containerIdMap[c].LocalId, None)
          /\ unsetPc' = [unsetPc EXCEPT ![c] = "egressId"]
      BY <1>1, <1>6 DEF UnSetQosClearIngress, SingleWriteThrottleCfg, UnSetQosTo
    <2>2. /\ Configs' /\ CfgAt(throttleCfg', "ingress", containerIdMap[c].LocalId) = None
          /\ \A e \in Dirs : e # "ingress" => throttleCfg'[e] = throttleCfg[e]
          /\ \A e \in Dirs, i \in PodIds : i # containerIdMap[c].LocalId =>
               CfgAt(throttleCfg', e, i) = CfgAt(throttleCfg, e, i)
      BY <1>1, <1>2, <1>3, <2>1, ConfigWritten DEF ResidueInv
    <2>3. Cleared'
      <3>1. \A o \in ContainerIds \ {c} : containerIdMap[o] # None =>
              \A e \in Dirs :
                CfgAt(throttleCfg', e, containerIdMap[o].LocalId)
                  = CfgAt(throttleCfg, e, containerIdMap[o].LocalId)
        BY <1>1, <1>2, <2>1, <2>2, OthersCleared
      <3>2. \A o \in ContainerIds \ {c} : unsetPc'[o] = unsetPc[o]
        BY <1>4, <2>1
      <3>3. unsetPc'[c] = "egressId" /\ unsetPc[c] = "ingressCfg"
        BY <1>4, <1>6, <2>1 DEF UnSetQosClearIngress
      <3> QED
        BY <1>2, <1>3, <2>1, <2>2, <3>1, <3>2, <3>3 DEF ResidueInv, Cleared, PodKey,
                                                        MarkAt, CfgAt
    <2>4. Marks'
      BY <1>2, <2>1 DEF ResidueInv, Marks, Classified, GenerateClassId, PodKey, MarkAt
    <2> QED
      BY <1>2, <2>2, <2>3, <2>4 DEF ResidueInv, IdChain
  <1>7. CASE UnSetQosDeleteEgressThrottleId(c)
    <2>1. /\ throttleId' = [throttleId EXCEPT !["egress"][PodKey(ip[c])] = None]
          /\ throttleCfg' = throttleCfg
          /\ unsetPc' = [unsetPc EXCEPT ![c] = "ingressId"]
      BY <1>1, <1>7, Holds DEF UnSetQosDeleteEgressThrottleId, DeleteThrottleId, UnSetQosTo
    <2>2. /\ Marks' /\ \A e \in Dirs : e # "egress" => throttleId'[e] = throttleId[e]
          /\ \A e \in Dirs, b \in Ips : b # ip[c] =>
               MarkAt(throttleId', e, b) = MarkAt(throttleId, e, b)
      BY <1>1, <1>2, <1>3, <2>1, MarkWritten DEF ResidueInv
    <2>3. Cleared'
      <3>1. \A o \in ContainerIds \ {c} : containerIdMap[o] # None =>
              \A e \in Dirs : MarkAt(throttleId', e, ip[o]) = MarkAt(throttleId, e, ip[o])
        BY <1>1, <1>2, <2>1, <2>2, OthersCleared
      <3>2. \A o \in ContainerIds \ {c} : unsetPc'[o] = unsetPc[o]
        BY <1>4, <2>1
      <3>3. unsetPc'[c] = "ingressId" /\ unsetPc[c] = "egressId"
        BY <1>4, <1>7, <2>1 DEF UnSetQosDeleteEgressThrottleId
      <3>4. MarkAt(throttleId', "egress", ip[c]) = None
        BY <1>1, <1>3, <2>1, Holds, Typed DEF MarkAt
      <3> QED
        BY <1>2, <1>3, <2>1, <2>2, <3>1, <3>2, <3>3, <3>4 DEF ResidueInv, Cleared, PodKey,
                                                              MarkAt, CfgAt
    <2> QED
      BY <1>2, <2>1, <2>2, <2>3 DEF ResidueInv, IdChain, Configs, CfgAt
  <1>8. CASE UnSetQosDeleteIngressThrottleId(c)
    <2>1. /\ throttleId' = [throttleId EXCEPT !["ingress"][PodKey(ip[c])] = None]
          /\ throttleCfg' = throttleCfg
          /\ unsetPc' = [unsetPc EXCEPT ![c] = "release"]
      BY <1>1, <1>8, Holds DEF UnSetQosDeleteIngressThrottleId, DeleteThrottleId, UnSetQosTo
    <2>2. /\ Marks' /\ \A e \in Dirs : e # "ingress" => throttleId'[e] = throttleId[e]
          /\ \A e \in Dirs, b \in Ips : b # ip[c] =>
               MarkAt(throttleId', e, b) = MarkAt(throttleId, e, b)
      BY <1>1, <1>2, <1>3, <2>1, MarkWritten DEF ResidueInv
    <2>3. Cleared'
      <3>1. \A o \in ContainerIds \ {c} : containerIdMap[o] # None =>
              \A e \in Dirs : MarkAt(throttleId', e, ip[o]) = MarkAt(throttleId, e, ip[o])
        BY <1>1, <1>2, <2>1, <2>2, OthersCleared
      <3>2. \A o \in ContainerIds \ {c} : unsetPc'[o] = unsetPc[o]
        BY <1>4, <2>1
      <3>3. unsetPc'[c] = "release" /\ unsetPc[c] = "ingressId"
        BY <1>4, <1>8, <2>1 DEF UnSetQosDeleteIngressThrottleId
      <3>4. MarkAt(throttleId', "ingress", ip[c]) = None
        BY <1>1, <1>3, <2>1, Holds, Typed DEF MarkAt
      <3> QED
        BY <1>2, <1>3, <2>1, <2>2, <3>1, <3>2, <3>3, <3>4 DEF ResidueInv, Cleared, PodKey,
                                                              MarkAt, CfgAt
    <2> QED
      BY <1>2, <2>1, <2>2, <2>3 DEF ResidueInv, IdChain, Configs, CfgAt
  <1> QED
    BY <1>5, <1>6, <1>7, <1>8

\* A new sandbox: its address was nobody's, and it holds no id.
LEMMA ResidueJoin ==
  ASSUME IdInv, ResidueInv, NEW c \in ContainerIds, RunPodSandbox(c)
  PROVE  ResidueInv'
  <1>1. PICK a \in Ips : (\A o \in ContainerIds : ip[o] # a) /\ ip' = [ip EXCEPT ![c] = a]
    BY DEF RunPodSandbox
  <1>2. UNCHANGED <<podIdMap, containerIdMap, throttleId, throttleCfg, unsetPc>>
    BY DEF RunPodSandbox, idManagerVars, edtVars, handlerVars
  <1>3. containerIdMap[c] = None
    BY DEF IdInv, PodChain, RunPodSandbox
  <1>4. ip'[c] = a /\ \A o \in ContainerIds \ {c} : ip'[o] = ip[o]
    BY <1>1, Typed
  <1>5. Marks'
    <2>1. SUFFICES ASSUME NEW e \in Dirs
                   PROVE  /\ \A b \in Ips : (\A o \in ContainerIds : ip'[o] # b)
                                              => MarkAt(throttleId, e, b) = None
                          /\ \A o \in ContainerIds :
                               ip'[o] # None /\ MarkAt(throttleId, e, ip'[o]) # None =>
                                 containerIdMap[o] # None /\ Classified(o, e)'
      BY <1>2 DEF Marks, PodKey, MarkAt
    <2>2. ASSUME NEW b \in Ips, \A o \in ContainerIds : ip'[o] # b
          PROVE  MarkAt(throttleId, e, b) = None
      <3>1. CASE ip[c] = b
        BY <1>3, <3>1, <2>2, NoneAssumption DEF ResidueInv, Marks
      <3>2. CASE ip[c] # b
        BY <1>4, <3>2, <2>2 DEF ResidueInv, Marks
      <3> QED
        BY <3>1, <3>2
    <2>3. MarkAt(throttleId, e, ip'[c]) = None
      BY <1>1, <1>4 DEF ResidueInv, Marks
    <2>4. ASSUME NEW o \in ContainerIds, o # c, ip'[o] # None,
                 MarkAt(throttleId, e, ip'[o]) # None
          PROVE  containerIdMap[o] # None /\ Classified(o, e)'
      BY <1>2, <1>4, <2>4 DEF ResidueInv, Marks, Classified, GenerateClassId, PodKey, MarkAt
    <2> QED
      BY <2>2, <2>3, <2>4
  <1>6. Cleared'
    BY <1>2, <1>3, <1>4 DEF ResidueInv, Cleared, PodKey, MarkAt, CfgAt
  <1> QED
    BY <1>2, <1>5, <1>6 DEF ResidueInv, IdChain, Configs, CfgAt

\* An id is taken that nobody holds: its configuration is zero.
LEMMA ResidueAllocate ==
  ASSUME IdInv, ResidueInv, NEW c \in ContainerIds, SetQosAllocate(c)
  PROVE  ResidueInv'
  <1>1. UNCHANGED <<throttleId, throttleCfg, ip, unsetPc>> /\ unsetPc[c] = "idle"
    BY DEF SetQosAllocate, edtVars, nodeVars
  <1>2. PICK id \in PodIds : AllocatePodId(c, ip[c], id)
    BY DEF SetQosAllocate
  <1>3. CASE containerIdMap[c] # None
    <2>1. UNCHANGED <<podIdMap, containerIdMap>>
      BY <1>2, <1>3 DEF AllocatePodId, podMaps
    <2> QED
      BY <1>1, <2>1, ResidueKept
  <1>4. CASE containerIdMap[c] = None
    <2>1. /\ podIdMap[id] = None
          /\ podIdMap' = [podIdMap EXCEPT ![id] = c]
          /\ containerIdMap' =
               [containerIdMap EXCEPT ![c] = [LocalId |-> id, VethIpv4 |-> ip[c]]]
      BY <1>2, <1>4 DEF AllocatePodId, IsFirstFree
    <2>2. ip[c] \in Ips
      BY Typed DEF SetQosAllocate, IdInv, AddressesApart
    <2>3. [LocalId |-> id, VethIpv4 |-> ip[c]] # None
      BY <2>2, NoneAssumption DEF PodInfo
    <2>4. /\ containerIdMap'[c] # None /\ containerIdMap'[c].LocalId = id
          /\ \A o \in ContainerIds \ {c} : containerIdMap'[o] = containerIdMap[o]
      BY <2>1, <2>3, Typed
    <2>5. podIdMap'[id] = c /\ \A i \in PodIds \ {id} : podIdMap'[i] = podIdMap[i]
      BY <2>1, Typed
    <2>6. IdChain'
      BY <1>4, <2>4, <2>5 DEF ResidueInv, IdChain
    <2>7. Configs'
      BY <1>1, <2>1, <2>5 DEF ResidueInv, Configs, CfgAt
    <2>8. Cleared'
      BY <1>1, <2>4 DEF ResidueInv, Cleared, PodKey, MarkAt, CfgAt
    <2>9. Marks'
      <3>1. \A d \in Dirs : MarkAt(throttleId, d, ip[c]) = None
        BY <1>4, <2>2, NoneAssumption DEF ResidueInv, Marks
      <3> QED
        BY <1>1, <2>4, <3>1 DEF ResidueInv, Marks, Classified, GenerateClassId, PodKey,
                                MarkAt
    <2> QED
      BY <2>6, <2>7, <2>8, <2>9 DEF ResidueInv
  <1> QED
    BY <1>3, <1>4

\* When UnSetQos ends, its sandbox has nothing left in the maps.
LEMMA ReleasedClean ==
  ASSUME IdInv, ResidueInv, NEW c \in ContainerIds,
         unsetPc[c] = "release"
  PROVE  /\ ip[c] \in Ips /\ ip[c] # None
         /\ \A d \in Dirs : MarkAt(throttleId, d, ip[c]) = None
         /\ containerIdMap[c] # None =>
              \A d \in Dirs : CfgAt(throttleCfg, d, containerIdMap[c].LocalId) = None
  <1>1. sandbox[c] = "stopping"
    BY DEF IdInv, UnSetQosHolds
  <1>2. ip[c] \in Ips /\ ip[c] # None
    BY <1>1, Typed DEF IdInv, AddressesApart
  <1>3. CASE containerIdMap[c] = None
    BY <1>2, <1>3 DEF ResidueInv, Marks
  <1>4. CASE containerIdMap[c] # None
    BY <1>2, <1>4 DEF ResidueInv, Cleared, Dirs
  <1> QED
    BY <1>2, <1>3, <1>4

LEMMA ResidueRelease ==
  ASSUME IdInv, ResidueInv, NEW c \in ContainerIds, UnSetQosRelease(c)
  PROVE  ResidueInv'
  <1>1. /\ UNCHANGED <<throttleId, throttleCfg>>
        /\ unsetPc' = [unsetPc EXCEPT ![c] = "idle"] /\ ip' = [ip EXCEPT ![c] = None]
    BY DEF UnSetQosRelease, edtVars
  <1>2. /\ ip[c] \in Ips /\ ip[c] # None
        /\ \A d \in Dirs : MarkAt(throttleId, d, ip[c]) = None
        /\ containerIdMap[c] # None =>
             \A d \in Dirs : CfgAt(throttleCfg, d, containerIdMap[c].LocalId) = None
    BY ReleasedClean DEF UnSetQosRelease
  <1>3. ip'[c] = None /\ \A o \in ContainerIds \ {c} : ip'[o] = ip[o] /\ unsetPc'[o] = unsetPc[o]
    BY <1>1, Typed
  <1>4. containerIdMap'[c] = None
        /\ \A o \in ContainerIds \ {c} : containerIdMap'[o] = containerIdMap[o]
    BY Typed DEF UnSetQosRelease, ReleasePodIdByContainerId, podMaps
  <1>5. \A i \in PodIds : podIdMap'[i] = podIdMap[i] \/ podIdMap'[i] = None
    BY Typed DEF UnSetQosRelease, ReleasePodIdByContainerId, podMaps
  <1>6. \A i \in PodIds : podIdMap'[i] # None => podIdMap[i] # c
    <2>1. SUFFICES ASSUME NEW i \in PodIds, podIdMap[i] = c PROVE podIdMap'[i] = None
      BY <1>5
    <2>2. containerIdMap[c] # None /\ containerIdMap[c].LocalId = i
      BY <2>1, NoneAssumption DEF ResidueInv, IdChain, Holders
    <2> QED
      BY <2>2, Typed DEF UnSetQosRelease, ReleasePodIdByContainerId
  <1>7. IdChain'
    BY <1>4, <1>5, <1>6 DEF ResidueInv, IdChain
  <1>8. Configs'
    <2>1. SUFFICES ASSUME NEW d \in Dirs, NEW i \in PodIds, CfgAt(throttleCfg, d, i) # None
                   PROVE  podIdMap'[i] = CfgAt(throttleCfg, d, i)
      BY <1>1 DEF Configs, CfgAt
    <2>2. podIdMap[i] = CfgAt(throttleCfg, d, i)
      BY <2>1 DEF ResidueInv, Configs, CfgAt
    <2>3. podIdMap[i] # c
      BY <1>2, <2>1, <2>2 DEF ResidueInv, IdChain
    <2>4. CASE containerIdMap[c] = None
      BY <2>2, <2>4 DEF UnSetQosRelease, ReleasePodIdByContainerId, podMaps
    <2>5. CASE containerIdMap[c] # None
      <3>1. containerIdMap[c].LocalId # i
        BY <2>3, <2>5, Holds
      <3> QED
        BY <2>2, <2>5, <3>1, Typed DEF UnSetQosRelease, ReleasePodIdByContainerId
    <2> QED
      BY <2>4, <2>5
  <1>9. Cleared'
    BY <1>1, <1>3, <1>4 DEF ResidueInv, Cleared, PodKey, MarkAt, CfgAt
  <1>10. Marks'
    <2>1. SUFFICES ASSUME NEW e \in Dirs
                   PROVE  /\ \A b \in Ips : (\A o \in ContainerIds : ip'[o] # b)
                                              => MarkAt(throttleId, e, b) = None
                          /\ \A o \in ContainerIds :
                               ip'[o] # None /\ MarkAt(throttleId, e, ip'[o]) # None =>
                                 containerIdMap'[o] # None /\ Classified(o, e)'
      BY <1>1 DEF Marks, PodKey, MarkAt
    <2>2. ASSUME NEW b \in Ips, \A o \in ContainerIds : ip'[o] # b
          PROVE  MarkAt(throttleId, e, b) = None
      BY <1>2, <1>3, <2>2 DEF ResidueInv, Marks
    <2>3. ASSUME NEW o \in ContainerIds, ip'[o] # None, MarkAt(throttleId, e, ip'[o]) # None
          PROVE  containerIdMap'[o] # None /\ Classified(o, e)'
      BY <1>1, <1>3, <1>4, <2>3 DEF ResidueInv, Marks, Classified, GenerateClassId,
                                    PodKey, MarkAt
    <2> QED
      BY <2>2, <2>3
  <1> QED
    BY <1>7, <1>8, <1>9, <1>10 DEF ResidueInv

LEMMA FullStep ==
  ASSUME FullInv, [Next]_vars PROVE FullInv'
  <1>1. IndInv'
    BY IdInvStep, DoneStep DEF FullInv, IndInv
  <1>2. IdInv /\ ResidueInv
    BY DEF FullInv, IndInv
  <1>3. UNCHANGED vars => ResidueInv'
    BY <1>2, ResidueKept DEF vars, idManagerVars, edtVars, handlerVars, nodeVars
  <1>4. ASSUME NEW c \in ContainerIds, Node(c) PROVE ResidueInv'
    <2>1. CASE RunPodSandbox(c)
      BY <1>2, <2>1, ResidueJoin
    <2>2. CASE PodStarted(c) \/ PodRemoved(c)
      BY <1>2, <2>2, ResidueKept DEF PodStarted, PodRemoved, idManagerVars, edtVars,
                                     handlerVars
    <2> QED
      BY <1>4, <2>1, <2>2 DEF Node
  <1>5. ASSUME NEW c \in ContainerIds, SetQos(c) PROVE ResidueInv'
    <2>1. CASE SetQosAllocate(c)
      BY <1>2, <2>1, ResidueAllocate
    <2>2. CASE SetQosPatch(c) \/ SetQosPatchFails(c) \/ SetQosUpdateFails(c)
      BY <1>2, <2>2, ResidueKept
         DEF SetQosPatch, SetQosPatchFails, SetQosUpdateFails, SetQosTo, idManagerVars,
             edtVars, nodeVars
    <2>3. CASE SetQosUpdateEgressThrottleId(c) \/ SetQosUpdateIngressThrottleId(c)
      BY <1>2, <2>3, ResidueSetQos
         DEF SetQosUpdateEgressThrottleId, SetQosUpdateIngressThrottleId, SetQosTo,
             idManagerVars, nodeVars, Dirs
    <2>4. CASE SetQosAddEgressConfig(c) \/ SetQosAddIngressConfig(c)
      BY <1>2, <2>4, ResidueSetQos
         DEF SetQosAddEgressConfig, SetQosAddIngressConfig, SetQosTo, idManagerVars,
             nodeVars, Dirs
    <2>5. CASE SetQosInsertPodInfo(c)
      <3>1. setInfo[c] = containerIdMap[c] /\ podIdMap[containerIdMap[c].LocalId] = c
        BY <1>2, <2>5 DEF SetQosInsertPodInfo, IdInv, SetQosHolds, PodChain
      <3>2. UNCHANGED <<podIdMap, containerIdMap>>
        BY <1>2, <2>5, <3>1, Typed DEF SetQosInsertPodInfo, InsertPodInfo
      <3> QED
        BY <1>2, <2>5, <3>2, ResidueKept DEF SetQosInsertPodInfo, SetQosTo, edtVars
    <2> QED
      BY <1>5, <2>1, <2>2, <2>3, <2>4, <2>5 DEF SetQos
  <1>6. ASSUME NEW c \in ContainerIds, UnSetQos(c) PROVE ResidueInv'
    <2>1. CASE UnSetQosLookup(c)
      <3>1. UNCHANGED <<podIdMap, containerIdMap, throttleId, throttleCfg, ip>>
        BY <2>1 DEF UnSetQosLookup, UnSetQosStart, idManagerVars, edtVars
      <3>2. Cleared'
        BY <1>2, <2>1, <3>1, Typed
           DEF UnSetQosLookup, UnSetQosStart, UnSetQosFirst, ResidueInv, Cleared, PodKey
      <3> QED
        BY <1>2, <3>1, <3>2
           DEF ResidueInv, IdChain, Marks, Configs, Classified, GenerateClassId, PodKey,
               MarkAt, CfgAt
    <2>2. CASE \/ UnSetQosClearEgress(c) \/ UnSetQosClearIngress(c)
               \/ UnSetQosDeleteEgressThrottleId(c) \/ UnSetQosDeleteIngressThrottleId(c)
      BY <1>2, <2>2, ResidueUnSetQos
    <2>3. CASE UnSetQosRelease(c)
      BY <1>2, <2>3, ResidueRelease
    <2> QED
      BY <1>6, <2>1, <2>2, <2>3 DEF UnSetQos
  <1> QED
    BY <1>1, <1>3, <1>4, <1>5, <1>6 DEF FullInv, Next

LEMMA FullInvariant == Spec => []FullInv
  <1>1. FullInv /\ [Next]_vars => FullInv'
    BY FullStep
  <1> QED
    BY <1>1, InitFull, PTL DEF Spec

LEMMA FullInvNoResidue == FullInv => NoResidue
  BY DEF FullInv, ResidueInv, IdChain, Marks, Configs, IndInv, IdInv, PodChain, NoResidue,
         MarkAt, CfgAt

\* A completed DEL leaves neither class id nor configuration nor id behind, also
\* when SetQos or an earlier DEL had failed half way, for any number of sandboxes.
THEOREM NothingLeft == Spec => []NoResidue
  <1>1. FullInv => NoResidue
    BY FullInvNoResidue
  <1> QED
    BY <1>1, FullInvariant, PTL

-----------------------------------------------------------------------------
(* The refinement: every step is a step of QosService or changes nothing   *)
(* of what kubelet and the data path see.                                  *)

ViewType ==
    /\ Streams \in [Dirs -> [PodIps -> Holders \union {None}]]
    /\ Limits \in [Dirs -> [PodIps -> Holders \union {None}]]

\* What is seen of an address that no flow contests.
LEMMA ViewIs ==
  ASSUME NEW d, NEW a \in PodIps
  PROVE  /\ MarkAt(throttleId, d, a) = throttleId[d][PodKey(a)]
         /\ MarkAt(throttleId, d, a) = None => StreamOf(d, a) = None /\ LimitOf(d, a) = None
         /\ MarkAt(throttleId, d, a) # None =>
              /\ StreamOf(d, a) = MarkAt(throttleId, d, a).priorityOf
              /\ LimitOf(d, a) = CfgAt(throttleCfg, d, MarkAt(throttleId, d, a).id)
  BY DEF PodIps, MarkAt, CfgAt, StreamOf, LimitOf

\* And after a step.
LEMMA ViewIsNext ==
  ASSUME NEW d, NEW a \in PodIps
  PROVE  /\ MarkAt(throttleId', d, a) = throttleId'[d][PodKey(a)]
         /\ MarkAt(throttleId', d, a) = None => StreamOf(d, a)' = None /\ LimitOf(d, a)' = None
         /\ MarkAt(throttleId', d, a) # None =>
              /\ StreamOf(d, a)' = MarkAt(throttleId', d, a).priorityOf
              /\ LimitOf(d, a)' = CfgAt(throttleCfg', d, MarkAt(throttleId', d, a).id)
  BY DEF PodIps, MarkAt, CfgAt, StreamOf, LimitOf, PodKey

LEMMA ViewTyped == IdInv => ViewType
  <1> SUFFICES ASSUME IdInv PROVE ViewType
    OBVIOUS
  <1>1. ASSUME NEW d \in Dirs, NEW a \in PodIps
        PROVE  /\ StreamOf(d, a) \in Holders \union {None}
               /\ LimitOf(d, a) \in Holders \union {None}
    <2>1. MarkAt(throttleId, d, a) \in ClassIds \union {None}
      BY Typed DEF MarkAt, PodIps
    <2>2. MarkAt(throttleId, d, a) # None => MarkAt(throttleId, d, a).priorityOf \in Holders
      BY <2>1 DEF ClassIds
    <2>3. \A i : CfgAt(throttleCfg, d, i) \in Holders \union {None}
      BY Typed DEF CfgAt
    <2> QED
      BY <2>2, <2>3, ViewIs
  <1> QED
    BY <1>1 DEF ViewType, Streams, Limits

LEMMA ViewTypedNext == (IdInv)' => ViewType'
  BY ViewTyped, PTL

LEMMA ViewKept ==
  ASSUME UNCHANGED <<throttleId, throttleCfg>>
  PROVE  UNCHANGED <<Streams, Limits>>
  BY DEF Streams, Limits, StreamOf, LimitOf, PodKey

\* What the data path sees of the address of a sandbox that holds an id.
LEMMA ViewOfHolder ==
  ASSUME FullInv, NEW c \in ContainerIds, containerIdMap[c] # None, ip[c] \in PodIps,
         NEW d \in Dirs
  PROVE  /\ MarkAt(throttleId, d, ip[c]) = None =>
              StreamOf(d, ip[c]) = None /\ LimitOf(d, ip[c]) = None
         /\ MarkAt(throttleId, d, ip[c]) # None =>
              /\ StreamOf(d, ip[c]) = c
              /\ LimitOf(d, ip[c]) = CfgAt(throttleCfg, d, containerIdMap[c].LocalId)
  <1>1. ip[c] # None /\ ip[c] \notin Contested
    BY Holds DEF FullInv, IndInv, PodIps
  <1>2. MarkAt(throttleId, d, ip[c]) # None => Classified(c, d)
    BY <1>1 DEF FullInv, ResidueInv, Marks
  <1> QED
    BY <1>1, <1>2, ViewIs DEF Classified, GenerateClassId

\* A write of c's handler changes nothing that is seen of other addresses.
LEMMA ViewOfOthers ==
  ASSUME FullInv, FullInv', NEW c \in ContainerIds,
         containerIdMap[c] # None, UNCHANGED <<containerIdMap, ip>>,
         \A e \in Dirs, b \in Ips : b # ip[c] =>
           MarkAt(throttleId', e, b) = MarkAt(throttleId, e, b),
         \A e \in Dirs, i \in PodIds : i # containerIdMap[c].LocalId =>
           CfgAt(throttleCfg', e, i) = CfgAt(throttleCfg, e, i)
  PROVE  \A e \in Dirs, a \in PodIps : a # ip[c] =>
           Streams'[e][a] = Streams[e][a] /\ Limits'[e][a] = Limits[e][a]
  <1> SUFFICES ASSUME NEW e \in Dirs, NEW a \in PodIps, a # ip[c]
               PROVE  StreamOf(e, a)' = StreamOf(e, a) /\ LimitOf(e, a)' = LimitOf(e, a)
    BY DEF Streams, Limits
  <1>1. MarkAt(throttleId', e, a) = MarkAt(throttleId, e, a) /\ a \in Ips /\ a \notin Contested
    BY DEF PodIps
  <1>2. CASE MarkAt(throttleId, e, a) = None
    BY <1>1, <1>2, ViewIs, ViewIsNext
  <1>3. CASE MarkAt(throttleId, e, a) # None
    <2>1. PICK o \in ContainerIds : ip[o] = a
      BY <1>1, <1>3 DEF FullInv, ResidueInv, Marks
    <2>2. containerIdMap[o] # None /\ Classified(o, e) /\ o # c
      BY <1>1, <1>3, <2>1, NoneAssumption DEF FullInv, ResidueInv, Marks
    <2>3. /\ containerIdMap[o].LocalId \in PodIds
          /\ containerIdMap[o].LocalId # containerIdMap[c].LocalId
      BY <2>2, Holds, Apart DEF FullInv, IndInv
    <2>4. MarkAt(throttleId, e, a).id = containerIdMap[o].LocalId
      BY <1>1, <2>1, <2>2 DEF Classified, GenerateClassId, MarkAt
    <2>5. CfgAt(throttleCfg', e, containerIdMap[o].LocalId)
            = CfgAt(throttleCfg, e, containerIdMap[o].LocalId)
      BY <2>3
    <2> QED
      BY <1>1, <1>3, <2>4, <2>5, ViewIs, ViewIsNext
  <1> QED
    BY <1>2, <1>3

\* What is seen changes at most in one direction of the sandbox's own address.
LEMMA Treated ==
  ASSUME FullInv, FullInv',
         NEW c \in ContainerIds, NEW d \in Dirs, NEW v, ip[c] \in PodIps,
         \A e \in Dirs, a \in PodIps : a # ip[c] =>
           Streams'[e][a] = Streams[e][a] /\ Limits'[e][a] = Limits[e][a],
         \A e \in Dirs : e # d => Streams'[e][ip[c]] = Streams[e][ip[c]]
                                  /\ Limits'[e][ip[c]] = Limits[e][ip[c]],
         Streams'[d][ip[c]] \in {v, Streams[d][ip[c]]},
         Limits'[d][ip[c]] \in {v, Limits[d][ip[c]]}
  PROVE  Service!Treat(c, v)
  <1>1. ViewType
    BY ViewTyped DEF FullInv, IndInv
  <1>2. ViewType'
    <2>1. IdInv'
      BY DEF FullInv, IndInv
    <2> QED
      BY <2>1, ViewTypedNext
  <1>3. \A e \in Dirs, a \in PodIps : e # d \/ a # ip[c] =>
          Streams'[e][a] = Streams[e][a] /\ Limits'[e][a] = Limits[e][a]
    OBVIOUS
  <1> USE DEF ViewType
  <1>4. Streams' = [Streams EXCEPT ![d][ip[c]] = v] \/ Streams' = Streams
    <2>1. CASE Streams'[d][ip[c]] = Streams[d][ip[c]]
      <3>1. \A e \in Dirs : Streams'[e] = Streams[e]
        BY <1>1, <1>2, <1>3, <2>1
      <3> QED
        BY <1>1, <1>2, <3>1
    <2>2. CASE Streams'[d][ip[c]] = v
      <3>1. \A e \in Dirs : Streams'[e] = [Streams EXCEPT ![d][ip[c]] = v][e]
        BY <1>1, <1>2, <1>3, <2>2
      <3> QED
        BY <1>1, <1>2, <3>1
    <2> QED
      BY <2>1, <2>2
  <1>5. Limits' = [Limits EXCEPT ![d][ip[c]] = v] \/ Limits' = Limits
    <2>1. CASE Limits'[d][ip[c]] = Limits[d][ip[c]]
      <3>1. \A e \in Dirs : Limits'[e] = Limits[e]
        BY <1>1, <1>2, <1>3, <2>1
      <3> QED
        BY <1>1, <1>2, <3>1
    <2>2. CASE Limits'[d][ip[c]] = v
      <3>1. \A e \in Dirs : Limits'[e] = [Limits EXCEPT ![d][ip[c]] = v][e]
        BY <1>1, <1>2, <1>3, <2>2
      <3> QED
        BY <1>1, <1>2, <3>1
    <2> QED
      BY <2>1, <2>2
  <1> QED
    BY <1>4, <1>5 DEF Service!Treat

\* Nothing is seen of a sandbox on an address that a flow contests.
LEMMA Unseen ==
  ASSUME FullInv, FullInv', NEW c \in ContainerIds, ip[c] \notin PodIps,
         \A e \in Dirs, a \in PodIps : a # ip[c] =>
           Streams'[e][a] = Streams[e][a] /\ Limits'[e][a] = Limits[e][a]
  PROVE  UNCHANGED <<Streams, Limits>>
  <1>1. ViewType
    BY ViewTyped DEF FullInv, IndInv
  <1>2. ViewType'
    <2>1. (IdInv)'
      BY DEF FullInv, IndInv
    <2> QED
      BY <2>1, ViewTypedNext
  <1>3. ASSUME NEW e \in Dirs PROVE Streams'[e] = Streams[e] /\ Limits'[e] = Limits[e]
    <2>1. \A a \in PodIps : Streams'[e][a] = Streams[e][a] /\ Limits'[e][a] = Limits[e][a]
      OBVIOUS
    <2>2. /\ Streams[e] \in [PodIps -> Holders \union {None}]
          /\ Limits[e] \in [PodIps -> Holders \union {None}]
          /\ Streams'[e] \in [PodIps -> Holders \union {None}]
          /\ Limits'[e] \in [PodIps -> Holders \union {None}]
      BY <1>1, <1>2 DEF ViewType
    <2> QED
      BY <2>1, <2>2
  <1> QED
    BY <1>1, <1>2, <1>3 DEF ViewType

\* What a handler's write to a configuration array does to the pod's traffic.
LEMMA SeenConfig ==
  ASSUME FullInv, FullInv', NEW c \in ContainerIds, NEW d \in Dirs,
         NEW v \in {None, c}, containerIdMap[c] # None,
         SingleWriteThrottleCfg(d, containerIdMap[c].LocalId, v),
         UNCHANGED <<podIdMap, containerIdMap, ip>>
  PROVE  Service!Treat(c, v) \/ UNCHANGED <<Streams, Limits>>
  <1>1. IdInv /\ Configs /\ Marks
    BY DEF FullInv, IndInv, ResidueInv
  <1>2. /\ CfgAt(throttleCfg', d, containerIdMap[c].LocalId) \in
             {v, CfgAt(throttleCfg, d, containerIdMap[c].LocalId)}
        /\ \A e \in Dirs : e # d => throttleCfg'[e] = throttleCfg[e]
        /\ \A e \in Dirs, i \in PodIds : i # containerIdMap[c].LocalId =>
             CfgAt(throttleCfg', e, i) = CfgAt(throttleCfg, e, i)
    <2>1. CASE containerIdMap[c].LocalId \in CfgIndexes
      BY <1>1, <2>1, ConfigWritten
    <2>2. CASE containerIdMap[c].LocalId \notin CfgIndexes
      BY <1>1, <2>2, ConfigWritten DEF CfgAt
    <2> QED
      BY <2>1, <2>2
  <1>3. throttleId' = throttleId
    BY DEF SingleWriteThrottleCfg
  <1>4. \A e \in Dirs, a \in PodIps : a # ip[c] =>
          Streams'[e][a] = Streams[e][a] /\ Limits'[e][a] = Limits[e][a]
    BY <1>2, <1>3, ViewOfOthers
  <1>5. CASE ip[c] \notin PodIps
    BY <1>4, <1>5, Unseen
  <1>6. CASE ip[c] \in PodIps
    <2>1. \A e \in Dirs : MarkAt(throttleId, e, ip[c]) # None =>
            MarkAt(throttleId, e, ip[c]).id = containerIdMap[c].LocalId
      <3>1. \A e \in Dirs : MarkAt(throttleId, e, ip[c]) # None => Classified(c, e)
        BY <1>1, Holds DEF Marks
      <3> QED
        BY <1>6, <3>1 DEF Classified, GenerateClassId, MarkAt
    <2>2. \A e \in Dirs : MarkAt(throttleId', e, ip[c]) = MarkAt(throttleId, e, ip[c])
      BY <1>3 DEF MarkAt
    <2>3. \A e \in Dirs : Streams'[e][ip[c]] = Streams[e][ip[c]]
      <3>1. \A e \in Dirs : StreamOf(e, ip[c])' = StreamOf(e, ip[c])
        BY <1>3 DEF StreamOf, PodKey
      <3> QED
        BY <1>6, <3>1 DEF Streams
    <2>4. ASSUME NEW e \in Dirs
          PROVE  /\ Limits[e][ip[c]] = IF MarkAt(throttleId, e, ip[c]) = None THEN None
                      ELSE CfgAt(throttleCfg, e, containerIdMap[c].LocalId)
                 /\ Limits'[e][ip[c]] = IF MarkAt(throttleId, e, ip[c]) = None THEN None
                      ELSE CfgAt(throttleCfg', e, containerIdMap[c].LocalId)
      <3>1. Limits[e][ip[c]] = LimitOf(e, ip[c]) /\ Limits'[e][ip[c]] = LimitOf(e, ip[c])'
        BY <1>6 DEF Limits
      <3>2. LimitOf(e, ip[c]) = IF MarkAt(throttleId, e, ip[c]) = None THEN None
              ELSE CfgAt(throttleCfg, e, containerIdMap[c].LocalId)
        BY <1>6, <2>1, ViewIs
      <3>3. LimitOf(e, ip[c])' = IF MarkAt(throttleId, e, ip[c]) = None THEN None
              ELSE CfgAt(throttleCfg', e, containerIdMap[c].LocalId)
        <4>1. MarkAt(throttleId', e, ip[c]) = MarkAt(throttleId, e, ip[c])
          BY <2>2
        <4>2. MarkAt(throttleId, e, ip[c]) # None =>
                MarkAt(throttleId, e, ip[c]).id = containerIdMap[c].LocalId
          BY <2>1
        <4> QED
          BY <1>6, <4>1, <4>2, ViewIsNext
      <3> QED
        BY <3>1, <3>2, <3>3
    <2>5. \A e \in Dirs : e # d => Limits'[e][ip[c]] = Limits[e][ip[c]]
      BY <1>2, <2>4 DEF CfgAt
    <2>6. Limits'[d][ip[c]] \in {v, Limits[d][ip[c]]}
      BY <1>2, <2>4
    <2> QED
      BY <1>4, <1>6, <2>3, <2>5, <2>6, Treated
  <1> QED
    BY <1>5, <1>6

\* What a handler's update of an id map does.
LEMMA SeenMark ==
  ASSUME FullInv, FullInv', NEW c \in ContainerIds, NEW d \in Dirs,
         containerIdMap[c] # None, UNCHANGED <<podIdMap, containerIdMap, ip, throttleCfg>>,
         throttleId' = [throttleId EXCEPT ![d][PodKey(ip[c])] =
                          GenerateClassId(c, containerIdMap[c].LocalId)]
  PROVE  Service!Treat(c, c) \/ UNCHANGED <<Streams, Limits>>
  <1>1. IdInv /\ Configs /\ Marks
    BY DEF FullInv, IndInv, ResidueInv
  <1>2. /\ \A e \in Dirs : e # d => throttleId'[e] = throttleId[e]
        /\ \A e \in Dirs, b \in Ips : b # ip[c] =>
             MarkAt(throttleId', e, b) = MarkAt(throttleId, e, b)
    BY <1>1, MarkWritten
  <1>3. \A e \in Dirs, a \in PodIps : a # ip[c] =>
          Streams'[e][a] = Streams[e][a] /\ Limits'[e][a] = Limits[e][a]
    BY <1>2, ViewOfOthers
  <1>4. CASE ip[c] \notin PodIps
    BY <1>3, <1>4, Unseen
  <1>5. CASE ip[c] \in PodIps
    <2>1. /\ ip[c] \in Ips /\ ip[c] # None /\ containerIdMap[c].LocalId \in PodIds
          /\ podIdMap[containerIdMap[c].LocalId] = c
      BY <1>1, Holds
    <2>2. \A e \in Dirs : e # d => Streams'[e][ip[c]] = Streams[e][ip[c]]
                                   /\ Limits'[e][ip[c]] = Limits[e][ip[c]]
      BY <1>2, <1>5 DEF Streams, StreamOf, Limits, LimitOf, PodKey
    <2>3. MarkAt(throttleId', d, ip[c]) = GenerateClassId(c, containerIdMap[c].LocalId)
      BY <1>1, <1>5, <2>1, Typed, ViewIsNext
    <2>4. MarkAt(throttleId', d, ip[c]) # None
      BY <2>1, <2>3, ClassIdType, NoClassIdAssumption
    <2>5. StreamOf(d, ip[c])' = c
          /\ LimitOf(d, ip[c])' = CfgAt(throttleCfg, d, containerIdMap[c].LocalId)
      <3>1. \A i : CfgAt(throttleCfg', d, i) = CfgAt(throttleCfg, d, i)
        BY DEF CfgAt
      <3>2. /\ MarkAt(throttleId', d, ip[c]).priorityOf = c
            /\ MarkAt(throttleId', d, ip[c]).id = containerIdMap[c].LocalId
        BY <2>3 DEF GenerateClassId
      <3> QED
        BY <1>5, <2>4, <3>1, <3>2, ViewIsNext
    <2>6. /\ Streams'[d][ip[c]] = StreamOf(d, ip[c])' /\ Limits'[d][ip[c]] = LimitOf(d, ip[c])'
          /\ Limits[d][ip[c]] = LimitOf(d, ip[c])
      BY <1>5 DEF Streams, Limits
    <2>7. CfgAt(throttleCfg, d, containerIdMap[c].LocalId) \in {None, c}
      BY <1>1, <2>1 DEF Configs
    <2>8. CfgAt(throttleCfg, d, containerIdMap[c].LocalId) = None => LimitOf(d, ip[c]) = None
      BY <1>5, ViewOfHolder
    <2>9. Streams'[d][ip[c]] = c /\ Limits'[d][ip[c]] \in {c, Limits[d][ip[c]]}
      BY <2>5, <2>6, <2>7, <2>8
    <2> QED
      BY <1>3, <1>5, <2>2, <2>9, Treated
  <1> QED
    BY <1>4, <1>5

LEMMA SeenUnmark ==
  ASSUME FullInv, FullInv', NEW c \in ContainerIds, NEW d \in Dirs,
         containerIdMap[c] # None, UNCHANGED <<podIdMap, containerIdMap, ip, throttleCfg>>,
         throttleId' = [throttleId EXCEPT ![d][PodKey(ip[c])] = None]
  PROVE  Service!Treat(c, None) \/ UNCHANGED <<Streams, Limits>>
  <1>1. IdInv /\ Marks
    BY DEF FullInv, IndInv, ResidueInv
  <1>2. /\ \A e \in Dirs : e # d => throttleId'[e] = throttleId[e]
        /\ \A e \in Dirs, b \in Ips : b # ip[c] =>
             MarkAt(throttleId', e, b) = MarkAt(throttleId, e, b)
    BY <1>1, MarkWritten
  <1>3. \A e \in Dirs, a \in PodIps : a # ip[c] =>
          Streams'[e][a] = Streams[e][a] /\ Limits'[e][a] = Limits[e][a]
    BY <1>2, ViewOfOthers
  <1>4. CASE ip[c] \notin PodIps
    BY <1>3, <1>4, Unseen
  <1>5. CASE ip[c] \in PodIps
    <2>1. \A e \in Dirs : e # d => Streams'[e][ip[c]] = Streams[e][ip[c]]
                                   /\ Limits'[e][ip[c]] = Limits[e][ip[c]]
      BY <1>2, <1>5 DEF Streams, StreamOf, Limits, LimitOf, PodKey
    <2>2. MarkAt(throttleId', d, ip[c]) = None
      BY <1>1, <1>5, Holds, Typed, ViewIsNext
    <2>3. StreamOf(d, ip[c])' = None /\ LimitOf(d, ip[c])' = None
      BY <1>5, <2>2, ViewIsNext
    <2>4. Streams'[d][ip[c]] = None /\ Limits'[d][ip[c]] = None
      BY <1>5, <2>3 DEF Streams, Limits
    <2> QED
      BY <1>3, <1>5, <2>1, <2>4, Treated
  <1> QED
    BY <1>4, <1>5

\* Every step of a handler or of the node is a step of the service, or none.
LEMMA ServiceStep ==
  ASSUME FullInv, FullInv', [Next]_vars
  PROVE  [Service!ServiceNext]_Service!serviceVars
  <1>1. IdInv /\ ResidueInv /\ SetQosDone
    BY DEF FullInv, IndInv
  <1> DEFINE Seen == Service!ServiceNext \/ UNCHANGED Service!serviceVars
  <1> SUFFICES Seen
    OBVIOUS
  <1>2. ASSUME UNCHANGED <<sandbox, ip, success, throttleId, throttleCfg>>
        PROVE  Seen
    BY <1>2, ViewKept DEF Service!serviceVars
  <1>3. CASE UNCHANGED vars
    BY <1>2, <1>3 DEF vars, nodeVars, edtVars
  <1>4. ASSUME NEW c \in ContainerIds, Node(c) PROVE Seen
    <2>1. CASE RunPodSandbox(c)
      <3>1. UNCHANGED <<Streams, Limits>>
        BY <2>1, ViewKept DEF RunPodSandbox, edtVars
      <3>2. \A a \in PodIps : (\A o \in ContainerIds : ip[o] # a) =>
              \A d \in Dirs : Streams[d][a] = None
        BY <1>1 DEF ResidueInv, Marks, Streams, StreamOf, MarkAt, PodIps
      <3>3. Service!Join(c)
        BY <2>1, <3>1, <3>2 DEF RunPodSandbox, Service!Join, Service!treatment
      <3> QED
        BY <3>3 DEF Service!ServiceNext
    <2>2. CASE PodStarted(c) \/ PodRemoved(c)
      BY <1>2, <2>2 DEF PodStarted, PodRemoved, edtVars
    <2> QED
      BY <1>4, <2>1, <2>2 DEF Node
  <1>5. ASSUME NEW c \in ContainerIds, SetQos(c) PROVE Seen
    <2>1. CASE SetQosAllocate(c) \/ SetQosPatch(c) \/ SetQosPatchFails(c) \/ SetQosUpdateFails(c)
      BY <1>2, <2>1
         DEF SetQosAllocate, SetQosPatch, SetQosPatchFails, SetQosUpdateFails, nodeVars,
             edtVars
    <2>2. ASSUME setPc[c] # "idle"
          PROVE  /\ setInfo[c] = containerIdMap[c] /\ containerIdMap[c] # None
                 /\ containerIdMap[c].VethIpv4 = ip[c]
                 /\ sandbox[c] = "up" /\ ~success[c]
      BY <1>1, <2>2, Holds DEF IdInv, SetQosHolds
    <2>3. ASSUME NEW d \in Dirs, setPc[c] # "idle",
                 SetQosUpdateThrottleId(c, d) \/ AddConfig(d, setInfo[c].LocalId, c),
                 UNCHANGED <<idManagerVars, nodeVars>>
          PROVE  Seen
      <3>1. UNCHANGED <<podIdMap, containerIdMap, sandbox, ip, success>>
        BY <2>3 DEF idManagerVars, nodeVars
      <3>2. SetQosUpdateThrottleId(c, d) =>
              Service!Treat(c, c) \/ UNCHANGED <<Streams, Limits>>
        BY <2>2, <2>3, <3>1, SeenMark DEF SetQosUpdateThrottleId, UpdateThrottleId
      <3>3. AddConfig(d, setInfo[c].LocalId, c) =>
              Service!Treat(c, c) \/ UNCHANGED <<Streams, Limits>>
        BY <2>2, <2>3, <3>1, SeenConfig DEF AddConfig
      <3>4. Service!Enter(c) \/ UNCHANGED Service!serviceVars
        BY <2>2, <2>3, <3>1, <3>2, <3>3 DEF Service!Enter, Service!serviceVars
      <3> QED
        BY <3>4 DEF Service!ServiceNext
    <2>4. CASE SetQosUpdateEgressThrottleId(c) \/ SetQosUpdateIngressThrottleId(c)
      BY <2>3, <2>4
         DEF SetQosUpdateEgressThrottleId, SetQosUpdateIngressThrottleId, Dirs
    <2>5. CASE SetQosAddEgressConfig(c) \/ SetQosAddIngressConfig(c)
      BY <2>3, <2>5 DEF SetQosAddEgressConfig, SetQosAddIngressConfig, Dirs
    <2>6. CASE SetQosInsertPodInfo(c)
      <3>1. setPc[c] = "insert"
        BY <2>6 DEF SetQosInsertPodInfo
      <3>2. sandbox[c] = "up" /\ containerIdMap[c] # None
        BY <2>2, <3>1
      <3>3. \A d \in Dirs : Classified(c, d) /\ Configured(c, d)
        BY <1>1, <3>1 DEF SetQosDone, Dirs
      <3>4. ip[c] \in PodIps =>
              \E l \in {c, None} : \A d \in Dirs : Streams[d][ip[c]] = c /\ Limits[d][ip[c]] = l
        <4> SUFFICES ASSUME ip[c] \in PodIps
                     PROVE  \E l \in {c, None} : \A d \in Dirs :
                              Streams[d][ip[c]] = c /\ Limits[d][ip[c]] = l
          OBVIOUS
        <4>1. GenerateClassId(c, containerIdMap[c].LocalId) # None
          BY <1>1, <3>2, Holds, ClassIdType, NoClassIdAssumption
        <4>2. \A d \in Dirs : MarkAt(throttleId, d, ip[c]) # None
          BY <3>3, <4>1 DEF Classified, MarkAt, PodIps
        <4>3. \A d \in Dirs : /\ StreamOf(d, ip[c]) = c
                             /\ LimitOf(d, ip[c]) = CfgAt(throttleCfg, d, containerIdMap[c].LocalId)
          BY <3>2, <4>2, ViewOfHolder
        <4>4. PICK l \in {c, None} :
                \A d \in Dirs : CfgAt(throttleCfg, d, containerIdMap[c].LocalId) = l
          BY <3>3 DEF Configured, CfgAt
        <4> QED
          BY <4>3, <4>4 DEF Streams, Limits
      <3>5. UNCHANGED <<Streams, Limits>>
        BY <2>6, ViewKept DEF SetQosInsertPodInfo, edtVars
      <3>6. Service!Grant(c)
        BY <2>6, <3>2, <3>4, <3>5 DEF SetQosInsertPodInfo, Service!Grant, Service!treatment
      <3> QED
        BY <3>6 DEF Service!ServiceNext
    <2> QED
      BY <1>5, <2>1, <2>4, <2>5, <2>6 DEF SetQos
  <1>6. ASSUME NEW c \in ContainerIds, UnSetQos(c) PROVE Seen
    <2>1. CASE UnSetQosLookup(c)
      <3>1. UNCHANGED <<Streams, Limits>>
        BY <2>1, ViewKept DEF UnSetQosLookup, UnSetQosStart, edtVars
      <3>2. Service!Stop(c)
        BY <2>1, <3>1 DEF UnSetQosLookup, UnSetQosStart, Service!Stop, Service!treatment
      <3> QED
        BY <3>2 DEF Service!ServiceNext
    <2>2. CASE UnSetQosRelease(c)
      <3>1. UNCHANGED <<Streams, Limits>>
        BY <2>2, ViewKept DEF UnSetQosRelease, edtVars
      <3>2. unsetPc[c] = "release" /\ sandbox[c] = "stopping"
        BY <1>1, <2>2 DEF UnSetQosRelease, IdInv, UnSetQosHolds
      <3>3. ip[c] \in PodIps =>
              \A d \in Dirs : Streams[d][ip[c]] = None /\ Limits[d][ip[c]] = None
        BY <1>1, <3>2, ReleasedClean DEF Streams, StreamOf, Limits, LimitOf, MarkAt, PodIps
      <3>4. Service!Gone(c)
        BY <2>2, <3>1, <3>2, <3>3 DEF UnSetQosRelease, Service!Gone, Service!treatment
      <3> QED
        BY <3>4 DEF Service!ServiceNext
    <2>3. CASE \/ UnSetQosClearEgress(c) \/ UnSetQosClearIngress(c)
               \/ UnSetQosDeleteEgressThrottleId(c) \/ UnSetQosDeleteIngressThrottleId(c)
      <3> USE DEF UnSetQosClearEgress, UnSetQosClearIngress,
                  UnSetQosDeleteEgressThrottleId, UnSetQosDeleteIngressThrottleId
      <3>1. /\ unsetInfo[c] = containerIdMap[c] /\ containerIdMap[c] # None
            /\ sandbox[c] = "stopping"
        BY <1>1, <2>3 DEF IdInv, UnSetQosHolds
      <3>2. UNCHANGED <<podIdMap, containerIdMap, sandbox, ip, success>>
        BY <2>3 DEF UnSetQosTo, idManagerVars, nodeVars
      <3>3. containerIdMap[c].VethIpv4 = ip[c]
        BY <1>1, <3>1, Holds
      <3>4. Service!Treat(c, None) \/ UNCHANGED <<Streams, Limits>>
        <4>1. ASSUME NEW d \in Dirs, SingleWriteThrottleCfg(d, unsetInfo[c].LocalId, None)
              PROVE  Service!Treat(c, None) \/ UNCHANGED <<Streams, Limits>>
          BY <3>1, <3>2, <4>1, SeenConfig
        <4>2. ASSUME NEW d \in Dirs, DeleteThrottleId(d, PodKey(unsetInfo[c].VethIpv4))
              PROVE  Service!Treat(c, None) \/ UNCHANGED <<Streams, Limits>>
          BY <3>1, <3>2, <3>3, <4>2, SeenUnmark DEF DeleteThrottleId
        <4> QED
          BY <2>3, <4>1, <4>2 DEF Dirs
      <3>5. Service!Clear(c) \/ UNCHANGED Service!serviceVars
        BY <3>1, <3>2, <3>4 DEF Service!Clear, Service!serviceVars
      <3> QED
        BY <3>5 DEF Service!ServiceNext
    <2> QED
      BY <1>6, <2>1, <2>2, <2>3 DEF UnSetQos
  <1> QED
    BY <1>3, <1>4, <1>5, <1>6 DEF Next

LEMMA ServiceStart == Init => Service!ServiceInit
  BY PodKeyType DEF Init, EdtMapsInit, Service!ServiceInit, Streams, Limits, StreamOf,
                    LimitOf,
                    PodIps

\* bwm-daemon implements the service: for any number of sandboxes, any size of the
\* arrays, any interleaving of the handlers and any errors of theirs, a handler touches
\* the traffic of its own sandbox only, and a pod is told of success when its traffic
\* is classified both ways and limited both ways, or, its id beyond the arrays, neither.
THEOREM ServiceImplemented == Spec => ImplementsService
  <1>1. Init => Service!ServiceInit
    BY ServiceStart
  <1>2. FullInv /\ FullInv' /\ [Next]_vars => [Service!ServiceNext]_Service!serviceVars
    BY ServiceStep
  <1> QED
    BY <1>1, <1>2, FullInvariant, PTL DEF Spec, ImplementsService, Service!ServiceSpec

=============================================================================
