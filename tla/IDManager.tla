----------------------------- MODULE IDManager -----------------------------
(***************************************************************************)
(* The id manager of bwm-daemon (cmd/daemon/idmanager/idmanager.go): it    *)
(* gives every pod sandbox and every flow the small integer id under which *)
(* the BPF data path accounts and throttles its traffic.                   *)
(*                                                                         *)
(* Every method of IDManager takes the one mutex for its whole body, so    *)
(* every method is one atomic step.  The methods are written here as       *)
(* actions on the four maps; the RPC handlers of BwmDaemon and FlowServer  *)
(* call them between other steps, and other handlers run in between.       *)
(*                                                                         *)
(* A Go map is a function that gives None where the map has no entry.  Of  *)
(* a PodInfo or a ProcessInfo only the fields that a later step reads are  *)
(* kept: the local id, and the address the sandbox had.  (A flow's address *)
(* is part of its process id.)                                             *)
(***************************************************************************)
EXTENDS Naturals

CONSTANTS
    ContainerIds,           \* sandbox (container) ids, fresh for every sandbox
    ProcessIds,             \* "direct:ip:port" of the flows bwmctl sets
    Ips,                    \* addresses of the sandboxes
    MinPodID, MaxPodID,     \* 1000 and 5999 in the code
    MinFlowID, MaxFlowID,   \* 100 and 999 in the code
    None                    \* "no entry"

PodIds  == MinPodID..MaxPodID
FlowIds == MinFlowID..MaxFlowID
LocalIds == FlowIds \union PodIds
Holders == ContainerIds \union ProcessIds

ASSUME IdRangesAssumption ==
    /\ MinPodID \in Nat /\ MaxPodID \in Nat
    /\ MinFlowID \in Nat /\ MaxFlowID \in Nat
    /\ MaxFlowID < MinPodID

PodInfo == [LocalId : PodIds, VethIpv4 : Ips]

ASSUME NoneAssumption ==
    /\ None \notin Holders
    /\ None \notin LocalIds
    /\ None \notin Ips
    /\ None \notin PodInfo
    /\ ContainerIds \cap ProcessIds = {}

VARIABLES
    podIdMap,        \* local id -> container id
    containerIdMap,  \* container id -> PodInfo
    flowIdMap,       \* local id -> process id
    processIdMap     \* process id -> local id

podMaps  == <<podIdMap, containerIdMap>>
flowMaps == <<flowIdMap, processIdMap>>
idManagerVars == <<podIdMap, containerIdMap, flowIdMap, processIdMap>>

IDManagerTypeOK ==
    /\ podIdMap \in [LocalIds -> Holders \union {None}]
    /\ containerIdMap \in [ContainerIds -> PodInfo \union {None}]
    /\ flowIdMap \in [FlowIds -> ProcessIds \union {None}]
    /\ processIdMap \in [ProcessIds -> FlowIds \union {None}]

NewPodIDManager ==
    /\ podIdMap = [id \in LocalIds |-> None]
    /\ containerIdMap = [c \in ContainerIds |-> None]
    /\ flowIdMap = [id \in FlowIds |-> None]
    /\ processIdMap = [p \in ProcessIds |-> None]

-----------------------------------------------------------------------------
(* Pods.                                                                   *)

\* id is what the scan from the smallest id upwards finds.
IsFirstFree(map, ids, id) ==
    /\ id \in ids
    /\ map[id] = None
    /\ \A j \in ids : j < id => map[j] # None

\* AllocatePodId returns id: the one the container has, or the first free one,
\* which is entered in both maps at once.
AllocatePodId(c, ip, id) ==
    /\ \/ /\ containerIdMap[c] # None
          /\ id = containerIdMap[c].LocalId
          /\ UNCHANGED podMaps
       \/ /\ containerIdMap[c] = None
          /\ IsFirstFree(podIdMap, PodIds, id)
          /\ podIdMap' = [podIdMap EXCEPT ![id] = c]
          /\ containerIdMap' =
               [containerIdMap EXCEPT ![c] = [LocalId |-> id, VethIpv4 |-> ip]]
    /\ UNCHANGED flowMaps

ReleaseKeepsPodInfo(c) ==
    /\ IF containerIdMap[c] # None
       THEN podIdMap' = [podIdMap EXCEPT ![containerIdMap[c].LocalId] = None]
       ELSE UNCHANGED podIdMap
    /\ UNCHANGED <<containerIdMap, flowIdMap, processIdMap>>

\* The entry of the container's id goes whoever holds it by now.
ReleasePodIdByContainerId(c) ==
    /\ IF containerIdMap[c] # None
       THEN /\ podIdMap' = [podIdMap EXCEPT ![containerIdMap[c].LocalId] = None]
            /\ containerIdMap' = [containerIdMap EXCEPT ![c] = None]
       ELSE UNCHANGED podMaps
    /\ UNCHANGED flowMaps

\* Both entries are overwritten without a look at what they held.
InsertPodInfo(c, info) ==
    /\ podIdMap' = [podIdMap EXCEPT ![info.LocalId] = c]
    /\ containerIdMap' = [containerIdMap EXCEPT ![c] = info]
    /\ UNCHANGED flowMaps

-----------------------------------------------------------------------------
(* Flows.                                                                  *)

AllocateFromPodIdMap(p, id) ==
    /\ \/ /\ processIdMap[p] # None
          /\ id = processIdMap[p]
          /\ UNCHANGED flowMaps
       \/ /\ processIdMap[p] = None
          /\ IsFirstFree(podIdMap, FlowIds, id)
          /\ flowIdMap' = [flowIdMap EXCEPT ![id] = p]
          /\ processIdMap' = [processIdMap EXCEPT ![p] = id]
    /\ UNCHANGED podMaps

AllocateProcessId(p, id) ==
    /\ \/ /\ processIdMap[p] # None
          /\ id = processIdMap[p]
          /\ UNCHANGED flowMaps
       \/ /\ processIdMap[p] = None
          /\ IsFirstFree(flowIdMap, FlowIds, id)
          /\ flowIdMap' = [flowIdMap EXCEPT ![id] = p]
          /\ processIdMap' = [processIdMap EXCEPT ![p] = id]
    /\ UNCHANGED podMaps

ReleaseProcessInfo(p) ==
    /\ IF processIdMap[p] # None
       THEN /\ flowIdMap' = [flowIdMap EXCEPT ![processIdMap[p]] = None]
            /\ processIdMap' = [processIdMap EXCEPT ![p] = None]
       ELSE UNCHANGED flowMaps
    /\ UNCHANGED podMaps

InsertNextId(p, id) ==
    /\ podIdMap' = [podIdMap EXCEPT ![id] = p]
    /\ processIdMap' = [processIdMap EXCEPT ![p] = id + 1]
    /\ UNCHANGED <<containerIdMap, flowIdMap>>

\* The reverse entry goes to podIdMap, not to flowIdMap: so the code says.
InsertProcessInfo(p, id) ==
    /\ podIdMap' = [podIdMap EXCEPT ![id] = p]
    /\ processIdMap' = [processIdMap EXCEPT ![p] = id]
    /\ UNCHANGED <<containerIdMap, flowIdMap>>
=============================================================================
