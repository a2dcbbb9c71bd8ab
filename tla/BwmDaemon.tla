----------------------------- MODULE BwmDaemon -----------------------------
(***************************************************************************)
(* bwm-daemon and the pods of its node: the gRPC handlers SetQos and       *)
(* UnSetQos (cmd/daemon/rpcserver/rpcserver.go), called by the CNI plugin  *)
(* for every sandbox kubelet adds or deletes, and the start-up of the      *)
(* daemon (cmd/daemon/main.go), which rebuilds its state from the          *)
(* annotations the handlers left on the pods.                              *)
(*                                                                         *)
(* gRPC runs every call in a goroutine of its own and no lock spans a      *)
(* handler, so a handler is a sequence of atomic steps: one per call of    *)
(* the id manager, of the API server or of a BPF map.  A handler's pc      *)
(* names the call it makes next.                                           *)
(*                                                                         *)
(* Two specifications share the actions.  Spec is one run of the daemon    *)
(* under a kubelet whose calls for one sandbox follow each other: API and  *)
(* map errors, retries, and any interleaving of the handlers of different  *)
(* sandboxes.  FaultSpec adds the daemon's crashes and restarts and,       *)
(* when the constants allow them, CNI calls, of either kind, on which the  *)
(* client gives up while their handler goes on, and RPCs that arrive while *)
(* the daemon starts.                                                      *)
(***************************************************************************)
EXTENDS EdtMaps, FiniteSets

CONSTANTS
    MaxRestarts,   \* bound on the crashes of one behaviour
    MaxLate,       \* bound on the sandboxes with a DEL the client gives up on
    CniTimeout,    \* may the CNI client give up on a call that still runs?
    EarlyRpc       \* may RPCs come before the start-up is complete?

ASSUME FaultAssumption ==
    /\ MaxRestarts \in Nat /\ MaxLate \in Nat
    /\ CniTimeout \in BOOLEAN
    /\ EarlyRpc \in BOOLEAN

VARIABLES
    \* bwm-daemon
    daemon,      \* progress of Run(): see DaemonStates
    setPc,       \* next call of the SetQos handler of a sandbox
    setInfo,     \* podInfo, the handler's local variable
    unsetPc,     \* next call of the UnSetQos handler of a sandbox
    unsetInfo,   \* podInfo of that handler
    todo,        \* what is left of the list Run() restores: <<c, podInfo>>
    restore,     \* the <<c, podInfo>> of the current round of that loop
    restorePc,   \* next call of that round
    restarts,    \* crashes so far
    latePc,      \* next call of the UnSetQos handler its client gave up on
    lateInfo,    \* podInfo of that handler
    swept,       \* history: sandboxes whose key such a handler has deleted
    \* the node and the API server (external)
    sandbox,     \* life of a sandbox
    ip,          \* its address
    phase,       \* status.phase of its pod
    annotation,  \* what PatchPodQosInfo stored on the pod
    success      \* has SetQos returned Success and no DEL come since?

handlerVars == <<setPc, setInfo, unsetPc, unsetInfo>>
startVars == <<daemon, todo, restore, restorePc, restarts>>
lateVars == <<latePc, lateInfo, swept>>
faultVars == <<startVars, lateVars>>
nodeVars == <<sandbox, ip, phase, annotation, success>>
vars == <<idManagerVars, edtVars, handlerVars, faultVars, nodeVars>>

DaemonStates == {"down", "serving", "edt", "restoring", "ready"}
SetPcs == {"idle", "patch", "egressId", "ingressId", "egressCfg",
           "ingressCfg", "insert"}
UnsetPcs == {"idle", "egressCfg", "ingressCfg", "egressId", "ingressId",
             "release"}
LatePcs == (UnsetPcs \ {"idle"}) \union {"none", "done"}
RestorePcs == {"next", "ingressCfg", "egressCfg", "egressId", "ingressId"}
Sandboxes == {"none", "up", "stopping", "down"}
Phases == {"Pending", "Running", "Gone"}
Recovered == ContainerIds \X PodInfo

TypeOK ==
    /\ IDManagerTypeOK
    /\ EdtMapsTypeOK
    /\ daemon \in DaemonStates
    /\ setPc \in [ContainerIds -> SetPcs]
    /\ setInfo \in [ContainerIds -> PodInfo \union {None}]
    /\ unsetPc \in [ContainerIds -> UnsetPcs]
    /\ unsetInfo \in [ContainerIds -> PodInfo \union {None}]
    /\ todo \in SUBSET Recovered
    /\ restore \in Recovered \union {None}
    /\ restorePc \in RestorePcs
    /\ restarts \in 0..MaxRestarts
    /\ latePc \in [ContainerIds -> LatePcs]
    /\ lateInfo \in [ContainerIds -> PodInfo \union {None}]
    /\ swept \in SUBSET ContainerIds
    /\ sandbox \in [ContainerIds -> Sandboxes]
    /\ ip \in [ContainerIds -> Ips \union {None}]
    /\ phase \in [ContainerIds -> Phases]
    /\ annotation \in [ContainerIds -> PodInfo \union {None}]
    /\ success \in [ContainerIds -> BOOLEAN]

\* A daemon that has come up on a node without pods.
Init ==
    /\ NewPodIDManager
    /\ EdtMapsInit
    /\ daemon = "ready"
    /\ setPc = [c \in ContainerIds |-> "idle"]
    /\ setInfo = [c \in ContainerIds |-> None]
    /\ unsetPc = [c \in ContainerIds |-> "idle"]
    /\ unsetInfo = [c \in ContainerIds |-> None]
    /\ todo = {}
    /\ restore = None
    /\ restorePc = "next"
    /\ restarts = 0
    /\ latePc = [c \in ContainerIds |-> "none"]
    /\ lateInfo = [c \in ContainerIds |-> None]
    /\ swept = {}
    /\ sandbox = [c \in ContainerIds |-> "none"]
    /\ ip = [c \in ContainerIds |-> None]
    /\ phase = [c \in ContainerIds |-> "Pending"]
    /\ annotation = [c \in ContainerIds |-> None]
    /\ success = [c \in ContainerIds |-> FALSE]

\* RPCs are answered once RunRpcServer runs, and the maps are open once
\* NewTcbpf has set bpf.Edt.
Serving == daemon = "ready" \/ (EarlyRpc /\ daemon # "down")
EdtOpen == daemon \in {"edt", "restoring", "ready"}

-----------------------------------------------------------------------------
(* The node: kubelet, the address manager and the API server (external).   *)

\* The plugins before this one in the chain have made the sandbox's network.
RunPodSandbox(c) ==
    /\ sandbox[c] = "none"
    /\ \E a \in Ips :
         /\ \A o \in ContainerIds : ip[o] # a
         /\ ip' = [ip EXCEPT ![c] = a]
    /\ sandbox' = [sandbox EXCEPT ![c] = "up"]
    /\ UNCHANGED <<idManagerVars, edtVars, handlerVars, faultVars>>
    /\ UNCHANGED <<phase, annotation, success>>

\* cmdAdd has succeeded and kubelet has started the pod's containers.
PodStarted(c) ==
    /\ sandbox[c] = "up"
    /\ success[c]
    /\ phase[c] = "Pending"
    /\ phase' = [phase EXCEPT ![c] = "Running"]
    /\ UNCHANGED <<idManagerVars, edtVars, handlerVars, faultVars>>
    /\ UNCHANGED <<sandbox, ip, annotation, success>>

\* The API server forgets the pod, some time after its sandbox is gone.
PodRemoved(c) ==
    /\ sandbox[c] = "down"
    /\ phase[c] # "Gone"
    /\ phase' = [phase EXCEPT ![c] = "Gone"]
    /\ annotation' = [annotation EXCEPT ![c] = None]
    /\ UNCHANGED <<idManagerVars, edtVars, handlerVars, faultVars>>
    /\ UNCHANGED <<sandbox, ip, success>>

-----------------------------------------------------------------------------
(* SetQos.  The handler reads the pod and its QoS annotations and takes an *)
(* id in one step: what it reads before does not change.  A pod that cannot*)
(* be read or parsed, and an exhausted id range, leave everything as it is.*)

SetQosAllocate(c) ==
    /\ Serving
    /\ sandbox[c] = "up" /\ ~success[c]
    /\ setPc[c] = "idle" /\ unsetPc[c] = "idle"
    /\ \E id \in PodIds :
         /\ AllocatePodId(c, ip[c], id)
         /\ setInfo' = [setInfo EXCEPT
                          ![c] = [LocalId |-> id, VethIpv4 |-> ip[c]]]
    /\ setPc' = [setPc EXCEPT ![c] = "patch"]
    /\ UNCHANGED <<edtVars, unsetPc, unsetInfo, faultVars, nodeVars>>

SetQosTo(c, pc) ==
    /\ setPc' = [setPc EXCEPT ![c] = pc]
    /\ setInfo' = IF pc = "idle" THEN [setInfo EXCEPT ![c] = None] ELSE setInfo
    /\ UNCHANGED <<unsetPc, unsetInfo, faultVars>>

\* Local id, container id and address are written on the pod, if it is there.
PatchPodQosInfo(c) ==
    /\ phase[c] # "Gone"
    /\ annotation' = [annotation EXCEPT ![c] = setInfo[c]]

SetQosPatch(c) ==
    /\ setPc[c] = "patch"
    /\ PatchPodQosInfo(c)
    /\ SetQosTo(c, "egressId")
    /\ UNCHANGED <<idManagerVars, edtVars, sandbox, ip, phase, success>>

\* The patch fails, or its answer is lost: the id stays allocated.
SetQosPatchFails(c) ==
    /\ setPc[c] = "patch"
    /\ UNCHANGED annotation \/ PatchPodQosInfo(c)
    /\ SetQosTo(c, "idle")
    /\ UNCHANGED <<idManagerVars, edtVars, sandbox, ip, phase, success>>

SetQosUpdateEgressTwice(c, d) ==
    UpdateThrottleId("egress", PodKey(setInfo[c].VethIpv4),
                     GenerateClassId(c, setInfo[c].LocalId))

\* One of the two id map updates; an error ends the handler.
SetQosUpdateThrottleId(c, d) ==
    UpdateThrottleId(d, PodKey(setInfo[c].VethIpv4),
                     GenerateClassId(c, setInfo[c].LocalId))

SetQosUpdateEgressThrottleId(c) ==
    /\ setPc[c] = "egressId" /\ EdtOpen
    /\ SetQosUpdateThrottleId(c, "egress")
    /\ SetQosTo(c, "ingressId")
    /\ UNCHANGED <<idManagerVars, nodeVars>>

SetQosUpdateIngressThrottleId(c) ==
    /\ setPc[c] = "ingressId"
    /\ SetQosUpdateThrottleId(c, "ingress")
    /\ SetQosTo(c, "egressCfg")
    /\ UNCHANGED <<idManagerVars, nodeVars>>

SetQosUpdateFails(c) ==
    /\ setPc[c] \in {"egressId", "ingressId"} /\ EdtOpen
    /\ SetQosTo(c, "idle")
    /\ UNCHANGED <<idManagerVars, edtVars, nodeVars>>

SetQosAddEgressConfig(c) ==
    /\ setPc[c] = "egressCfg"
    /\ AddConfig("egress", setInfo[c].LocalId, c)
    /\ SetQosTo(c, "ingressCfg")
    /\ UNCHANGED <<idManagerVars, nodeVars>>

SetQosAddIngressConfig(c) ==
    /\ setPc[c] = "ingressCfg"
    /\ AddConfig("ingress", setInfo[c].LocalId, c)
    /\ SetQosTo(c, "insert")
    /\ UNCHANGED <<idManagerVars, nodeVars>>

\* The reply of a call that has timed out reaches nobody.
SetQosInsertPodInfo(c) ==
    /\ setPc[c] = "insert"
    /\ InsertPodInfo(c, setInfo[c])
    /\ success' = [success EXCEPT ![c] = (sandbox[c] = "up")]
    /\ SetQosTo(c, "idle")
    /\ UNCHANGED <<edtVars, sandbox, ip, phase, annotation>>

SetQos(c) ==
    \/ SetQosAllocate(c)
    \/ SetQosPatch(c) \/ SetQosPatchFails(c)
    \/ SetQosUpdateEgressThrottleId(c) \/ SetQosUpdateIngressThrottleId(c)
    \/ SetQosUpdateFails(c)
    \/ SetQosAddEgressConfig(c) \/ SetQosAddIngressConfig(c)
    \/ SetQosInsertPodInfo(c)

-----------------------------------------------------------------------------
(* UnSetQos.                                                               *)

UnSetQosFirstStrict(c) == IF containerIdMap[c] = None THEN "idle" ELSE "egressCfg"

\* The lookup decides whether the maps are cleaned at all.
UnSetQosFirst(c) == IF containerIdMap[c] = None THEN "release" ELSE "egressCfg"

UnSetQosReleasesFirst(c) ==
    /\ Serving
    /\ sandbox[c] \in {"up", "stopping"}
    /\ unsetPc[c] = "idle"
    /\ unsetInfo' = [unsetInfo EXCEPT ![c] = containerIdMap[c]]
    /\ unsetPc' = [unsetPc EXCEPT ![c] = UnSetQosFirst(c)]
    /\ sandbox' = [sandbox EXCEPT ![c] = "stopping"]
    /\ success' = [success EXCEPT ![c] = FALSE]
    /\ ReleasePodIdByContainerId(c)
    /\ UNCHANGED <<edtVars, setPc, setInfo, faultVars, ip, phase, annotation>>

UnSetQosStart(c) ==
    /\ Serving
    /\ sandbox[c] \in {"up", "stopping"}
    /\ unsetPc[c] = "idle"
    /\ unsetInfo' = [unsetInfo EXCEPT ![c] = containerIdMap[c]]
    /\ unsetPc' = [unsetPc EXCEPT ![c] = UnSetQosFirst(c)]
    /\ sandbox' = [sandbox EXCEPT ![c] = "stopping"]
    /\ success' = [success EXCEPT ![c] = FALSE]
    /\ UNCHANGED <<idManagerVars, edtVars, setPc, setInfo, faultVars>>
    /\ UNCHANGED <<ip, phase, annotation>>

\* kubelet's DEL, after the ADD has returned.
UnSetQosLookup(c) ==
    /\ setPc[c] = "idle"
    /\ UnSetQosStart(c)

UnSetQosTo(c, pc) ==
    /\ unsetPc' = [unsetPc EXCEPT ![c] = pc]
    /\ UNCHANGED <<idManagerVars, setPc, setInfo, unsetInfo>>
    /\ UNCHANGED <<faultVars, nodeVars>>

\* Each configuration is zeroed with the statistics beside it.
UnSetQosClearEgress(c) ==
    /\ unsetPc[c] = "egressCfg" /\ EdtOpen
    /\ SingleWriteThrottleCfg("egress", unsetInfo[c].LocalId, None)
    /\ UnSetQosTo(c, "ingressCfg")

UnSetQosClearIngress(c) ==
    /\ unsetPc[c] = "ingressCfg"
    /\ SingleWriteThrottleCfg("ingress", unsetInfo[c].LocalId, None)
    /\ UnSetQosTo(c, "egressId")

UnSetQosDeleteEgressThrottleId(c) ==
    /\ unsetPc[c] = "egressId"
    /\ DeleteThrottleId("egress", PodKey(unsetInfo[c].VethIpv4))
    /\ UnSetQosTo(c, "ingressId")

UnSetQosForgetsIngressThrottleId(c) ==
    /\ unsetPc[c] = "ingressId"
    /\ UnSetQosTo(c, "release")
    /\ UNCHANGED edtVars

UnSetQosDeleteIngressThrottleId(c) ==
    /\ unsetPc[c] = "ingressId"
    /\ DeleteThrottleId("ingress", PodKey(unsetInfo[c].VethIpv4))
    /\ UnSetQosTo(c, "release")

\* The reply is always Success: kubelet takes the sandbox for deleted, and the
\* plugins before this one free its address.
UnSetQosRelease(c) ==
    /\ unsetPc[c] = "release"
    /\ ReleasePodIdByContainerId(c)
    /\ unsetPc' = [unsetPc EXCEPT ![c] = "idle"]
    /\ unsetInfo' = [unsetInfo EXCEPT ![c] = None]
    /\ sandbox' = [sandbox EXCEPT ![c] = "down"]
    /\ ip' = [ip EXCEPT ![c] = None]
    /\ UNCHANGED <<edtVars, setPc, setInfo, faultVars>>
    /\ UNCHANGED <<phase, annotation, success>>

UnSetQos(c) ==
    \/ UnSetQosLookup(c)
    \/ UnSetQosClearEgress(c) \/ UnSetQosClearIngress(c)
    \/ UnSetQosDeleteEgressThrottleId(c) \/ UnSetQosDeleteIngressThrottleId(c)
    \/ UnSetQosRelease(c)

-----------------------------------------------------------------------------
(* Crashes and the start-up, Run() of cmd/daemon/main.go.                  *)

\* The process ends: memory and handlers are gone, maps and pods are not.
Die ==
    /\ restarts < MaxRestarts
    /\ restarts' = restarts + 1
    /\ daemon' = "down"
    /\ podIdMap' = [id \in LocalIds |-> None]
    /\ containerIdMap' = [c \in ContainerIds |-> None]
    /\ flowIdMap' = [id \in FlowIds |-> None]
    /\ processIdMap' = [p \in ProcessIds |-> None]
    /\ setPc' = [c \in ContainerIds |-> "idle"]
    /\ setInfo' = [c \in ContainerIds |-> None]
    /\ unsetPc' = [c \in ContainerIds |-> "idle"]
    /\ unsetInfo' = [c \in ContainerIds |-> None]
    /\ latePc' = [c \in ContainerIds |-> IF latePc[c] = "none" THEN "none" ELSE "done"]
    /\ lateInfo' = [c \in ContainerIds |-> None]
    /\ todo' = {} /\ restore' = None /\ restorePc' = "next"
    /\ UNCHANGED <<edtVars, nodeVars, swept>>

Crash == daemon # "down" /\ Die

\* A handler that reaches a map before NewTcbpf has run dereferences the nil
\* bpf.Edt: the panic takes the whole daemon down.
NilEdtPanic(c) ==
    /\ daemon = "serving"
    /\ \/ setPc[c] = "egressId"
       \/ "egressCfg" \in {unsetPc[c], latePc[c]}
    /\ Die

ListRunPodFromCache == {c \in ContainerIds : phase[c] = "Running"}
GetPodPatchData(c) == annotation[c]

\* recoverIdmanagerFromCache: the Running pods that carry the annotations are
\* inserted one after the other in the order of the informer's store, before
\* any RPC is served.  Of pods with the same id the last one keeps it.
RecoverIdmanagerFromCache ==
    /\ daemon = "down"
    /\ LET recovered == {c \in ListRunPodFromCache : GetPodPatchData(c) # None}
       IN /\ containerIdMap' = [c \in ContainerIds |->
                                  IF c \in recovered THEN GetPodPatchData(c) ELSE None]
          /\ podIdMap' \in [LocalIds -> ContainerIds \union {None}]
          /\ \A id \in LocalIds :
               LET holders == {c \in recovered : GetPodPatchData(c).LocalId = id}
               IN IF holders = {} THEN podIdMap'[id] = None
                  ELSE podIdMap'[id] \in holders
    /\ daemon' = "serving"
    /\ UNCHANGED <<flowMaps, edtVars, handlerVars, lateVars, nodeVars>>
    /\ UNCHANGED <<todo, restore, restorePc, restarts>>

NewTcbpfCreates ==
    /\ daemon = "serving"
    /\ daemon' = "edt"
    /\ throttleId' = [d \in Dirs |-> [k \in TcEdtIdKey |-> None]]
    /\ throttleCfg' = [d \in Dirs |-> [id \in CfgIndexes |-> None]]
    /\ UNCHANGED <<idManagerVars, handlerVars, lateVars, nodeVars>>
    /\ UNCHANGED <<todo, restore, restorePc, restarts>>

NewTcbpf ==
    /\ daemon = "serving"
    /\ daemon' = "edt"
    /\ UNCHANGED <<idManagerVars, edtVars, handlerVars, lateVars, nodeVars>>
    /\ UNCHANGED <<todo, restore, restorePc, restarts>>

\* The loop of Run() ranges over the list as it is now.
ListPodInfo ==
    /\ daemon = "edt"
    /\ todo' = {<<c, containerIdMap[c]>> :
                  c \in {o \in ContainerIds : containerIdMap[o] # None}}
    /\ daemon' = "restoring"
    /\ UNCHANGED <<idManagerVars, edtVars, handlerVars, lateVars, nodeVars>>
    /\ UNCHANGED <<restore, restorePc, restarts>>

RestoreNext ==
    /\ daemon = "restoring" /\ restorePc = "next"
    /\ \/ /\ todo = {}
          /\ daemon' = "ready"
          /\ UNCHANGED <<todo, restore, restorePc>>
       \/ \E r \in todo :
            /\ todo' = todo \ {r}
            /\ restore' = r
            /\ restorePc' = "ingressCfg"
            /\ UNCHANGED daemon
    /\ UNCHANGED <<idManagerVars, edtVars, handlerVars, lateVars, nodeVars>>
    /\ UNCHANGED restarts

RestoreTo(pc) ==
    /\ restorePc' = pc
    /\ UNCHANGED <<idManagerVars, handlerVars, lateVars, nodeVars>>
    /\ UNCHANGED <<daemon, todo, restore, restarts>>

RestoreConfigs ==
    \/ /\ restorePc = "ingressCfg"
       /\ AddConfig("ingress", restore[2].LocalId, restore[1])
       /\ RestoreTo("egressCfg")
    \/ /\ restorePc = "egressCfg"
       /\ AddConfig("egress", restore[2].LocalId, restore[1])
       /\ RestoreTo("egressId")

\* An error is logged and the loop goes on.
RestoreThrottleId(d) ==
    \/ UpdateThrottleId(d, PodKey(restore[2].VethIpv4),
                        GenerateClassId(restore[1], restore[2].LocalId))
    \/ UNCHANGED edtVars

RestoreThrottleIds ==
    \/ /\ restorePc = "egressId"
       /\ RestoreThrottleId("egress")
       /\ RestoreTo("ingressId")
    \/ /\ restorePc = "ingressId"
       /\ RestoreThrottleId("ingress")
       /\ RestoreTo("next")

StartUp ==
    \/ RecoverIdmanagerFromCache \/ NewTcbpf \/ ListPodInfo
    \/ RestoreNext \/ RestoreConfigs \/ RestoreThrottleIds

-----------------------------------------------------------------------------
(* The CNI client gives up on a call after its timeout, and the handler,   *)
(* which never looks at its context, goes on.                              *)

\* The ADD has failed: kubelet deletes the sandbox.
UnSetQosAfterTimeout(c) ==
    /\ CniTimeout
    /\ setPc[c] # "idle"
    /\ UnSetQosStart(c)

\* The DEL has failed: cmdDel returns the error, and kubelet will call again.
\* Bound: this happens to one DEL of a sandbox, and to MaxLate sandboxes.
UnSetQosGivenUp(c) ==
    /\ CniTimeout
    /\ unsetPc[c] # "idle" /\ latePc[c] = "none"
    /\ Cardinality({o \in ContainerIds : latePc[o] # "none"}) < MaxLate
    /\ latePc' = [latePc EXCEPT ![c] = unsetPc[c]]
    /\ lateInfo' = [lateInfo EXCEPT ![c] = unsetInfo[c]]
    /\ unsetPc' = [unsetPc EXCEPT ![c] = "idle"]
    /\ unsetInfo' = [unsetInfo EXCEPT ![c] = None]
    /\ UNCHANGED <<idManagerVars, edtVars, setPc, setInfo, startVars, swept, nodeVars>>

LateTo(c, pc) ==
    /\ latePc' = [latePc EXCEPT ![c] = pc]
    /\ UNCHANGED <<lateInfo, handlerVars, startVars, nodeVars>>

LateClear(c, d) ==
    /\ SingleWriteThrottleCfg(d, lateInfo[c].LocalId, None)
    /\ UNCHANGED <<idManagerVars, swept>>

\* By now the key may be that of another sandbox, which has the address.
LateDelete(c, d) ==
    /\ DeleteThrottleId(d, PodKey(lateInfo[c].VethIpv4))
    /\ swept' = swept \union {o \in ContainerIds : ip[o] = lateInfo[c].VethIpv4
                                                 /\ (success[o] \/ setPc[o] # "idle")}
    /\ UNCHANGED idManagerVars

\* The steps of UnSetQos; nobody gets the reply.
UnSetQosLate(c) ==
    \/ latePc[c] = "egressCfg" /\ EdtOpen /\ LateClear(c, "egress") /\ LateTo(c, "ingressCfg")
    \/ latePc[c] = "ingressCfg" /\ LateClear(c, "ingress") /\ LateTo(c, "egressId")
    \/ latePc[c] = "egressId" /\ LateDelete(c, "egress") /\ LateTo(c, "ingressId")
    \/ latePc[c] = "ingressId" /\ LateDelete(c, "ingress") /\ LateTo(c, "release")
    \/ /\ latePc[c] = "release" /\ LateTo(c, "done")
       /\ ReleasePodIdByContainerId(c)
       /\ UNCHANGED <<edtVars, swept>>

GivenUp(c) == UnSetQosAfterTimeout(c) \/ UnSetQosGivenUp(c) \/ UnSetQosLate(c)

-----------------------------------------------------------------------------
Node(c) == RunPodSandbox(c) \/ PodStarted(c) \/ PodRemoved(c)

Next == \E c \in ContainerIds : Node(c) \/ SetQos(c) \/ UnSetQos(c)

\* The Go scheduler runs a handler to its end, and kubelet retries a DEL until
\* it has succeeded; nobody has to retry an ADD.
Fairness ==
    \A c \in ContainerIds :
      /\ WF_vars(setPc[c] # "idle" /\ SetQos(c))
      /\ WF_vars(sandbox[c] = "stopping" /\ UnSetQos(c))

Spec == Init /\ [][Next]_vars /\ Fairness

FaultNext ==
    \/ Next
    \/ Crash
    \/ StartUp
    \/ \E c \in ContainerIds : NilEdtPanic(c) \/ GivenUp(c)

\* Moreover the daemon set restarts a daemon that has ended, Run() goes on, and
\* so do the handlers whose client has given up.
FaultSpec ==
    /\ Init /\ [][FaultNext]_vars /\ Fairness
    /\ WF_vars(StartUp)
    /\ \A c \in ContainerIds : WF_vars(UnSetQosLate(c))

-----------------------------------------------------------------------------
(* What the handlers promise.                                              *)

\* The pod's traffic, both ways, is classified as the pod's and throttled by the
\* pod's own configuration under this id.  An id beyond the arrays, of which the
\* code has a thousand, has no configuration: its holder is not throttled.  And
\* nothing is promised of the class id of an address that a flow contests.
ThrottledAs(c, id) ==
    \A d \in Dirs :
      /\ ip[c] \notin Contested => throttleId[d][PodKey(ip[c])] = GenerateClassId(c, id)
      /\ id \in CfgIndexes => throttleCfg[d][id] = c

InForce(c) ==
    /\ containerIdMap[c] # None
    /\ ThrottledAs(c, containerIdMap[c].LocalId)

\* No two sandboxes hold one id: what keeps the traffic and the limits of two
\* pods apart.  The handlers allocate, insert and release in steps of their
\* own, and InsertPodInfo and ReleasePodIdByContainerId check nothing.
NoSharedId ==
    \A c1, c2 \in ContainerIds :
      /\ c1 # c2
      /\ containerIdMap[c1] # None /\ containerIdMap[c2] # None
      => containerIdMap[c1].LocalId # containerIdMap[c2].LocalId

\* As long as SetQos stands successful and no DEL has come, the pod's QoS is in
\* force in all four maps, whatever the handlers of other sandboxes, the
\* reuse of ids and addresses, and the failures of other calls did meanwhile.
QosInForce == \A c \in ContainerIds : success[c] => InForce(c)

\* A completed DEL leaves nothing of the sandbox behind, also when the SetQos
\* before it failed half way: an address in use by nobody has no class id, an id
\* in use by nobody has a zero configuration, and every id is held by a sandbox
\* that is up.
NoResidue ==
    /\ \A a \in Ips \ Contested :
         (\A c \in ContainerIds : ip[c] # a) => \A d \in Dirs : throttleId[d][PodKey(a)] = None
    /\ \A id \in PodIds \intersect CfgIndexes :
         podIdMap[id] = None => \A d \in Dirs : throttleCfg[d][id] = None
    /\ \A id \in PodIds : podIdMap[id] # None
                            => sandbox[podIdMap[id]] \in {"up", "stopping"}

\* The pod whose the traffic of an address is taken for, and the pod whose request
\* limits it: the data path reads both through the class id of the address.
StreamOf(d, a) ==
    LET class == throttleId[d][PodKey(a)]
    IN  IF class = None THEN None ELSE class.priorityOf
LimitOf(d, a) ==
    LET class == throttleId[d][PodKey(a)]
    IN  IF class = None \/ class.id \notin CfgIndexes THEN None ELSE throttleCfg[d][class.id]

PodIps == Ips \ Contested
Streams == [d \in Dirs |-> [a \in PodIps |-> StreamOf(d, a)]]
Limits == [d \in Dirs |-> [a \in PodIps |-> LimitOf(d, a)]]

Service == INSTANCE QosService WITH
    Pods <- ContainerIds, Addresses <- Ips, Served <- PodIps, Directions <- Dirs, None <- None,
    life <- sandbox, address <- ip, granted <- success,
    stream <- Streams, limit <- Limits

\* The handlers implement the service: a handler touches the traffic of its own
\* sandbox only, though it writes to arrays under ids that were others' before;
\* SetQos succeeds when all is entered, and a deleted sandbox leaves its address
\* to the next one without a trace.
ImplementsService == Service!ServiceSpec

\* A sandbox that is being deleted gives its id back for good, though the daemon
\* may crash under the DEL, panic on the nil bpf.Edt while it starts, come back
\* without the sandbox in its maps, and though a DEL may time out and run beside
\* its retry.  Two things keep it, for good too: a SetQos that still runs when the
\* DEL is done, and a restart while the API server still lists the pod as Running.
DelReclaims ==
    \A c \in ContainerIds :
      sandbox[c] = "stopping" ~>
        \/ [](sandbox[c] = "down" /\ containerIdMap[c] = None)
        \/ sandbox[c] = "down" /\ setPc[c] # "idle"
        \/ sandbox[c] = "down" /\ daemon = "down" /\ phase[c] = "Running"

\* Whatever crashes, restarts, timeouts and early calls do, a pod whose SetQos
\* stands successful never falls out of the id maps: its packets are classified
\* as some object's, they never fall through to the unclassified default.  Only a
\* DEL its client gave up on takes it out: when that handler comes to the key at
\* last, the retry is long done and the pod has got the address.
StaysClassified ==
    \A c \in ContainerIds \ swept : \A d \in Dirs :
      success[c] => throttleId[d][PodKey(ip[c])] # None

\* main.go: "restore the QoS configuration of the existing pods to the cfg map
\* and the id map": when the start-up is complete, the QoS of every pod that
\* runs is in force.
RestoredInForce ==
    daemon = "ready" =>
      \A c \in ContainerIds :
        success[c] /\ phase[c] = "Running"
          => ThrottledAs(c, annotation[c].LocalId)
=============================================================================
