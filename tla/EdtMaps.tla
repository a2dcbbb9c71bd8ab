------------------------------ MODULE EdtMaps ------------------------------
(***************************************************************************)
(* The pinned BPF maps as bwm-daemon writes them (pkg/bpfgo/tc_bpf.go):    *)
(* for each direction an id map, from an address (and port) to a class id, *)
(* and a configuration array indexed by the id.  The maps live in the      *)
(* kernel: they outlive the daemon.  Every call is one system call on one  *)
(* map, hence one atomic step.                                             *)
(*                                                                         *)
(* A throttle configuration is abstracted to the pod or flow whose QoS     *)
(* request it was computed from, and the zero configuration to None; the   *)
(* rates themselves are the business of AlgDaemon.  The per-packet         *)
(* statistics are modelled in TcEdt.                                       *)
(***************************************************************************)
EXTENDS IDManager

CONSTANTS
    Ports,      \* ports of flows; a pod is entered under port 0
    MapSize     \* entries of a configuration array (5000 in the code)

ASSUME MapSizeAssumption == MapSize \in Nat

Dirs == {"egress", "ingress"}
PodPort == 0
TcEdtIdKey == Ips \X (Ports \union {PodPort})
PodKey(ip) == <<ip, PodPort>>

\* Addresses for which a flow of port 0 may be set, which nothing forbids: its key
\* is the one of the pod that has the address, and the two overwrite each other.
Contested == {a \in Ips : \E p \in ProcessIds : p.ip = a /\ p.port = PodPort}

VARIABLES
    throttleId,    \* direction -> (key -> class id)
    throttleCfg    \* direction -> (local id -> holder of the configuration)

edtVars == <<throttleId, throttleCfg>>

ClassIdOffByOne(holder, id) == [id |-> id + 1, priorityOf |-> holder]

\* The class id packs the local id with the priority of the holder's request.
\* (podId << 16) | priority; the priority is 0, 1 or 2 and never reaches the id.
GenerateClassId(holder, id) == [id |-> id, priorityOf |-> holder]

ClassIds == [id : LocalIds, priorityOf : Holders]

ASSUME NoClassIdAssumption == None \notin ClassIds

CfgIndexes == {id \in LocalIds : id < MapSize}

EdtMapsTypeOK ==
    /\ throttleId \in [Dirs -> [TcEdtIdKey -> ClassIds \union {None}]]
    /\ throttleCfg \in [Dirs -> [CfgIndexes -> Holders \union {None}]]

\* alg-daemon has just created and pinned the maps.
EdtMapsInit ==
    /\ throttleId = [d \in Dirs |-> [k \in TcEdtIdKey |-> None]]
    /\ throttleCfg = [d \in Dirs |-> [id \in CfgIndexes |-> None]]

\* UpdateEgressThrottleId and UpdateIngressThrottleId.
UpdateThrottleId(d, key, classId) ==
    /\ throttleId' = [throttleId EXCEPT ![d][key] = classId]
    /\ UNCHANGED throttleCfg

\* DeleteEgressThrottleId and DeleteIngressThrottleId; no entry is no change.
DeleteThrottleId(d, key) ==
    /\ throttleId' = [throttleId EXCEPT ![d][key] = None]
    /\ UNCHANGED throttleCfg

\* SingleWriteEgressThrottleCfg and SingleWriteIngressThrottleCfg.  The kernel
\* refuses an index beyond the array, and every caller drops the error.
SingleWriteThrottleCfg(d, id, holder) ==
    /\ throttleCfg' = IF id < MapSize
                      THEN [throttleCfg EXCEPT ![d][id] = holder]
                      ELSE throttleCfg
    /\ UNCHANGED throttleId

\* AddEgressConfig and AddIngressConfig: the holder's request, converted.
AddConfig(d, id, holder) == SingleWriteThrottleCfg(d, id, holder)

-----------------------------------------------------------------------------
(* How the data path finds the class id of an IPv4 packet with ports       *)
(* (bwm_tc_egress and bwm_tc_ingress of tc_edt.c, without custom marks).   *)

Packets == [src : Ips \X Ports, dst : Ips \X Ports]
LocalEnd(d, packet) == IF d = "egress" THEN packet.src ELSE packet.dst
RemoteEnd(d, packet) == IF d = "egress" THEN packet.dst ELSE packet.src

\* First the pod of the local address, then the flow served at the local end,
\* then the flow of which this is the client's end; None is the default stream.
Classify(d, packet) ==
    LET pod == throttleId[d][PodKey(LocalEnd(d, packet)[1])]
        server == throttleId[d][LocalEnd(d, packet)]
        client == throttleId[d][RemoteEnd(d, packet)]
    IN CASE pod # None -> pod
         [] pod = None /\ server # None -> server
         [] pod = None /\ server = None -> client
=============================================================================
