----------------------------- MODULE QosService -----------------------------
(***************************************************************************)
(* What bwm-daemon promises the pods of its node: SetQos and UnSetQos as   *)
(* kubelet and the data path see them, without ids, maps and handlers.     *)
(*                                                                         *)
(* The traffic of an address is taken for the stream of a pod, and limited *)
(* by the request of a pod, in either direction.  A pod's requests touch   *)
(* the traffic of its own address and no other; SetQos may fail with a     *)
(* part of its work done, but once it has succeeded the pod has what it    *)
(* asked for until its DEL, and DEL leaves the address as it was.          *)
(***************************************************************************)
CONSTANTS
    Pods, Addresses, Directions, None,
    Served     \* the addresses whose traffic nobody but their pods touches

VARIABLES
    life,      \* of a pod's sandbox
    address,   \* of a pod
    granted,   \* has its SetQos succeeded, and no DEL come since?
    stream,    \* direction -> (served address -> the pod whose its traffic is taken for)
    limit      \* direction -> (served address -> the pod whose request limits it)

treatment == <<stream, limit>>
serviceVars == <<life, address, granted, stream, limit>>

ServiceInit ==
    /\ life = [p \in Pods |-> "none"]
    /\ address = [p \in Pods |-> None]
    /\ granted = [p \in Pods |-> FALSE]
    /\ stream = [d \in Directions |-> [a \in Served |-> None]]
    /\ limit = [d \in Directions |-> [a \in Served |-> None]]

\* A new sandbox: nothing is left on its address of the pods that had it before.
Join(p) ==
    /\ life[p] = "none"
    /\ \E a \in Addresses :
         /\ \A o \in Pods : address[o] # a
         /\ a \in Served => \A d \in Directions : stream[d][a] = None
         /\ address' = [address EXCEPT ![p] = a]
    /\ life' = [life EXCEPT ![p] = "up"]
    /\ UNCHANGED <<granted, treatment>>

\* A change of one direction of the pod's own traffic.
Treat(p, value) ==
    \E d \in Directions :
      /\ address[p] \in Served
      /\ \/ stream' = [stream EXCEPT ![d][address[p]] = value]
         \/ UNCHANGED stream
      /\ \/ limit' = [limit EXCEPT ![d][address[p]] = value]
         \/ UNCHANGED limit

\* SetQos at work: it only ever adds.
Enter(p) ==
    /\ life[p] = "up" /\ ~granted[p]
    /\ Treat(p, p)
    /\ UNCHANGED <<life, address, granted>>

\* All is entered, or the pod is told so and is not limited in either direction:
\* there was no room for its limits.
Grant(p) ==
    /\ life[p] = "up"
    /\ address[p] \in Served =>
         \E l \in {p, None} : \A d \in Directions :
           stream[d][address[p]] = p /\ limit[d][address[p]] = l
    /\ granted' = [granted EXCEPT ![p] = TRUE]
    /\ UNCHANGED <<life, address, treatment>>

\* kubelet's DEL, or a retry of it.
Stop(p) ==
    /\ life[p] \in {"up", "stopping"}
    /\ life' = [life EXCEPT ![p] = "stopping"]
    /\ granted' = [granted EXCEPT ![p] = FALSE]
    /\ UNCHANGED <<address, treatment>>

\* UnSetQos at work: it only ever takes away.
Clear(p) ==
    /\ life[p] = "stopping"
    /\ Treat(p, None)
    /\ UNCHANGED <<life, address, granted>>

Gone(p) ==
    /\ life[p] = "stopping"
    /\ address[p] \in Served =>
         \A d \in Directions : stream[d][address[p]] = None /\ limit[d][address[p]] = None
    /\ life' = [life EXCEPT ![p] = "down"]
    /\ address' = [address EXCEPT ![p] = None]
    /\ UNCHANGED <<granted, treatment>>

ServiceNext ==
    \E p \in Pods : Join(p) \/ Enter(p) \/ Grant(p) \/ Stop(p) \/ Clear(p) \/ Gone(p)

ServiceSpec == ServiceInit /\ [][ServiceNext]_serviceVars
=============================================================================
