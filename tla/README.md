# BeeQos bandwidth management in TLA+

BeeQos (`src/bwm`, module path `oncn-bwm`) gives the pods and the host flows of a
Kubernetes node a guaranteed share of the node's network bandwidth. This directory
holds TLA+ specifications of its control plane, its allocation algorithm, its
per-packet scheduling, its set-up in the kernel, its older command line tool, and of the
netlink library kept in its tree; the TLC models that check them; and TLAPS proofs.

## The system

| part | source | state it keeps | operations |
|---|---|---|---|
| `bwm-daemon` | `cmd/daemon` | the id manager (four Go maps under one mutex); the QoS annotations on pods | gRPC `SetQos`, `UnSetQos`, `SetFlow`, `UnSetFlow`, two lists; start-up with recovery |
| CNI plugin | `cmd/cni-plugin`, `pkg/rpc` | none | `cmdAdd` -> `SetQos`, `cmdDel` -> `UnSetQos`, each with a timeout |
| `bwmctl` | `cmd/cmdctl` | none | `set` -> `SetFlow`, `unset` -> `UnSetFlow`, `list` |
| BPF maps | `pkg/bpfgo`, `pkg/bpfgo/bpf/include/tc_edt.h` | per direction: id map (address, port -> class id), configuration array and statistics array (indexed by id); pinned, so they outlive every process | single and batch reads and writes |
| `alg-daemon` | `cmd/alg-daemon` | a private copy of the arrays per direction | one endless loop per direction: read, adjust, share, write, sleep |
| data path | `pkg/bpfgo/bpf/tc_edt.c` | the statistics array | per packet: classify, account, compute the departure time, sample the rate |
| tc set-up | `pkg/tc`, `pkg/bpfgo/utils.go` | qdiscs, filters, the ifb device | enable and disable per direction |
| netlink library | `pkg/github.com/vishvananda/netlink` | sockets of a handle; sequence numbers | encode, request, receive, decode, list through filters; the project's changed copy |
| `bwmcli` and `bwm.ko` | `bwmcli` | qdiscs and filters of devices, the pinned `throttle_cfg`, the files of `/proc/qos` | enable, disable, set bandwidth and waterline; the files start the tool from the kernel |

kubelet runs the CNI plugin for every sandbox. `SetQos` reads the pod's annotations,
takes an id from the id manager, patches id, container id and address onto the pod,
enters the address in both id maps and the configuration in both arrays. `UnSetQos`
undoes all of it. `alg-daemon`, another process, rewrites the request rates in the
configuration arrays every 100 ms from the rates the data path has measured; before that
it sets up qdiscs, the ifb device and the redirect through the netlink library. When
`bwm-daemon` starts, it rebuilds the id manager from the annotations of the pods and
writes their entries again. `bwmcli` is independent of all this: it limits the offline
traffic of a host as a whole.

What makes it hard: every gRPC call runs in a goroutine of its own and no lock spans a
handler; a handler makes up to eight calls, several of which can fail, and undoes
nothing; ids and addresses are reused; the CNI client gives up after a timeout while the
handler goes on; the daemon can die between any two calls, and starts its RPC server
before its maps are open; two processes and the kernel write the same arrays; a netlink
socket keeps the answers of requests that were given up; two `bwmcli` can run at once and
each is a sequence of shell commands.

The hazards, each at its line, are listed in `PROJECT.json`.

## What makes each part correct

* **id manager and pod handlers**: two sandboxes never hold one id; while a pod's `SetQos`
  stands successful its QoS is in force in all four maps; a completed DEL leaves nothing
  behind; no handler changes what limits another pod's traffic; a sandbox under deletion
  gives its id back, whatever crashes; a restart brings the QoS of the running pods back.
* **flow handlers**: a flow reported set has an id and a configuration of its own and is
  never classified as another flow; `UnSetFlow` leaves nothing behind; pods and flows do
  not disturb each other.
* **alg-daemon**: the allocation never divides by zero, never promises more than the link
  has, serves guarantees before surpluses, and never changes what
  `bwm-daemon` has granted.
* **data path**: packets leave spaced at the request rate, the backlog of other than TCP is
  bounded however many CPUs test it at once, and every byte is in one sampling period.
* **tc set-up**: a running `alg-daemon` has egress and ingress in force, however its earlier
  runs have ended; the host's ingress never leads to a device that is gone; a stop undoes all.
* **netlink library**: an object that is written comes back as it was given; a list honours
  its filter; a request gets its own answer or errno, and returns.
* **bwmcli**: what it says of a device is so; devices that others have configured are left
  alone; the configuration is within its limits; a failed enable leaves nothing in force.

## Modules

    IDManager <- EdtMaps <- BwmDaemon, FlowServer <- DaemonFlows
    QosService                        (refined by BwmDaemon and by DaemonFlows)
    NlAttrs <- NlLink, NlLinkSet, NlTc, NlRoute <- NlObjects
    AlgDaemon    TcEdt    TcSetup    Bwmcli    NlSocket

    BwmDaemon <- BwmDaemonProofs <- DaemonFlowsProofs -> DaemonFlows
    AlgDaemon <- AlgDaemonProofs       TcEdt  <- TcEdtProofs       NlSocket <- NlSocketProofs
    TcSetup   <- TcSetupProofs         Bwmcli <- BwmcliProofs      NlObjects <- NlObjectsProofs

An arrow points to the module that is extended. `MC...` modules instantiate `BwmDaemon`,
`DaemonFlows`, `AlgDaemon`, `TcEdt` and `Bwmcli` for TLC. Operators whose name states a fault (`ReleaseKeepsPodInfo`, `ClassIdOffByOne`,
`NextRoundPastEnd`, ...) are the faulty variants with which the checks are tested; no
specification uses them.

### IDManager (`cmd/daemon/idmanager/idmanager.go`)

The four maps, and each method as an action on them: one atomic step, because every
method holds the mutex for its whole body. A missing map entry is `None`. Of a `PodInfo`
only the local id and the address are kept. `InsertProcessInfo` writes the reverse entry
to `podIdMap`, as the code does. `ReleaseByPodId` has no caller and is left out.

### EdtMaps (`pkg/bpfgo/tc_bpf.go`)

The id maps and configuration arrays as `bwm-daemon` writes them, one step per system
call. A configuration is abstracted to the pod or flow whose request it was computed
from: that tells a pod's own limits from another's. `Classify` is the order of lookups by which
`bwm_tc_egress` and `bwm_tc_ingress` find a packet's class id. A write beyond the array is refused,
and the callers drop that error.

### BwmDaemon (`cmd/daemon/rpcserver/rpcserver.go`, `cmd/daemon/main.go`)

For each sandbox a program counter and the local `podInfo` of its `SetQos` and its
`UnSetQos` handler; one action per call, named after the call. Reading the pod, parsing
the annotations and `AllocatePodId` are one step: what is read before does not change,
and a failure leaves no trace. The node (`sandbox`, `ip`, `phase`, `annotation`) is
external: container ids are fresh for every sandbox, addresses are free again after the
DEL, a pod starts after its ADD has succeeded and disappears from the API server some
time after its sandbox.

`Spec` is one run of the daemon under a kubelet whose calls for one sandbox follow each
other. `FaultSpec` adds the end of the process at any point, the start-up in the steps of
`Run()` (recovery, maps opened, list taken, restore loop call by call), the panic on the nil
`bpf.Edt`, and, by constants, RPCs that arrive during the start-up (`EarlyRpc`) and calls
on which the CNI client gives up while their handler goes on (`CniTimeout`): a DEL then
starts while the `SetQos` of the sandbox still runs (`UnSetQosAfterTimeout`), and kubelet's retry of
a DEL runs beside the `UnSetQos` of the first try (`UnSetQosGivenUp`, whose handler goes on in
`UnSetQosLate`; `MaxLate` bounds the sandboxes this happens to). `swept` is a history variable:
the sandboxes whose key such a late handler has deleted.

### QosService (what `bwm-daemon` promises)

The abstract service as the node sees it: sandboxes, their addresses, which grants stand, and for
every address and direction the stream its traffic is classified as and the limits of that stream. A step is
one pod's: it may change that pod's streams and limits while its grant is being made or
withdrawn, and nothing of any other pod. `ImplementsService` in `BwmDaemon` maps the maps
to it: the stream of an address is what the data path's lookup finds (`StreamOf`), its limits
the configuration under that id (`LimitOf`).

### FlowServer (`cmd/daemon/rpcserver/ctlrpcserver.go`) and DaemonFlows

`SetFlow` and `UnSetFlow` in the same manner. The calls for one flow follow each other, as
when one operator types them; handlers of different flows interleave. The error of the id
map update is dropped, as the code drops it. `DaemonFlows` composes both halves of the gRPC
service on the one id manager and the one set of maps: a step of either half leaves the
other's own variables alone. It is one run of the daemon, without crashes.

### AlgDaemon (`cmd/alg-daemon/algproc/daemon_proc.go`)

`DaemonProc.Run` for one direction: the two batch reads, the first loop (`allocMinRate` for
all active objects) as one step, the second loop one round per step with all its
counters, and the batch write. Integer division and truncation are kept; the ratio is in
tenths. Rates are small integers; the data path is an input that may measure any rate of
`Rates`. `Concurrent` says whether the arrays may change while a cycle is under way. `seen` is a
history variable: the configurations as the cycle read them, since the cycle overwrites the request
rates of its copy.

### TcEdt (`pkg/bpfgo/bpf/tc_edt.c`)

The packets of one object in one direction, on several CPUs, over the object's one
statistics entry. A packet is the step sequence of `egress_edt_handle` (`ingress_edt_handle`
is the same over the other maps): look the entry up, `stat_init` when its rate is 0, count,
drop or compute the departure, record it, then `update_rate`. `t_last` is read for the drop
test, read again for the departure and written later, in three steps, because no lock holds
them together; times wrap at `Word`. Packets have length 1 and a fixed delay at the request rate;
stamps lie at most `MaxDelay` ahead. `Scale` stands for the nanoseconds per second; after a long
period the estimate falls to 0, and `stat_init`, which takes the entry for a fresh one, clears
`t_last` again. `departure`, `departed`, `sampled`, `overlapped`, `tcpSeen`, `rewound` and `cleared` are
history variables of the properties; `cleared` says that `stat_init` has run since the last
departure was recorded.

`rewound` says that a write has taken `t_last` back: a CPU that read it early writes late, or a
`stat_init` clears it after others have moved it on. From three CPUs on the bound does not hold after
that: CPUs that read the low value pass the test, and add their delays to a high value that is
written next. Without such a write `BacklogBounded` holds for any number of CPUs.

### TcSetup (`cmd/alg-daemon/main.go`, `pkg/tc/netlink.go`, `pkg/bpfgo/utils.go`)

`runAlg` as far as it changes the kernel's network configuration: the functions it calls, in
order, and the deferred ones in reverse, each with its failures and the part of its commands
a failure leaves behind. The kernel's state (what is attached to the NIC, the ifb device, the
ingress filters) outlives the process, which can be killed anywhere (`Kill`) and is started
again (`Start`). `Custom` is the build, `Foreign` the priorities of other matchall filters; nobody
else uses priority 2. A redirect holds on to the device it was made for, so devices carry an
index that is never reused; a filter knows whether its action was sent. `faulty` is a history
variable.

### The netlink library (`NlAttrs`, `NlLink`, `NlLinkSet`, `NlTc`, `NlRoute`, `NlObjects`)

An object is the set of its fields that are set; a message is a function from attributes to
the set of fields whose value they carry, so an attribute that carries the wrong field, two
fields or none is seen. For each kind the encoder (`linkModify`, `filterModify`,
`EncodeActions`, `qdiscPayload`, `classPayload`, `routeHandle`, `ruleHandle`, `neighHandle`,
`addrHandle`) and the decoder are tables of which attribute a field goes to and under which
conditions; what those conditions test (another field, the family, the kind) is kept.
`NlLinkSet` has the calls that change a link that exists, in sequence. `NlObjects` is the state
machine: a program writes an object, or changes one by several calls, reads it back, or lists
through a mask. The kernel (external) keeps what it is sent.
`NlAttrs` has a merge of messages (`@@`) of its own, so that the proofs can expand it. The
object is the struct that a program hands to the library, in the units of the struct: what
the constructors compute before (`NewHtbClass` and `NewNetem` divide by 8, turn percentages and sizes into
ticks) is not in it. A conversion inside encoder and decoder is: a police burst goes through
`Xmittime` and `Xmitsize` and comes back rounded. Of the lists `RouteListFiltered` is modelled, the
one whose filter is more than a comparison field by field.

`...NotReturned` lists, per kind, the fields that the code loses between write and read; the
list is stated below. Everything else must come back.

### NlSocket (`nl/nl_linux.go`, `handle_linux.go`)

`NetlinkRequest.Execute`: requests of several threads on a handle's shared socket (mutex, own
sequence numbers, an answer stays queued when a request gives up) and on sockets of their own
(closed at the end). One step per lock, send, receive and message of a datagram. The kernel is
external and works inside `sendto`: it answers or refuses at once, and goes on with a dump
each time the socket is read. `Wanted` is what a successful request must return: one message,
none, or every part of the dump in order. Faults: a stranger's datagram, an overrun, a failing send; a
receive may time out or be interrupted at any time.

### Bwmcli (`bwmcli/bwmcli.c`, `bwmcli/ko/bwm.c`)

Any number of processes, each running one command: enable or disable one device or all
(`ForeachEthdev` with its rollback), `-s bandwidth`, `-s waterline`; the last two also through the
files of `/proc/qos`, which keep what they were given when the command ends well. One step per
`system()` and per access to `throttle_cfg`. tc is external: of a device it keeps the kind of its
root qdisc, whether it has a clsact qdisc and the egress filters. A root qdisc is told apart by
what `DefaultTc`'s greps find in its listing: the default's name, that name as a part of another
(`similar`) or below the root (`mixed`), `noqueue` of a virtual device, or none of them. A process can be
killed anywhere, a shell may fail to start, and tc may refuse to add or to delete; the code ignores
a refused deletion. `told`, `given` and `upset` are history variables: what was printed last, what
the first command found, and what has happened so far (`overlap` of two commands, `kill`, `fork` failed,
`refused` deletion of filter or clsact qdisc in a disable, a setting `early`, before the first enable
has succeeded, or from the `shell`, so that the files do not show it); each property says which of these it bears.

## Runs

| run | instance | shows |
|---|---|---|
| `daemon_safety` | 2 sandboxes, 2 addresses, 2 pod ids of which one is beyond the arrays, a flow and a flow of port 0 over 1 flow id | `TypeOK`, `FlowTypeOK`, `NoSharedId`, `QosInForce`, `NoResidue`, `FlowInForce`, `FlowNoResidue` hold under every interleaving, with failed patches and updates and retried ADDs; `ImplementsService`: every step is one of `QosService` |
| `daemon_faults` | 2 sandboxes over 1 address and 1 pod id, 1 restart, early RPCs, timeouts of ADD and DEL, 1 late DEL | `StaysClassified` holds |
| `daemon_live` | 1 sandbox, 1 id, 2 restarts, early RPCs, timeouts of ADD and DEL, 1 late DEL | `DelReclaims` holds under fairness |
| `daemon_restore` | 2 sandboxes, 1 restart | `RestoredInForce` fails: see below |
| `alg_safety` | 3 objects, 2 writes of the daemon | `TypeOK`, `NoDivideByZero`, `NoOvercommit`, `GuaranteeFirst` hold |
| `alg_lost` | 2 objects, concurrent writes | `GuaranteeKept` fails |
| `edt` | 2 CPUs, 5 packets, TCP and not | `TypeOK` holds, `BytesAccounted` and `Paced` for packets handled one after the other, `Paced` unless `stat_init` has cleared `t_last` in between; `BacklogBounded` (`MAX_DELAY_STAMP` plus a packet per CPU) for all, while no late write takes `t_last` back |
| `tc_custom` | custom build, 3 starts, filters before and after priority 2 | `TypeOK`, `InForce`, `NoDeadRedirect`, `CleanStop` hold |
| `tc_default` | default build, same | `InForce` fails |
| `nl_objects` | all kinds, up to 3 fields set, up to 2 changes; lists of routes with up to 3 fields in the mask, and routes that differ from the filter in up to 2 | `ReadBack`, `FilterHonoured` hold |
| `nl_socket` | 2 threads, 2 shared requests and 1 private, dumps of 2 parts, 1 fault | `TypeOK`, `OwnAnswer`, `OwnErrno` hold; `ExecuteReturns` under fairness |
| `bwmcli` | 2 processes, 2 devices on 2 hosts, 3 commands, 1 interruption, failed fork or refused deletion | `TypeOK`, `ConfigSound`, `ForeignKept`, `AsTold`, `ShownInForce`, `RollbackComplete` hold |

**Bounds.** Two sandboxes over two addresses let an id and an address pass from one to the
other while the other's handlers run; the two flows compete for one flow id, and the one of port 0
has the key of the pod at its address; one pod id lies within the arrays and one beyond. In
`daemon_faults` the one address passes from a sandbox to the next, so that a late handler of the
first meets the second's key; `StaysClassified` says nothing of configurations, and the id lies beyond the
arrays, which keeps them out of the states. `DelReclaims` is about one sandbox and what the daemon remembers of it, so
`daemon_live` has one, with every fault. One restart suffices for every place at which a handler can be
cut off; the second one of `daemon_live` cuts off a start-up. What these bounds leave open in `daemon_safety` is proved for all of them.
Three objects of two priorities let every branch of the second loop be taken, the change of
`AllObjStatus` in its middle included; two writes configure both objects beside the default
stream, or configure and clear one. Five packets fill the backlog of the data path, drop one,
and end a period; the times suffice for a period so long that the estimate falls to 0; two CPUs are the least that race. Three starts let a run meet what two runs before it left. A field's fate depends on at most two others in every
encoder and decoder, so three fields at a time meet every dependency; two calls are one that sets
and one that disturbs. Two shared requests and one left-over answer are the least in which an
answer can be taken by the wrong one; with the private one the two sequence counters meet.
Three commands let a pair overlap after an earlier one has changed the host, or an enable of all
devices fail after one was enabled alone. One host has two devices that an enable takes, a virtual one
(`noqueue`) and one with another's root qdisc whose name has the default's in it; the other has two that it
does not, with another's root qdisc, and with another's clsact qdisc and filter. The other kinds of
devices are left to the theorems.

`daemon_faults`, `daemon_live`, `daemon_restore`, `edt`, `tc_*` and `bwmcli` do not check deadlock: every sandbox has a
fresh id and is used once, so the system stops when all are gone, and kubelet need not call;
packets, starts and commands end at their bounds.

**Fairness.** A handler that has started runs to its end (weak fairness of its steps: the Go
scheduler is fair and no call blocks for ever); kubelet retries a DEL until it succeeds;
the daemon set restarts a daemon that has ended, and `Run()` goes on; a handler whose client
has given up runs to its end too. Nobody has to retry an
ADD, and errors and crashes are never forced or excluded. In `NlSocket` a thread that can
take a step takes one; no send is counted on to fail and no receive to time out, so
`ExecuteReturns` rests on the kernel's answers alone, which `sendto` leaves in the queue before it returns.

**Symmetry** of sandboxes, addresses, CPUs and processes is used in the runs that check safety only.

## Where code and documents disagree

* `daemon_restore`: the start-up says it restores the QoS of the existing pods
  (`cmd/daemon/main.go:133`), but recovers Running pods only (`k8sclient.go:145`). A pod that
  is configured and still Pending loses its id to the next pod.
* `alg_lost`: the batch write of a stale copy (`daemon_proc.go:235`) loses a configuration
  that `bwm-daemon` entered in the same cycle.
* `tc_default`: the default build adds a `matchall` filter, for which `filterModify` sends
  nothing (`filter_linux.go:330`): neither the redirecting action nor the class id. The filter is
  there, and redirects nothing. Only `dhcmatchall` filters are deleted at the end
  (`pkg/tc/netlink.go:158`), and the next start takes the one that stays for its own (`netlink.go:94`).

More show in the models without a run of their own.

* `cmdDel` relies on a gc thread (`cmd/cni-plugin/main.go:97`); there is none. A sandbox revived
  by a restart after its DEL holds its id for ever.
* `tx_bytes` is reset after the rate is computed (`tc_edt.c:69`), under a comment that this is safe
  without a lock (`tc_edt.c:67`); what another CPU counts in between is lost to the estimate.
  `BytesAccounted` therefore claims packets that do not overlap only, and so does `Paced`; and
  `BacklogBounded` leaves out what follows a late write of `t_last`.
  `t_cur` is read before `t_start`: a CPU that has just moved `t_start` makes the other's `t_past`
  wrap around, and a period end with a rate near 0 (a step of the model).
* `InsertProcessInfo` enters flows in `podIdMap` (`idmanager.go:164`), which is documented as the
  map from pod ids to container ids; nothing reads those entries.
* `SetFlow` tests a stale `err` (`ctlrpcserver.go:47`) and reports success when the id map update has
  failed: this is why `FlowInForce` allows a flow reported set to be in no id map.
* `bwmctl` accepts port 0 (`cmd/cmdctl/main.go:104`), under which a pod's own entry is kept: such a
  flow takes over the pod's traffic, or loses its own entry to the pod. For an address with such a flow (`Contested`) the
  properties of the pod handlers promise no class id; that pod's configurations, and all
  other pods and flows, are not affected.
* Pod ids go to 5999 and the configuration arrays have 5000 entries (`idmanager.go:15`): the configuration of an
  id from 5000 on is refused, the error is dropped, and the pod is classified but not throttled.
  `QosInForce` therefore promises a configuration for ids within the arrays only.
* The handlers do not look at their contexts. A `SetQos` that outlives the DEL of its sandbox
  (`cnirpc.go:57`) enters the sandbox in the id manager again (`rpcserver.go:99`), and nothing
  reclaims the id: `DelReclaims` names this case. An `UnSetQos` whose client has given up (`cnirpc.go:71`)
  deletes the key of its old address when that is another pod's by then, and this pod's traffic falls to the
  default stream: `StaysClassified` excepts the pods this has happened to (`swept`).
* `stat_init` takes a rate estimate that has fallen to 0 for a new entry and clears `t_last`
  (`tc_edt.c`): after a long idle time a packet may leave before the departure already
  promised to the one before. `Paced` excepts the packet that follows (`cleared`).
* `Clip` is called with a lower bound above the upper one when an object's low rate is below
  `MinBandwidth` (`daemon_proc.go:153`): the adjusted request is then below the floor that
  `alg-daemon/main.go:26` states.
* `RunRpcServer` reports its failure on an unbuffered channel that nobody reads (`cnirpc.go:115`):
  the daemon stays up without a server.
* `DefaultTc` says that only devices with the default qdisc or none can be enabled
  (`bwmcli.c:609`), but greps the listing for the default's name: an administrator's root qdisc with
  default ones below it, or one whose name has the default's in it (`fq` is in `sfq` and `fq_codel`), is
  deleted. `ForeignKept` claims the other devices only.
* A disable ignores what its tc commands return (`verifyRet`, `bwmcli.c:566`) and prints "disable
  success": when tc refuses both the filter and the clsact qdisc, the filter is still there. `AsTold` and
  `RollbackComplete` except this (`refused`).
* A failed enable may leave `throttle_cfg` pinned with a zero interval. A bandwidth set then is replaced by the
  default when the next enable succeeds (`bwmcli.c:1132`), while `/proc/qos` goes on showing it. `ShownInForce`
  allows such an early setting to have become the default, and nothing else.
* An enable that could not add its filter is "cleared" by a disable that does nothing without
  one (`bwmcli.c:682`): fq and clsact stay, and the next enable finds "other TC" and reports success.
* Killed between the filter and `InitCfgMap`, `bwmcli` leaves a device that every later enable
  calls enabled, with an all-zero configuration: its offline traffic is not limited.
* A `-s` that read `throttle_cfg` before another command's write undoes that write; one that read
  before the first `InitCfgMap` can write the zero interval back. `AsTold` and `ShownInForce` leave
  overlapping commands out for this reason.

**What the netlink library does not return** (`...NotReturned`; each line is a field that is
given, and lost or changed):

* links: vxlan `PortLow`/`PortHigh` (the condition is inverted), its `VxlanId` under `FlowBased`
  (cleared in the caller's object); gretap `IKey` and `OKey` come back swapped; `Link` of gretap,
  gretun, iptun, ip6tnl, sittun and vti; sittun `EncapLimit`; `FlowBased` of geneve and iptun (put at
  the wrong level); geneve's UDP checksum fields and `Link` (never sent); a vti's IPv6 `Remote`
  beside an IPv4 `Local`; gtp `PDPHashsize`; macvlan `MACAddrs`; VF GUIDs; `LinkSetVfVlan`
  zeroes the VF's QoS, as `ip link` does; the two bridge setters send the whole of an old copy;
* tc: the actions and class id of matchall; police `Mpu` and cell logs, its burst (rounded to ticks) and
  without a rate its overhead and link layer; u32 keys when their slice has spare capacity (the
  copy is sized by `cap` and has more keys than were given), `RedirIndex` beside a mirred action (it
  is read from any such action), and the actions beside a `RedirIndex`; flower `EncDestIP` with the mask of `EncSrcIP`; fq `PacketLimit`, fq_codel
  `Target`; the low three bits of hfsc slopes;
* routes: the headroom of a bpf encapsulation; encapsulations of nexthops other than MPLS; `NewDst`
  other than MPLS, `ILinkIndex`, `Family`; MPLS labels beyond 20 bits;
* rules: `TunID` (written in 4 bytes, read in 8), the suppressors with a table from 256 on, `Family`;
* neighbours: `HardwareAddr` beside `LLIPAddr`, an IPv6 `LLIPAddr`; addresses: the own mask beside a
  peer, label and broadcast of IPv6 (a computed broadcast is written into the caller's object);
* lists: `RouteListFiltered` does not look at the hop limit when the destination is in the mask, lets
  `RT_TABLE_UNSPEC` agree with every table, and takes equal MPLS destinations for equal destinations.

## Proofs

TLC checks the instances above; the theorems hold for every value of the constants that meets the
assumptions of the modules (`...Assumption`: id ranges are naturals with the flow ids below the pod
ids, `None` is none of the values, limits are ordered as the headers order them, ...) and those
named here.

| module | theorem | states | assumes |
|---|---|---|---|
| `BwmDaemonProofs` | `TypeCorrect` | `Spec => []TypeOK` | |
| | `IdsNotShared` | `[]NoSharedId` | |
| | `QosStaysInForce`, `PodTrafficClassified` | `[]QosInForce`; every packet of a pod whose `SetQos` stands is classified as the pod's own | |
| | `FaultTypeCorrect`, `ClassifiedThroughFaults` | `FaultSpec => []TypeOK`, `FaultSpec => []StaysClassified` | |
| | `NothingLeft`, `ServiceImplemented` | `[]NoResidue`; `BwmDaemon` implements `QosService` | |
| `DaemonFlowsProofs` | `FlowTypeCorrect` | `FlowSpec => []FlowTypeOK` | |
| | `FlowsStayInForce` | `FlowSpec => [](FlowInForce /\ FlowNoResidue)` | `MaxFlowID < MapSize` |
| | `PodsStayUndisturbed`, `FlowsStayInForceAmongPods`, `DaemonImplementsService` | the composition keeps all of it | `MaxFlowID < MapSize` |
| `AlgDaemonProofs` | `AllocTypeCorrect`, `DivisorsPositive`, `NeverOvercommitted`, `GuaranteesServedFirst` | `[]TypeOK`, `[]NoDivideByZero`, `[]NoOvercommit`, `[]GuaranteeFirst` | |
| `TcEdtProofs` | `EdtTypeCorrect`, `BytesAccountedFor`, `BacklogStaysBounded` | `[]TypeOK`, `[]BytesAccounted`, `[]BacklogBounded` | |
| | `PacketsPaced` | `Paced` | |
| `TcSetupProofs` | `SetupTypeCorrect` | `[]TypeOK` | |
| | `SetupInForce`, `SetupUndone`, `CleanlyStopped` | `[]InForce`, `[]NoDeadRedirect`, `[]CleanStop` | the custom build |
| `NlSocketProofs` | `SocketTypeCorrect`, `AnswersOwn`, `ErrnosOwn` | `[]TypeOK`, `[]OwnAnswer`, `[]OwnErrno` | |
| `NlObjectsProofs` | `ObjectsReadBack`, `FiltersHonoured` | `[]ReadBack`, `[]FilterHonoured` | |
| `BwmcliProofs` | `BwmcliTypeCorrect`, `ConfigStaysSound`, `ForeignStaysKept` | `[]TypeOK`, `[]ConfigSound`, `[]ForeignKept` | |
| | `StateAsTold`, `RollbackLeavesNone`, `ShownStaysInForce` | `[]AsTold`, `RollbackComplete`, `[]ShownInForce` | |

The code meets `MaxFlowID < MapSize`: flow ids go to 999 and the arrays have 5000 entries. The
default build is not the custom one, and `tc_default` shows that it fails.

**Ids and QoS without crashes.** `NoSharedId` is not inductive, since `InsertPodInfo` overwrites both
maps with what the handler remembers. `IdInv` adds that `podIdMap` and `containerIdMap` agree
(`PodChain`), and that the `podInfo` a running handler remembers is still the sandbox's entry
(`SetQosHolds`, `UnSetQosHolds`): only the sandbox's own handlers change it, and they do not
overlap. So an insert changes nothing and a release frees only its own id. For `QosInForce`,
`SetQosDone` says that what a `SetQos` has written so far is still there; it holds because
two sandboxes with entries differ in id and in address (`Apart`), so every write
of another handler goes elsewhere. Each lemma has one step per action; the temporal
theorems combine `Init => Inv` and `Inv /\ [Next]_vars => Inv'`.

For `NoResidue` the other direction is needed (`ResidueInv`): every id in use is held by a sandbox
with an entry (`IdChain`), every class id in the id maps is that of the sandbox at the address (`Marks`), every
configuration belongs to the holder of its id (`Configs`), and a DEL has cleared what its step
says (`Cleared`). With both, every step changes the streams and limits of its own pod only: the
refinement.

An id beyond the arrays has no configuration (`CfgAt`), and a contested address no class id that
is the pods' business (`MarkAt`), so that the theorems need no assumption on either.

**With crashes, restarts, early and timed-out calls** ids are shared after a restart
(`daemon_restore`), so little of `IdInv` survives. What survives is about addresses. A `podInfo` of a sandbox that has an
address names that address, be it in the id manager, in a handler or in the annotations from which
a start-up recovers (`AddressKnown`); the restore loop, and a handler whose client has given up, have the
`podInfo` they are about to use (`CallerlessKnow`); and `UnSetQos` runs only for a sandbox
that is being deleted (`Deleting`), whose address no other sandbox has. So every step leaves the id maps alone,
enters a class id, takes out the entry of a sandbox under deletion, or is a late handler's, which puts the
sandboxes whose key it deletes into `swept` (`StillEntered`).

**Composition.** It is proved by framing. `FlowView` is all that the flow invariants speak of, `PodView`
all that the pod invariants speak of; a step of one half leaves the other's view as it is, since
ids are from disjoint ranges and a flow's key is a pod's only when its port is 0, at a contested
address (`HalvesApart`), and an unchanged view keeps the invariant.

**Allocation.** `AlgInv` follows the second loop over the objects it has still to come to (`Pending`).
`Counts`: the divisor before low rates are reached, `K` (the active objects less those counted as reached
or down), covers every pending object that needs its low rate; the count of a priority covers the pending
objects of it that are counted; `allocDivide` is at least the sum of the weights of the priorities in use. All
three hold again after each of the branches that change the counters, which is why no divisor
is 0. `Bound`: before low rates are reached an object gets at most `remainBw \div K + 1`, and `K` only
shrinks; afterwards an object of a priority gets that priority's `Quota`, and the weights
add up to no more than `allocDivide`. The two ways of sharing never mix in one cycle: `AllObjStatus`
changes only when every object that needed its low rate was passed over. `Serves`: an object below its low
rate that was already served is still counted in `K`, so none of those that have reached theirs
is given a share. What is committed is the sum of the request rates, and the sum changes by one object
per round. The facts about sums are proved from the library's fold itself: its recursion over the
subsets of a finite set, and that the order of summing does not matter, by taking a smallest subset for which they
fail (`Smallest`, from the well-foundedness of strict inclusion). None of it depends on `Concurrent`: what
`bwm-daemon` writes in the meantime is not in the copy the cycle works on.

**Data path.** `TypeInv` counts the packets at each step (`Counted`), so that no counter passes the number of
packets, and says that a sampling period has a length. While packets do not overlap (`AloneInv`), one CPU is at work and the
bytes are in `tx_bytes`, or in the period just closed (`BytesKept`), whose start is that CPU's own
(`OwnPeriod`). For `Paced`, `t_last` is not before the latest
departure (`Following`), unless `stat_init` has cleared it since. For the backlog, each CPU that has passed the test and not
yet written adds at most one delay (`Waiting`, counted by `Ready` against `Limit`), and a value that is
about to be written is at most that far ahead (`OneAhead`).

**Set-up.** `InForce` needs to know that a filter of priority 2 is a redirect to the present
device (`RedirectInv`), since a start that finds one adds none; that holds because the device
is destroyed only after all filters of the type are deleted, and a new one is made only
when there was none. `SetUpInv` follows the calls made so far, `UndoneInv` the deferred ones, and
`IndexInv` says that a start makes at most one device.

**Netlink requests.** A number that was not yet given out occurs in no queue (`NumbersInv`, `Quiet`), and the
numbers of a handle's requests are unique; this is why what an earlier request has left cannot be taken for an
answer. A request that waits is either not yet answered or has of its answer the datagrams from
the next one to the last one sent, once each and in order (`Holds`), with the rest to come
from the kernel's dump (`Awaiting`). Appending the datagram of another, or taking one off the queue, keeps
this; `Kept` frames the threads that do not move. Refusals get an invariant of their own
(`ErrnoInv`): every errno in a queue or a batch is of a request that the kernel has refused on that socket.

**Netlink objects.** TLC goes through the objects with up to three fields; the theorems hold for objects with
any number of them, any number of setters in sequence, and any mask. For every kind a lemma
(`...Returned`) says that the decoder, applied to what the encoder makes of an object, gives each field
that is not in `...NotReturned` its own value: where the field is encoded, whatever other fields decide that, it
is decoded too, and no other field of the object is taken from its attribute. `Inv` carries this from the write to the read: until it is read, the message in the kernel is
what the encoder made, or, for a link that is changed, has under each attribute what the last
call for it has sent (`WrittenRight`). There each call leaves the attributes of the others alone (`Kept`) and sends the
values it was given for its own (`Sends`), with `reverted` for what an old copy of a bridge writes back. For
`RouteListFiltered`, the least index of a case of the switch that matches decides (`LeastOf`); a case before the
destination's matches only to reject, an unspecified table never does, and after the destination only
the hop limit is left (`RouteListedIs`).

**bwmcli.** The first invariant is about what a process knows before its next step: a copy that is about to be
written is sound (`CopySound`), and a device that is about to be changed was not somebody else's
when the first command found it (`DeviceOwn`). A process learns the latter from `DefaultTc`, or from a
filter that only `bwmcli` can have put there (`GivenClean`). `StepMoves` follows the process, `StepHost` the
host; neither depends on what the other processes do. `AsTold`, `RollbackComplete` and `ShownInForce` are
claimed of commands that do not overlap, and do depend on it: then what a process has
looked up is still so at its later steps (`Looked`, `Seen`, `Fresh`), a rollback has freed the devices it has passed
(`RolledBack`), and the others are as they were last told (`CalmInv`). `ShownInForce` bears refusals and failed
forks too: while commands come one at a time, a process that is about to write still knows the entry
(`SeqInv`), and the value in `throttle_cfg` is kept by every command but the one that changes it, and by
`InitCfgMap`, which finds nothing but an early setting to replace (`ShownInv`).

**Only model-checked.** Liveness under fairness (`DelReclaims`, `ExecuteReturns`), which the prover does not
reach. Every safety property of a passing run is proved. The three violations are counterexamples and need no
proof.

## Not modelled

* Of the netlink library: subscriptions, xfrm, conntrack, ipset, devlink, rdma, generic netlink
  and the other families that BeeQos does not use; the constructors of objects; the filters of the lists
  of rules, neighbours and addresses (`RuleListFiltered` drops a rule without source or destination also
  when the filter has none, `rule_linux.go:270`); sockets closed while in use; descriptors
  that leak when a socket option or a later family fails (`nl_linux.go:501`).
* Of `bwmcli`: the packet program `bwm_tc.c`, whose steps are those of `tc_edt.c` for one object with a
  choice of two rates; the priorities of cgroups (of which one is lost when the new program cannot be
  attached after the old one is detached, `bwmcli.c:428`); what `-p` and the files for statistics
  print (the flag that ends their recursion is shared by all readers, `bwm.c:301`).
* Flows across a restart of `bwm-daemon`: they are not recovered, and no document says they are.
* The LRU eviction of the kernel's id maps: a hazard without a property.
* The build of the data path in which `skb->priority` carries the class id.
* Generated gRPC and bpf2go code, other vendored libraries, the example kernel modules (copies
  of the kernel's), annotation and argument parsing, veth discovery, printing, test scripts.

## Plan

Done: the id manager, maps, pod and flow handlers, their faults, abstract service, composition
and proofs; the allocation, the data path, the tc set-up, the netlink library's requests and `bwmcli`,
each with its proofs; the netlink library's objects and theirs. What could follow: request rates that change
while packets wait, `bwm_tc.c` as a second instance of the data path, and crashes in
the composition of pods and flows.
