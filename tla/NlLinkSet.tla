----------------------------- MODULE NlLinkSet -----------------------------
(***************************************************************************)
(* Changes to a link that exists (link_linux.go, LinkSet...): each call    *)
(* sends one request for the link's index, with the attributes below, and  *)
(* the kernel keeps the others.  o is the set of the call's arguments that *)
(* are not zero.  The calls do not touch the caller's copy of the link,    *)
(* but for the bridge's, which send that copy again.                       *)
(***************************************************************************)
EXTENDS NlLink

-----------------------------------------------------------------------------
(* Flags: the bit in Change, and in Flags or not.                          *)

LinkSetARPOff == Put({"NoARP"}, {"NoARP"})
LinkSetARPOn == Put({}, {"NoARP"})
SetPromiscOn == Put({"Promisc"}, {"Promisc"})
SetPromiscOff == Put({}, {"Promisc"})
LinkSetAllmulticastOn == Put({"Allmulti"}, {"Allmulti"})
LinkSetAllmulticastOff == Put({}, {"Allmulti"})
LinkSetMulticastOn == Put({"Multi"}, {"Multi"})
LinkSetMulticastOff == Put({}, {"Multi"})
LinkSetUp == Put({"FlagUp"}, {"FlagUp"})
LinkSetDown == Put({}, {"FlagUp"})

\* NoARP is to be seen in RawFlags only.
LinkDeserializeFlags(m) == Get(m, {"NoARP", "Promisc", "Allmulti", "Multi"})

-----------------------------------------------------------------------------
(* Attributes.  A master is another device: none is asked for by           *)
(* LinkSetNoMaster, and LinkSetMaster refuses a device without index.      *)

LinkSetMTU(o) == Put(o, {"MTU"})
LinkSetName(o) == Put(o, {"Name"})
LinkSetAlias(o) == Put(o, {"Alias"})
LinkSetHardwareAddr(o) == Put(o, {"HardwareAddr"})
LinkSetMaster(o) == PutIf(o, {"MasterIndex"})
LinkSetNoMaster == Put({}, {"MasterIndex"})
LinkSetBondSlave(o) == PutIf(o, {"MasterIndex"})
\* A program replaces the one before it, with its flags.
LinkSetXdpFd(o) == addXdpAttrs(o) @@ Put({}, {"Xdp.Fd", "Xdp.Flags"})
LinkSetTxQLen(o) == Put(o, {"TxQLen"})
LinkSetGroup(o) == Put(o, {"Group"})

\* A namespace is named by a process or by a file: either attribute moves the
\* link, and reading it there is another link's business.
LinkSetNsPid(o) == PutAs(o, [Namespace |-> "NET_NS_PID"])
LinkSetNsFd(o) == PutAs(o, [Namespace |-> "NET_NS_FD"])

\* The kernel keeps the source addresses one by one.
MacAddrs == {"MACAddr1", "MACAddr2"}
macvlanMACAddrChange(m, mode, addrs) ==
    CASE mode = "ADD"   -> Put(addrs, addrs) @@ m
      [] mode = "DEL"   -> Put({}, addrs) @@ m
      [] mode = "FLUSH" -> Put({}, MacAddrs) @@ m
      [] mode = "SET"   -> Put(addrs, MacAddrs) @@ m
parseMacvlanMACAddrs(m) == Get(m, MacAddrs)

\* The mode, in the kernel's number, replaces the one before it.
LinkSetMacvlanMode(o) ==
    [a \in {macvlanModes[f] : f \in DOMAIN macvlanModes} |->
       {f \in o \cap DOMAIN macvlanModes : macvlanModes[f] = a}]

LinkSetBondSlaveQueueId(o) == Put(o, {"QueueId"})

-----------------------------------------------------------------------------
(* A virtual function of the link.  The vlan and its priority are one      *)
(* struct: LinkSetVfVlan sends priority zero, as "ip link" does.           *)

VfFields == {"Mac", "Vlan", "Qos", "TxRate", "MinTxRate", "MaxTxRate", "LinkState",
             "Spoofchk", "Trust", "NodeGUID", "PortGUID"}

LinkSetVfHardwareAddr(o) == Put(o, {"Mac"})
LinkSetVfVlan(o) == Put(o \ {"Qos"}, {"Vlan", "Qos"})
LinkSetVfVlanQos(o) == Put(o, {"Vlan", "Qos"})
LinkSetVfTxRate(o) == Put(o, {"TxRate"})
LinkSetVfRate(o) == Put(o, {"MinTxRate", "MaxTxRate"})
LinkSetVfState(o) == Put(o, {"LinkState"})
LinkSetVfSpoofchk(o) == Put(o, {"Spoofchk"})
LinkSetVfTrust(o) == Put(o, {"Trust"})
LinkSetVfGUID(o, guidType) == Put(o, {guidType})

parseVfInfo(m) ==
    Get(m, {"Mac", "Vlan", "Qos", "TxRate", "Spoofchk", "LinkState", "MaxTxRate",
            "MinTxRate", "Trust"})

-----------------------------------------------------------------------------
(* A port of a bridge.                                                     *)

ProtinfoFields == {"Hairpin", "Guard", "FastLeave", "RootBlock", "Learning", "Flood",
                   "ProxyArp", "ProxyArpWiFi"}

setProtinfoAttr(o, attr) == attr :> o

LinkSetHairpin(o) == setProtinfoAttr(o, "MODE")
LinkSetGuard(o) == setProtinfoAttr(o, "GUARD")
LinkSetFastLeave(o) == setProtinfoAttr(o, "FAST_LEAVE")
LinkSetLearning(o) == setProtinfoAttr(o, "LEARNING")
LinkSetRootBlockAsGuard(o) == setProtinfoAttr(o, "GUARD")
LinkSetRootBlock(o) == setProtinfoAttr(o, "PROTECT")
LinkSetFlood(o) == setProtinfoAttr(o, "UNICAST_FLOOD")
LinkSetBrProxyArp(o) == setProtinfoAttr(o, "PROXYARP")
LinkSetBrProxyArpWiFi(o) == setProtinfoAttr(o, "PROXYARP_WIFI")

parseProtinfo(m) ==
    GetAs(m, [Hairpin |-> "MODE", Guard |-> "GUARD", FastLeave |-> "FAST_LEAVE",
              RootBlock |-> "PROTECT", Learning |-> "LEARNING", Flood |-> "UNICAST_FLOOD",
              ProxyArp |-> "PROXYARP", ProxyArpWiFi |-> "PROXYARP_WIFI"])

\* The vlans that a port filters by.  Deleting one names the vlan, whatever flags
\* it was added with.
BridgeVlanFields == {"Vid", "PVID", "UNTAGGED"}
BridgeVlanAdd(o) == IF "Vid" \in o THEN Put(o, BridgeVlanFields) ELSE << >>
BridgeVlanDel(o) == IF "Vid" \in o THEN Put({}, BridgeVlanFields) ELSE << >>
BridgeVlanList(m) == Get(m, BridgeVlanFields)

-----------------------------------------------------------------------------
(* The bridge.  The caller's copy is changed and all of it is sent, by the *)
(* bridge's name: the attributes that the copy has, and the queue length   *)
(* whatever it is.                                                         *)

BridgeSet(copy, attr, on) ==
    (attr :> (IF on THEN {attr} ELSE {})) @@ addBridgeAttrs(copy)
    @@ linkModifyAttrs(copy) @@ linkModifyMaster(copy)

-----------------------------------------------------------------------------
(* The calls on each kind of link: the fields that a call names, the ones  *)
(* it gives a value other than zero, and what it sends.                    *)

Call(fields, o, m) == [names |-> fields, args |-> o, msg |-> m]
Calls(fields, Msg(_)) == {Call(fields, o, Msg(o)) : o \in SUBSET fields}
Switch(field, m) == Call({field}, {f \in {field} : m[f] # {}}, m)

LinkCalls ==
    {Switch("NoARP", LinkSetARPOff), Switch("NoARP", LinkSetARPOn),
     Switch("Promisc", SetPromiscOn), Switch("Promisc", SetPromiscOff),
     Switch("Allmulti", LinkSetAllmulticastOn), Switch("Allmulti", LinkSetAllmulticastOff),
     Switch("Multi", LinkSetMulticastOn), Switch("Multi", LinkSetMulticastOff),
     Switch("FlagUp", LinkSetUp), Switch("FlagUp", LinkSetDown),
     Switch("MasterIndex", LinkSetNoMaster), Switch("MasterIndex", LinkSetMaster({"MasterIndex"})),
     Switch("MasterIndex", LinkSetBondSlave({"MasterIndex"}))}
    \cup Calls({"MTU"}, LinkSetMTU) \cup Calls({"Name"}, LinkSetName)
    \cup Calls({"Alias"}, LinkSetAlias) \cup Calls({"HardwareAddr"}, LinkSetHardwareAddr)
    \cup Calls({"TxQLen"}, LinkSetTxQLen) \cup Calls({"Group"}, LinkSetGroup)
    \cup Calls({"Xdp.Fd", "Xdp.Flags"}, LinkSetXdpFd)
    \cup Calls({"Namespace"}, LinkSetNsPid) \cup Calls({"Namespace"}, LinkSetNsFd)

MacvlanCalls(m) ==
    {Call({f}, {f}, macvlanMACAddrChange(m, "ADD", {f})) : f \in MacAddrs}
    \cup {Call({f}, {}, macvlanMACAddrChange(m, "DEL", {f})) : f \in MacAddrs}
    \cup {Call(MacAddrs, {}, macvlanMACAddrChange(m, "FLUSH", {}))}
    \cup {Call(MacAddrs, o, macvlanMACAddrChange(m, "SET", o)) : o \in SUBSET MacAddrs}
    \cup {Call(DOMAIN macvlanModes, {f}, LinkSetMacvlanMode({f})) : f \in DOMAIN macvlanModes}

VfCalls ==
    {Call({"Vlan", "Qos"}, o, LinkSetVfVlan(o)) : o \in SUBSET {"Vlan"}}
    \cup Calls({"Vlan", "Qos"}, LinkSetVfVlanQos) \cup Calls({"Mac"}, LinkSetVfHardwareAddr)
    \cup Calls({"TxRate"}, LinkSetVfTxRate) \cup Calls({"MinTxRate", "MaxTxRate"}, LinkSetVfRate)
    \cup Calls({"LinkState"}, LinkSetVfState) \cup Calls({"Spoofchk"}, LinkSetVfSpoofchk)
    \cup Calls({"Trust"}, LinkSetVfTrust)
    \cup UNION {{Call({g}, o, LinkSetVfGUID(o, g)) : o \in SUBSET {g}} : g \in {"NodeGUID", "PortGUID"}}

PortCalls ==
    Calls({"Hairpin"}, LinkSetHairpin) \cup Calls({"Guard"}, LinkSetGuard)
    \cup Calls({"FastLeave"}, LinkSetFastLeave) \cup Calls({"Learning"}, LinkSetLearning)
    \cup Calls({"RootBlock"}, LinkSetRootBlock) \cup Calls({"Flood"}, LinkSetFlood)
    \cup Calls({"ProxyArp"}, LinkSetBrProxyArp) \cup Calls({"ProxyArpWiFi"}, LinkSetBrProxyArpWiFi)

PortVlanCalls ==
    {Call(BridgeVlanFields, o, BridgeVlanAdd(o)) : o \in {s \in SUBSET BridgeVlanFields : "Vid" \in s}}
    \cup {Call(BridgeVlanFields, {}, BridgeVlanDel(o)) :
             o \in {s \in SUBSET BridgeVlanFields : "Vid" \in s}}

SetFields ==
    [set_link |-> {"NoARP", "Promisc", "Allmulti", "Multi", "FlagUp", "MTU", "Name", "Alias",
                   "HardwareAddr", "TxQLen", "Group", "MasterIndex", "Xdp.Fd", "Xdp.Flags",
                   "Namespace"},
     set_bridge |-> {"FlagUp", "MTU", "Name", "Alias", "HardwareAddr", "TxQLen", "Group",
                     "MasterIndex", "MulticastSnooping", "VlanFiltering"},
     set_macvlan |-> MacAddrs \cup DOMAIN macvlanModes,
     set_bond_slave |-> {"QueueId"},
     set_vf |-> VfFields, set_port |-> ProtinfoFields, set_port_vlan |-> BridgeVlanFields]

\* The calls on a link whose attributes in the kernel are m.
SetCalls(k, m) ==
    CASE k = "set_link"       -> LinkCalls
      [] k = "set_bridge"     -> {c \in LinkCalls : c.names \subseteq SetFields[k]}
      [] k = "set_macvlan"    -> MacvlanCalls(m)
      [] k = "set_bond_slave" -> Calls({"QueueId"}, LinkSetBondSlaveQueueId)
      [] k = "set_vf"         -> VfCalls
      [] k = "set_port"       -> PortCalls
      [] k = "set_port_vlan"  -> PortVlanCalls

SetRead(k, m) ==
    CASE k = "set_link"       -> LinkDeserializeFlags(m) @@ LinkDeserializeAttrs(m)
      [] k = "set_bridge"     -> LinkDeserializeAttrs(m) @@ parseBridgeData(m)
      [] k = "set_macvlan"    -> parseMacvlanMACAddrs(m) @@ parseMacvlanData(m)
      [] k = "set_bond_slave" -> parseBondSlaveData(m)
      [] k = "set_vf"         -> parseVfInfo(m)
      [] k = "set_port"       -> parseProtinfo(m)
      [] k = "set_port_vlan"  -> BridgeVlanList(m)

\* What the library cannot show of what it sets.
SetNotReturned(k) ==
    CASE k = "set_link" -> {"Namespace"}
      [] k = "set_vf"   -> {"NodeGUID", "PortGUID"}
      [] OTHER          -> {}
=============================================================================
