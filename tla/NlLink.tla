------------------------------- MODULE NlLink -------------------------------
(***************************************************************************)
(* Links in the netlink library: what linkModify writes of a link object   *)
(* (link_linux.go, add...Attrs) and what LinkDeserialize reads of it       *)
(* (parse...Data), for the kinds of link of link.go.                       *)
(***************************************************************************)
EXTENDS NlAttrs

-----------------------------------------------------------------------------
(* LinkAttrs, common to all kinds.                                         *)

LinkAttrsFields ==
    {"MTU", "TxQLen", "Name", "HardwareAddr", "FlagUp", "FlagBroadcast",
     "FlagLoopback", "FlagPointToPoint", "FlagMulticast", "ParentIndex",
     "MasterIndex", "Namespace", "Alias", "Xdp.Fd", "Xdp.Flags", "NumTxQueues",
     "NumRxQueues", "GSOMaxSize", "GSOMaxSegs", "Group"}

linkFlags(m) ==
    Get(m, {"FlagUp", "FlagBroadcast", "FlagLoopback", "FlagPointToPoint", "FlagMulticast"})

addXdpAttrs(o) ==
    When(o \cap {"Xdp.Fd", "Xdp.Flags"} # {}, Put(o, {"Xdp.Fd"})) @@ PutIf(o, {"Xdp.Flags"})

parseLinkXdp(m) == Get(m, {"Xdp.Fd", "Xdp.Flags"})

\* The flags that are set, in Flags and Change; what is zero stays with the kernel.
linkModifyAttrs(o) ==
    PutIf(o, {"FlagUp", "FlagBroadcast", "FlagLoopback", "FlagPointToPoint",
              "FlagMulticast", "ParentIndex", "Alias", "MTU", "HardwareAddr",
              "NumTxQueues", "NumRxQueues", "GSOMaxSegs", "GSOMaxSize", "Group",
              "Namespace"})
    @@ Put(o, {"Name", "TxQLen"}) @@ addXdpAttrs(o)

\* The master cannot be set at creation: a second request sets it.
linkModifyMaster(o) == PutIf(o, {"MasterIndex"})

LinkDeserializeAttrs(m) ==
    linkFlags(m) @@ parseLinkXdp(m)
    @@ Get(m, {"HardwareAddr", "Name", "MTU", "ParentIndex", "MasterIndex", "TxQLen",
               "Alias", "GSOMaxSize", "GSOMaxSegs", "NumTxQueues", "NumRxQueues", "Group"})

-----------------------------------------------------------------------------
(* vlan, veth, ipvlan, macvlan, vrf, ipoib, xfrm, bareudp, bridge, tun.    *)

VlanFields == {"VlanId", "VlanProtocol"}
addVlanAttrs(o) == Put(o, {"VlanId"}) @@ PutIf(o, {"VlanProtocol"})
parseVlanData(m) == Get(m, {"VlanId", "VlanProtocol"})

\* A veth is two links: this is what the peer is given, and reading the peer
\* back is LinkDeserialize of another link.
VethFields == {"PeerName", "PeerHardwareAddr", "PeerNamespace", "TxQLen", "NumTxQueues",
               "NumRxQueues", "MTU"}
addVethAttrs(o) ==
    (IF "PeerName" \in o THEN PutAs(o, [PeerName |-> "Name"]) ELSE Put(o, {"Name"}))
    @@ PutAs(o, [PeerHardwareAddr |-> "HardwareAddr", PeerNamespace |-> "Namespace"])
    @@ Put(o, {"TxQLen"}) @@ PutIf(o, {"NumTxQueues", "NumRxQueues", "MTU"})
readVethPeer(m) ==
    GetAs(LinkDeserializeAttrs(m),
          [PeerName |-> "Name", PeerHardwareAddr |-> "HardwareAddr", TxQLen |-> "TxQLen",
           NumTxQueues |-> "NumTxQueues", NumRxQueues |-> "NumRxQueues", MTU |-> "MTU"])

IPVlanFields == {"Mode", "Flag"}
addIPVlanAttrs(o) == Put(o, {"Mode", "Flag"})
parseIPVlanData(m) == Get(m, {"Mode", "Flag"})
parseIPVtapData(m) == Get(m, {"Mode", "Flag"})

\* The kernel has another number for each mode: macvlanModes and the parser's
\* switch translate it, 0 being the mode that is not sent.
MacvlanFields == {"MODE_PRIVATE", "MODE_VEPA", "MODE_BRIDGE", "MODE_PASSTHRU",
                  "MODE_SOURCE", "MACAddrs"}
macvlanModes ==
    [MODE_PRIVATE |-> "1", MODE_VEPA |-> "2", MODE_BRIDGE |-> "4", MODE_PASSTHRU |-> "8",
     MODE_SOURCE |-> "16"]
addMacvlanAttrs(o) == PutAs(o, macvlanModes)
parseMacvlanData(m) ==
    GetAs(m, [MODE_PRIVATE |-> "1", MODE_VEPA |-> "2", MODE_BRIDGE |-> "4",
              MODE_PASSTHRU |-> "8", MODE_SOURCE |-> "16"])
    @@ Get(m, {"MACAddrs"})

VrfFields == {"Table"}
addVrfAttrs(o) == Put(o, {"Table"})
parseVrfData(m) == Get(m, {"Table"})

IPoIBFields == {"Pkey", "Mode", "Umcast"}
addIPoIBAttrs(o) == Put(o, {"Pkey", "Mode", "Umcast"})
parseIPoIBData(m) == Get(m, {"Pkey", "Mode", "Umcast"})

XfrmiFields == {"Ifid"}
addXfrmiAttrs(o) == PutIf(o, {"Ifid"})
parseXfrmiData(m) == Get(m, {"Ifid"})

BareUDPFields == {"Port", "EtherType", "SrcPortMin", "MultiProto"}
addBareUDPAttrs(o) == Put(o, {"Port", "EtherType"}) @@ PutIf(o, {"SrcPortMin", "MultiProto"})
parseBareUDPData(m) ==
    Get(m, {"Port", "EtherType", "SrcPortMin"}) @@ GetPresent(m, {"MultiProto"})

BridgeFields == {"MulticastSnooping", "AgeingTime", "HelloTime", "VlanFiltering"}
addBridgeAttrs(o) == PutIf(o, {"MulticastSnooping", "AgeingTime", "HelloTime", "VlanFiltering"})
parseBridgeData(m) == Get(m, {"AgeingTime", "HelloTime", "MulticastSnooping", "VlanFiltering"})

\* Tuntap links are made by ioctls on /dev/net/tun and read by netlink.
TuntapFields == {"Mode", "NonPersist", "Owner", "Group"}
tuntapIoctls(o) ==
    Put(o, {"Mode", "Owner", "Group"})
    @@ ("Persist" :> IF "NonPersist" \in o THEN {} ELSE {"Persist"})
parseTuntapData(m) == Get(m, {"Owner", "Group", "Mode"}) @@ GetZero(m, [NonPersist |-> "Persist"])

-----------------------------------------------------------------------------
(* vxlan.  FlowBased clears the id, in the caller's object too.            *)

VxlanFields ==
    {"VxlanId", "VtepDevIndex", "SrcAddr", "SrcAddr6", "Group", "Group6", "TTL", "TOS",
     "Learning", "Proxy", "RSC", "L2miss", "L3miss", "UDPCSum", "UDP6ZeroCSumTx",
     "UDP6ZeroCSumRx", "NoAge", "GBP", "FlowBased", "Age", "Limit", "Port",
     "PortLow", "PortHigh"}

addVxlanAttrs(o) ==
    Put(IF "FlowBased" \in o THEN o \ {"VxlanId"} ELSE o,
        {"VxlanId", "TTL", "TOS", "Learning", "Proxy", "RSC", "L2miss", "L3miss",
         "UDP6ZeroCSumTx", "UDP6ZeroCSumRx"})
    @@ PutIf(o, {"VtepDevIndex", "SrcAddr", "SrcAddr6", "Group", "Group6", "UDPCSum",
                 "GBP", "FlowBased", "Limit", "Port"})
    @@ (IF "NoAge" \in o THEN "Age" :> {} ELSE PutIf(o, {"Age"}))
    @@ PutStruct(o, {"PortLow", "PortHigh"})

\* The port range is taken when reading it has failed, and only then.
parseVxlanData(m) ==
    Get(m, {"VxlanId", "VtepDevIndex", "SrcAddr", "SrcAddr6", "Group", "Group6", "TTL",
            "TOS", "Learning", "Proxy", "RSC", "L2miss", "L3miss", "UDPCSum",
            "UDP6ZeroCSumTx", "UDP6ZeroCSumRx", "FlowBased", "Age", "Limit", "Port"})
    @@ GetPresent(m, {"GBP"}) @@ GetZero(m, [NoAge |-> "Age"])

-----------------------------------------------------------------------------
(* bond.  The fields of NewLinkBond are -1, and -1 is not sent.            *)

BondFields ==
    {"Mode", "ActiveSlave", "Miimon", "UpDelay", "DownDelay", "UseCarrier", "ArpInterval",
     "ArpIpTargets", "ArpValidate", "ArpAllTargets", "Primary", "PrimaryReselect",
     "FailOverMac", "XmitHashPolicy", "ResendIgmp", "NumPeerNotif", "AllSlavesActive",
     "MinLinks", "LpInterval", "PacketsPerSlave", "LacpRate", "AdSelect",
     "AdActorSysPrio", "AdUserPortKey", "AdActorSystem", "TlbDynamicLb"}

addBondAttrs(o) ==
    PutIf(o, {"Mode", "ActiveSlave", "Miimon", "UpDelay", "DownDelay", "UseCarrier",
              "ArpInterval", "ArpIpTargets", "ArpValidate", "ArpAllTargets", "Primary",
              "PrimaryReselect", "FailOverMac", "XmitHashPolicy", "ResendIgmp",
              "NumPeerNotif", "AllSlavesActive", "MinLinks", "LpInterval",
              "PacketsPerSlave", "LacpRate", "AdSelect", "AdActorSysPrio",
              "AdUserPortKey", "AdActorSystem", "TlbDynamicLb"})

parseBondArpIpTargets(m) == Get(m, {"ArpIpTargets"})

parseBondData(m) ==
    Get(m, {"Mode", "ActiveSlave", "Miimon", "UpDelay", "DownDelay", "UseCarrier",
            "ArpInterval", "ArpValidate", "ArpAllTargets", "Primary", "PrimaryReselect",
            "FailOverMac", "XmitHashPolicy", "ResendIgmp", "NumPeerNotif",
            "AllSlavesActive", "MinLinks", "LpInterval", "PacketsPerSlave", "LacpRate",
            "AdSelect", "AdActorSysPrio", "AdUserPortKey", "AdActorSystem",
            "TlbDynamicLb"})
    @@ parseBondArpIpTargets(m)

BondSlaveFields ==
    {"State", "MiiStatus", "LinkFailureCount", "PermHardwareAddr", "QueueId",
     "AggregatorId", "AdActorOperPortState", "AdPartnerOperPortState"}

addBondSlaveAttrs(o) ==
    Put(o, {"State", "MiiStatus", "LinkFailureCount", "QueueId", "AggregatorId",
            "AdActorOperPortState", "AdPartnerOperPortState"})
    @@ PutIf(o, {"PermHardwareAddr"})

parseBondSlaveData(m) ==
    Get(m, {"State", "MiiStatus", "LinkFailureCount", "PermHardwareAddr", "QueueId",
            "AggregatorId", "AdActorOperPortState", "AdPartnerOperPortState"})

-----------------------------------------------------------------------------
(* Tunnels.  In flow based mode nothing else is sent; geneve and ipip put  *)
(* that attribute beside the kind's data, where nobody looks for it.       *)

GeneveFields ==
    {"ID", "Remote", "Remote6", "Ttl", "Tos", "Dport", "UdpCsum", "UdpZeroCsum6Tx",
     "UdpZeroCsum6Rx", "Link", "FlowBased"}

addGeneveAttrs(o) ==
    When("FlowBased" \notin o, PutIf(o, {"Remote", "Remote6", "ID", "Dport", "Ttl", "Tos"}))

parseGeneveData(m) == Get(m, {"ID", "Remote", "Remote6", "Dport", "Ttl", "Tos"})

GretunFields ==
    {"Link", "IFlags", "OFlags", "IKey", "OKey", "Local", "Remote", "Ttl", "Tos",
     "PMtuDisc", "EncapType", "EncapFlags", "EncapSport", "EncapDport"}

GretapFields == GretunFields \cup {"FlowBased"}

\* A key also sets the bit GRE_KEY of its direction's flags.
GreFlags(o) ==
    [IFlags |-> (o \cap {"IFlags"}) \cup (IF "IKey" \in o THEN {"GRE_KEY"} ELSE {}),
     OFlags |-> (o \cap {"OFlags"}) \cup (IF "OKey" \in o THEN {"GRE_KEY"} ELSE {})]

addGretunAttrs(o) ==
    PutIf(o, {"Local", "Remote", "IKey", "OKey", "Link"}) @@ GreFlags(o)
    @@ Put(o, {"PMtuDisc", "Ttl", "Tos", "EncapType", "EncapFlags", "EncapSport", "EncapDport"})

parseGretunData(m) ==
    Get(m, {"IKey", "OKey", "Local", "Remote", "IFlags", "OFlags", "Ttl", "Tos",
            "PMtuDisc", "EncapType", "EncapFlags", "EncapSport", "EncapDport"})

addGretapAttrs(o) ==
    IF "FlowBased" \in o THEN Put(o, {"FlowBased"})
    ELSE PutIf(o, {"Local", "Remote", "IKey", "OKey", "Link"}) @@ GreFlags(o)
         @@ Put(o, {"PMtuDisc", "Ttl", "Tos", "EncapType", "EncapFlags", "EncapSport",
                    "EncapDport"})

\* The keys of the two directions are read crosswise.
parseGretapData(m) ==
    GetAs(m, [IKey |-> "OKey", OKey |-> "IKey"]) @@ GetPresent(m, {"FlowBased"})
    @@ Get(m, {"Local", "Remote", "EncapSport", "EncapDport", "IFlags", "OFlags", "Ttl",
               "Tos", "PMtuDisc", "EncapType", "EncapFlags"})

IptunFields ==
    {"Ttl", "Tos", "PMtuDisc", "Link", "Local", "Remote", "EncapSport", "EncapDport",
     "EncapType", "EncapFlags", "FlowBased", "Proto"}

addIptunAttrs(o) ==
    When("FlowBased" \notin o,
         PutIf(o, {"Local", "Remote", "Link"})
         @@ Put(o, {"PMtuDisc", "Ttl", "Tos", "EncapType", "EncapFlags", "EncapSport",
                    "EncapDport", "Proto"}))

parseIptunData(m) ==
    Get(m, {"Local", "Remote", "Ttl", "Tos", "PMtuDisc", "EncapSport", "EncapDport",
            "EncapType", "EncapFlags", "FlowBased", "Proto"})

Ip6tnlFields ==
    {"Link", "Local", "Remote", "Ttl", "Tos", "Flags", "Proto", "FlowInfo", "EncapLimit",
     "EncapType", "EncapFlags", "EncapSport", "EncapDport"}

addIp6tnlAttrs(o) ==
    PutIf(o, {"Link", "Local", "Remote"})
    @@ Put(o, {"Ttl", "Tos", "Flags", "Proto", "FlowInfo", "EncapLimit", "EncapType",
               "EncapFlags", "EncapSport", "EncapDport"})

parseIp6tnlData(m) ==
    Get(m, {"Local", "Remote", "Ttl", "Tos", "Flags", "Proto", "FlowInfo", "EncapLimit",
            "EncapType", "EncapFlags", "EncapSport", "EncapDport"})

SittunFields ==
    {"Link", "Ttl", "Tos", "PMtuDisc", "Proto", "Local", "Remote", "EncapLimit",
     "EncapType", "EncapFlags", "EncapSport", "EncapDport"}

addSittunAttrs(o) ==
    PutIf(o, {"Link", "Local", "Remote", "Ttl"})
    @@ Put(o, {"Proto", "Tos", "PMtuDisc", "EncapLimit", "EncapType", "EncapFlags",
               "EncapSport", "EncapDport"})

parseSittunData(m) ==
    Get(m, {"Local", "Remote", "Ttl", "Tos", "PMtuDisc", "Proto", "EncapType",
            "EncapFlags", "EncapSport", "EncapDport"})

VtiFields == {"IKey", "OKey", "Link", "Local", "Local6", "Remote", "Remote6"}

\* The local address decides the family: with an IPv4 one, an IPv6 remote
\* address has no four-byte form and is not sent.
addVtiAttrs(o) ==
    PutAs(IF "Local" \in o THEN o \ {"Remote6"} ELSE o,
          [Local |-> "LOCAL", Local6 |-> "LOCAL", Remote |-> "REMOTE", Remote6 |-> "REMOTE"])
    @@ PutIf(o, {"Link"}) @@ Put(o, {"IKey", "OKey"})

parseVtiData(m) ==
    GetPart(m, [Local |-> "LOCAL", Local6 |-> "LOCAL", Remote |-> "REMOTE",
                Remote6 |-> "REMOTE"])
    @@ Get(m, {"IKey", "OKey"})

GTPFields == {"FD0", "FD1", "Role", "PDPHashsize"}

\* The hash size is a constant; the role GGSN is 0.
addGTPAttrs(o) ==
    Put(o, {"FD0", "FD1"}) @@ PutIf(o, {"Role"}) @@ ("PDPHashsize" :> {"131072"})

parseGTPData(m) == Get(m, {"FD0", "FD1", "PDPHashsize", "Role"})

-----------------------------------------------------------------------------
(* The kinds: linkModify's and LinkDeserialize's switches over them.       *)

LinkFields ==
    [device |-> LinkAttrsFields, vlan |-> VlanFields, veth |-> VethFields,
     vxlan |-> VxlanFields, bond |-> BondFields, bond_slave |-> BondSlaveFields,
     ipvlan |-> IPVlanFields, ipvtap |-> IPVlanFields, macvlan |-> MacvlanFields,
     macvtap |-> MacvlanFields, geneve |-> GeneveFields, gretap |-> GretapFields,
     ipip |-> IptunFields, ip6tnl |-> Ip6tnlFields, sit |-> SittunFields,
     gre |-> GretunFields, vti |-> VtiFields, vrf |-> VrfFields, bridge |-> BridgeFields,
     gtp |-> GTPFields, xfrm |-> XfrmiFields, tun |-> TuntapFields,
     ipoib |-> IPoIBFields, bareudp |-> BareUDPFields]

\* The switch over the link's type; a device has no data of its own.
linkModify(k, o) ==
    CASE k = "device"     -> linkModifyAttrs(o) @@ linkModifyMaster(o)
      [] k = "vlan"       -> addVlanAttrs(o)
      [] k = "veth"       -> addVethAttrs(o)
      [] k = "vxlan"      -> addVxlanAttrs(o)
      [] k = "bond"       -> addBondAttrs(o)
      [] k = "bond_slave" -> addBondSlaveAttrs(o)
      [] k \in {"ipvlan", "ipvtap"}   -> addIPVlanAttrs(o)
      [] k \in {"macvlan", "macvtap"} -> addMacvlanAttrs(o)
      [] k = "geneve"     -> addGeneveAttrs(o)
      [] k = "gretap"     -> addGretapAttrs(o)
      [] k = "ipip"       -> addIptunAttrs(o)
      [] k = "ip6tnl"     -> addIp6tnlAttrs(o)
      [] k = "sit"        -> addSittunAttrs(o)
      [] k = "gre"        -> addGretunAttrs(o)
      [] k = "vti"        -> addVtiAttrs(o)
      [] k = "vrf"        -> addVrfAttrs(o)
      [] k = "bridge"     -> addBridgeAttrs(o)
      [] k = "gtp"        -> addGTPAttrs(o)
      [] k = "xfrm"       -> addXfrmiAttrs(o)
      [] k = "tun"        -> tuntapIoctls(o)
      [] k = "ipoib"      -> addIPoIBAttrs(o)
      [] k = "bareudp"    -> addBareUDPAttrs(o)

LinkDeserialize(k, m) ==
    CASE k = "device"     -> LinkDeserializeAttrs(m)
      [] k = "vlan"       -> parseVlanData(m)
      [] k = "veth"       -> readVethPeer(m)
      [] k = "vxlan"      -> parseVxlanData(m)
      [] k = "bond"       -> parseBondData(m)
      [] k = "bond_slave" -> parseBondSlaveData(m)
      [] k = "ipvlan"     -> parseIPVlanData(m)
      [] k = "ipvtap"     -> parseIPVtapData(m)
      [] k \in {"macvlan", "macvtap"} -> parseMacvlanData(m)
      [] k = "geneve"     -> parseGeneveData(m)
      [] k = "gretap"     -> parseGretapData(m)
      [] k = "ipip"       -> parseIptunData(m)
      [] k = "ip6tnl"     -> parseIp6tnlData(m)
      [] k = "sit"        -> parseSittunData(m)
      [] k = "gre"        -> parseGretunData(m)
      [] k = "vti"        -> parseVtiData(m)
      [] k = "vrf"        -> parseVrfData(m)
      [] k = "bridge"     -> parseBridgeData(m)
      [] k = "gtp"        -> parseGTPData(m)
      [] k = "xfrm"       -> parseXfrmiData(m)
      [] k = "tun"        -> parseTuntapData(m)
      [] k = "ipoib"      -> parseIPoIBData(m)
      [] k = "bareudp"    -> parseBareUDPData(m)

-----------------------------------------------------------------------------
(* What does not come back, kind by kind.                                  *)

LinkNotReturned(k, o) ==
    CASE k = "device"  -> {"Namespace"}
      [] k = "veth"    -> {"PeerNamespace"}
      [] k = "vxlan"   -> {"PortLow", "PortHigh"}
                          \cup (IF "FlowBased" \in o THEN {"VxlanId"} ELSE {})
                          \cup (IF "NoAge" \in o THEN {"Age"} ELSE {})
      [] k \in {"macvlan", "macvtap"} -> {"MACAddrs"}
      [] k = "geneve"  -> IF "FlowBased" \in o THEN GeneveFields
                          ELSE {"UdpCsum", "UdpZeroCsum6Tx", "UdpZeroCsum6Rx", "Link"}
      [] k = "gretap"  -> IF "FlowBased" \in o THEN GretunFields ELSE {"IKey", "OKey", "Link"}
      [] k = "ipip"    -> IF "FlowBased" \in o THEN IptunFields ELSE {"Link"}
      [] k = "sit"     -> {"Link", "EncapLimit"}
      [] k \in {"ip6tnl", "gre"} -> {"Link"}
      [] k = "vti"     -> {"Link"} \cup (IF "Local" \in o THEN {"Remote6"} ELSE {})
      [] k = "gtp"     -> {"PDPHashsize"}
      [] OTHER         -> {}

\* Two values of one field: an object has one of them.
LinkAlternatives ==
    {{"SrcAddr", "SrcAddr6"}, {"Group", "Group6"}, {"Remote", "Remote6"}, {"Local", "Local6"}}
    \cup {s \in SUBSET DOMAIN macvlanModes : Cardinality(s) = 2}
=============================================================================
