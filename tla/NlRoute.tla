------------------------------ MODULE NlRoute ------------------------------
(***************************************************************************)
(* Routes, rules, neighbours and addresses in the netlink library: what    *)
(* routeHandle, ruleHandle, neighHandle and addrHandle write and           *)
(* deserializeRoute, RuleListFiltered, NeighDeserialize and parseAddr read *)
(* (route_linux.go, rule_linux.go, neigh_linux.go, addr_linux.go).         *)
(***************************************************************************)
EXTENDS NlAttrs

-----------------------------------------------------------------------------
(* Encapsulations of a route.                                              *)

\* The labels of a stack: each is shifted into its word, the last word carries
\* the bottom bit, at which decoding stops.  "Labels20" is a label of more than
\* 20 bits: its high bits do not fit.
MPLSFields == {"Labels", "Labels20"}
EncodeMPLSStack(o) ==
    "DST" :> IF "Labels20" \in o THEN {"the low 20 bits"} ELSE o \cap {"Labels"}
DecodeMPLSStack(m) == GetAs(m, [Labels |-> "DST"])

\* A header without segments is refused.
SEG6Fields == {"Mode", "Segments"}
EncodeSEG6Encap(o) == When("Segments" \in o, Put(o, {"Mode", "Segments"}))
DecodeSEG6Encap(m) == Get(m, {"Mode", "Segments"})

\* Flags says which of the members are meant; a name with "?" is a flag.
SEG6LocalFields ==
    {"Action", "Segments", "Table", "InAddr", "In6Addr", "Iif", "Oif", "Segments?",
     "Table?", "InAddr?", "In6Addr?", "Iif?", "Oif?"}

SEG6LocalFlag ==
    [f \in {"Segments", "Table", "InAddr", "In6Addr", "Iif", "Oif"} |->
       CASE f = "Segments" -> "Segments?" [] f = "Table" -> "Table?"
         [] f = "InAddr" -> "InAddr?" [] f = "In6Addr" -> "In6Addr?"
         [] f = "Iif" -> "Iif?" [] f = "Oif" -> "Oif?"]

SEG6LocalEncode(o) ==
    Put(o, {"Action"} \cup {f \in DOMAIN SEG6LocalFlag : SEG6LocalFlag[f] \in o})

SEG6LocalDecode(m) ==
    Get(m, {"Action", "Segments", "Table", "InAddr", "In6Addr", "Iif", "Oif"})
    @@ [g \in {SEG6LocalFlag[f] : f \in DOMAIN SEG6LocalFlag} |->
          IF \E f \in DOMAIN m \ {"Action"} : SEG6LocalFlag[f] = g THEN {g} ELSE {}]

\* Without a program nothing is sent.  The headroom is looked for under its
\* largest value, 256, instead of its attribute's number.
BpfEncapFields == {"progs[IN]", "progs[OUT]", "progs[XMIT]", "headroom"}
BpfEncapEncode(o) ==
    When(o \cap {"progs[IN]", "progs[OUT]", "progs[XMIT]"} # {},
         PutIf(o, {"progs[IN]", "progs[OUT]", "progs[XMIT]"})
         @@ PutAs(o, [headroom |-> "LWT_BPF_XMIT_HEADROOM"]))
BpfEncapDecode(m) ==
    Get(m, {"progs[IN]", "progs[OUT]", "progs[XMIT]"})
    @@ GetAs(m, [headroom |-> "LWT_BPF_MAX_HEADROOM"])

ViaFields == {"Addr", "Addr6"}
ViaEncode(o) == PutIf(o, {"Addr", "Addr6"})
ViaDecode(m) == Get(m, {"Addr", "Addr6"})

-----------------------------------------------------------------------------
(* Routes.  Table256 is a table from 256 on, EncapOther an encapsulation   *)
(* that is not MPLS.                                                       *)

RouteMetrics ==
    {"MTU", "Window", "Rtt", "RttVar", "Ssthresh", "Cwnd", "AdvMSS", "Reordering",
     "Hoplimit", "InitCwnd", "Features", "RtoMin", "InitRwnd", "QuickACK", "Congctl",
     "FastOpenNoCookie"}

RouteFields ==
    {"LinkIndex", "ILinkIndex", "Scope", "Dst", "Dst6", "Src", "Src6", "Gw", "Gw6",
     "MultiPath", "Protocol", "Priority", "Family", "Table", "Table256", "Type", "Tos",
     "Flags", "MPLSDst", "NewDst", "Encap", "Via", "Realm"} \cup RouteMetrics

RouteDstFamily(o) ==
    IF "Dst" \in o THEN {"v4"} ELSE IF "Dst6" \in o THEN {"v6"}
    ELSE IF "MPLSDst" \in o THEN {"mpls"} ELSE {}

RouteFamilies(o) ==
    RouteDstFamily(o) \cup (IF o \cap {"Src", "Gw"} # {} THEN {"v4"} ELSE {})
    \cup (IF o \cap {"Src6", "Gw6"} # {} THEN {"v6"} ELSE {})

\* The errors that routeHandle reports before it sends anything.
routeAccepted(o) ==
    /\ o \cap {"Dst", "Dst6", "Src", "Src6", "Gw", "Gw6", "MPLSDst"} # {}
    /\ Cardinality(RouteFamilies(o)) = 1
    /\ "NewDst" \in o => RouteDstFamily(o) \subseteq {"mpls"}

\* A label is a destination where no address is one.
routeHandleAddrs(o) ==
    PutAs(IF o \cap {"Dst", "Dst6"} = {} THEN o ELSE o \ {"MPLSDst"},
          [Dst |-> "RTA_DST", Dst6 |-> "RTA_DST", MPLSDst |-> "RTA_DST"])
    @@ PutIf(o, {"NewDst", "Encap", "Src", "Src6", "Gw", "Gw6", "Via"})
    @@ ("Family" :> RouteFamilies(o))

\* A nexthop of MultiPath.
NexthopFields == {"LinkIndex", "Hops", "Gw", "Gw6", "Flags", "NewDst", "Encap",
                  "EncapOther", "Via"}
routeHandleNexthop(o) ==
    Put(o, {"Hops", "LinkIndex", "Flags"})
    @@ PutIf(o, {"Gw", "Gw6", "NewDst", "Encap", "EncapOther", "Via"})
parseRtNexthop(m) ==
    Get(m, {"LinkIndex", "Hops", "Flags", "Gw", "Gw6", "NewDst", "Encap", "Via"})

routeHandleAttrs(o) ==
    PutIf(o, {"MultiPath", "Table", "Priority", "Realm", "Tos", "Protocol", "Type"})
    @@ PutAs(o, [Table256 |-> "RTA_TABLE"]) @@ Put(o, {"Flags", "Scope", "LinkIndex"})

routeHandleMetrics(o) == PutIf(o, RouteMetrics)

routeHandle(o) == routeHandleAddrs(o) @@ routeHandleAttrs(o) @@ routeHandleMetrics(o)

\* What RTA_DST holds depends on the message's family; a new destination is only
\* understood for MPLS.
deserializeRouteAttrs(m) ==
    Get(m, {"Scope", "Protocol", "Table", "Type", "Tos", "Flags", "Family", "Gw", "Gw6",
            "Src", "Src6", "LinkIndex", "ILinkIndex", "Priority", "Realm", "MultiPath",
            "Via", "Encap"})
    @@ GetAs(m, [Table256 |-> "RTA_TABLE"])
    @@ (IF m["Family"] = {"mpls"} THEN GetAs(m, [MPLSDst |-> "RTA_DST", NewDst |-> "NewDst"])
        ELSE GetPart(m, [Dst |-> "RTA_DST", Dst6 |-> "RTA_DST"]))

deserializeRouteMetrics(m) ==
    Get(m, {"MTU", "Window", "Rtt", "RttVar", "Ssthresh", "Cwnd", "AdvMSS", "Reordering",
            "Hoplimit", "InitCwnd", "Features", "RtoMin", "InitRwnd", "QuickACK",
            "Congctl", "FastOpenNoCookie"})

deserializeRoute(m) == deserializeRouteAttrs(m) @@ deserializeRouteMetrics(m)

-----------------------------------------------------------------------------
(* Rules.  The fields of NewRule are -1, which is not sent.                *)

RuleFields ==
    {"Priority", "Family", "Table", "Table256", "Mark", "Mask", "Tos", "TunID", "Goto",
     "Src", "Src6", "Dst", "Dst6", "Flow", "IifName", "OifName", "SuppressIfgroup",
     "SuppressPrefixlen", "Invert", "Dport", "Sport", "IPProto"}

ruleAccepted(o) == ~({"Src", "Dst6"} \subseteq o \/ {"Src6", "Dst"} \subseteq o)

\* Suppressors go with a table of the header only; a tunnel's id is written
\* with four bytes.
ruleHandle(o) ==
    PutIf(o, {"Invert", "Family", "Table", "Table256", "Tos", "Dst", "Dst6", "Src", "Src6",
              "Priority", "Mark", "Mask", "Flow", "IifName", "OifName", "Goto", "IPProto",
              "Dport", "Sport"})
    @@ PutAs(o, [TunID |-> "FRA_TUN_ID_4_bytes"])
    @@ When("Table" \in o, PutIf(o, {"SuppressPrefixlen", "SuppressIfgroup"}))

RuleList(m) ==
    Get(m, {"Invert", "Tos", "Table", "Table256", "Src", "Src6", "Dst", "Dst6", "Mark",
            "Mask", "IifName", "OifName", "SuppressPrefixlen", "SuppressIfgroup", "Flow",
            "Goto", "Priority", "IPProto", "Dport", "Sport"})
    @@ GetAs(m, [TunID |-> "FRA_TUN_ID_8_bytes"])

-----------------------------------------------------------------------------
(* Neighbours and addresses.                                               *)

NeighFields ==
    {"LinkIndex", "Family", "State", "Type", "Flags", "FlagsExt", "IP", "IP6",
     "HardwareAddr", "LLIPAddr", "LLIPAddr6", "Vlan", "VNI", "MasterIndex"}

\* An IPv6 link layer address has no four bytes: the attribute is empty.
neighHandle(o) ==
    Put(o, {"LinkIndex", "State", "Type", "Flags"})
    @@ ("Family" :> IF "Family" \in o THEN {"Family"} ELSE {"of IP"})
    @@ PutIf(o, {"IP", "IP6", "FlagsExt", "Vlan", "VNI", "MasterIndex"})
    @@ (IF o \cap {"LLIPAddr", "LLIPAddr6"} # {} THEN "NDA_LLADDR" :> o \cap {"LLIPAddr"}
        ELSE PutAs(o, [HardwareAddr |-> "NDA_LLADDR"]))

\* Four bytes are an address of the link layer's own, others a hardware address.
NeighDeserialize(m) ==
    Get(m, {"LinkIndex", "Family", "State", "Type", "Flags", "IP", "IP6", "FlagsExt",
            "Vlan", "VNI", "MasterIndex"})
    @@ GetPart(m, [LLIPAddr |-> "NDA_LLADDR", HardwareAddr |-> "NDA_LLADDR"])

AddrFields ==
    {"IP", "IP6", "Mask", "Label", "Flags", "Flags256", "Scope", "Peer", "PeerMask",
     "Broadcast", "PreferedLft", "ValidLft", "LinkIndex"}

\* The peer's mask counts if there is a peer; label and broadcast address are
\* IPv4's, and a broadcast address that is not given is computed.
addrHandle(o) ==
    LET ip == o \cap {"IP", "IP6"} IN
    Put(o, {"Scope"})
    @@ [Prefixlen |-> o \cap (IF "Peer" \in o THEN {"PeerMask"} ELSE {"Mask"}),
        IFA_LOCAL |-> ip, IFA_ADDRESS |-> IF "Peer" \in o THEN {"Peer"} ELSE ip,
        LinkIndex |-> {"the link's"}, HeaderFlags |-> o \cap {"Flags"}]
    @@ PutAs(o, [Flags256 |-> "IFA_FLAGS"])
    @@ When("IP" \in o,
            PutIf(o, {"Label"})
            @@ ("Broadcast" :> IF "Broadcast" \in o THEN {"Broadcast"} ELSE {"computed"}))
    @@ PutStruct(o, {"ValidLft", "PreferedLft"})

\* The kernel's answer: flags in the attribute, and no IFA_LOCAL for an IPv6
\* address without a peer.
fillIfaddr(m) ==
    [a \in (DOMAIN m \cup {"IFA_FLAGS"})
           \ (IF m["IFA_LOCAL"] = {"IP6"} /\ m["IFA_ADDRESS"] = {"IP6"} THEN {"IFA_LOCAL"} ELSE {}) |->
       IF a \notin DOMAIN m THEN m["HeaderFlags"] ELSE m[a]]

\* Where the local address is not the address, it has a mask of all its bits.
parseAddr(m) ==
    LET local == "IFA_LOCAL" \in DOMAIN m
        own   == local => m["IFA_LOCAL"] = {"IP"} /\ m["IFA_ADDRESS"] = {"IP"} IN
    Get(m, {"Broadcast", "Label", "PreferedLft", "ValidLft", "Scope", "LinkIndex"})
    @@ GetPart(m, [Flags |-> "IFA_FLAGS", Flags256 |-> "IFA_FLAGS"])
    @@ (IF local THEN GetPart(m, [IP |-> "IFA_LOCAL", IP6 |-> "IFA_LOCAL"])
        ELSE GetPart(m, [IP |-> "IFA_ADDRESS", IP6 |-> "IFA_ADDRESS"]))
    @@ (IF own THEN GetAs(m, [Mask |-> "Prefixlen"])
        ELSE GetAs(m, [Peer |-> "IFA_ADDRESS", PeerMask |-> "Prefixlen"]))

-----------------------------------------------------------------------------
(* The list of routes.  A filter is a mask of fields and a route to        *)
(* compare with; agrees is the set of fields in which a listed route       *)
(* equals it, and what else is so of the two: "NoFilter" where the filter  *)
(* is nil, "AnyTable" where its table is RT_TABLE_UNSPEC.                  *)

RouteFilterFields ==
    <<"TABLE", "PROTOCOL", "SCOPE", "TYPE", "TOS", "REALM", "OIF", "IIF", "GW", "SRC",
      "DST", "HOPLIMIT">>

\* "MPLSDST": both have an MPLS destination, the same.  The IP destinations agree,
\* in "DST", when there is none on either side.
RouteListCases == {"uncloned", "main", "NoFilter", "AnyTable", "MPLSDST"}
Filtering(mask, agrees) == IF "NoFilter" \in agrees THEN {} ELSE mask
FieldDiffers(f, agrees) == f \notin agrees /\ ~(f = "TABLE" /\ "AnyTable" \in agrees)
DstAgrees(agrees) == "MPLSDST" \in agrees \/ "DST" \in agrees

\* A fault: the first case that is in the mask would decide, as DST's does.
RouteListedFirst(mask, agrees) ==
    LET asked == Filtering(mask, agrees)
        inMask(i) == RouteFilterFields[i] \in asked
        first == CHOOSE i \in 1..12 : inMask(i) /\ \A j \in 1..(i - 1) : ~inMask(j)
    IN  /\ "uncloned" \in agrees
        /\ "TABLE" \in asked \/ "main" \in agrees
        /\ (\E i \in 1..12 : inMask(i)) => RouteFilterFields[first] \in agrees

\* The cases of a Go switch: the first one whose condition holds decides, and
\* the destination's holds as soon as it is in the mask.  Clones, and routes of
\* other tables than main unless a table is asked for, are left out before.
RouteListed(mask, agrees) ==
    LET asked == Filtering(mask, agrees)
        holds(i) == LET f == RouteFilterFields[i] IN
                    f \in asked /\ (f = "DST" \/ FieldDiffers(f, agrees))
        first == CHOOSE i \in 1..12 : holds(i) /\ \A j \in 1..(i - 1) : ~holds(j)
    IN  /\ "uncloned" \in agrees
        /\ "TABLE" \in asked \/ "main" \in agrees
        /\ (\E i \in 1..12 : holds(i)) => RouteFilterFields[first] = "DST" /\ DstAgrees(agrees)

-----------------------------------------------------------------------------
(* The kinds.                                                              *)

RouteKindFields ==
    [mpls_encap |-> MPLSFields, seg6_encap |-> SEG6Fields, seg6local_encap |-> SEG6LocalFields,
     bpf_encap |-> BpfEncapFields, via |-> ViaFields, nexthop |-> NexthopFields,
     route |-> RouteFields, rule |-> RuleFields, neigh |-> NeighFields, addr |-> AddrFields]

RouteAccepted(k, o) ==
    CASE k = "route"      -> routeAccepted(o)
      [] k = "rule"       -> ruleAccepted(o)
      [] k = "neigh"      -> o \cap {"IP", "IP6"} # {}
      [] k = "addr"       -> o \cap {"IP", "IP6"} # {}
      [] k = "seg6_encap" -> "Segments" \in o
      [] k = "seg6local_encap" ->
            \A f \in {"Segments", "InAddr", "In6Addr"} : SEG6LocalFlag[f] \in o => f \in o
      [] k = "bpf_encap"  -> o \ {"headroom"} # {}
      [] OTHER            -> TRUE

RouteEncode(k, o) ==
    CASE k = "mpls_encap"      -> EncodeMPLSStack(o)
      [] k = "seg6_encap"      -> EncodeSEG6Encap(o)
      [] k = "seg6local_encap" -> SEG6LocalEncode(o)
      [] k = "bpf_encap"       -> BpfEncapEncode(o)
      [] k = "via"             -> ViaEncode(o)
      [] k = "nexthop"         -> routeHandleNexthop(o)
      [] k = "route"           -> routeHandle(o)
      [] k = "rule"            -> ruleHandle(o)
      [] k = "neigh"           -> neighHandle(o)
      [] k = "addr"            -> fillIfaddr(addrHandle(o))

RouteDecode(k, m) ==
    CASE k = "mpls_encap"      -> DecodeMPLSStack(m)
      [] k = "seg6_encap"      -> DecodeSEG6Encap(m)
      [] k = "seg6local_encap" -> SEG6LocalDecode(m)
      [] k = "bpf_encap"       -> BpfEncapDecode(m)
      [] k = "via"             -> ViaDecode(m)
      [] k = "nexthop"         -> parseRtNexthop(m)
      [] k = "route"           -> deserializeRoute(m)
      [] k = "rule"            -> RuleList(m)
      [] k = "neigh"           -> NeighDeserialize(m)
      [] k = "addr"            -> parseAddr(m)

RouteNotReturned(k, o) ==
    CASE k = "mpls_encap"      -> {"Labels20"}
      [] k = "seg6local_encap" -> {f \in DOMAIN SEG6LocalFlag : SEG6LocalFlag[f] \notin o}
      [] k = "bpf_encap"       -> {"headroom"}
      [] k = "nexthop"         -> {"EncapOther"}
      [] k = "route"           -> {"ILinkIndex", "Family"}
                                  \cup (IF RouteDstFamily(o) = {"mpls"} THEN {}
                                        ELSE {"MPLSDst", "NewDst"})
      [] k = "rule"            -> {"Family", "TunID"}
                                  \cup (IF "Table" \in o THEN {}
                                        ELSE {"SuppressPrefixlen", "SuppressIfgroup"})
      [] k = "neigh"           -> {"LLIPAddr6"}
                                  \cup (IF o \cap {"LLIPAddr", "LLIPAddr6"} = {} THEN {}
                                        ELSE {"HardwareAddr"})
      [] k = "addr"            -> {"LinkIndex"} \cup (IF "Peer" \in o THEN {"Mask"} ELSE {"PeerMask"})
                                  \cup (IF "IP6" \in o THEN {"Label", "Broadcast"} ELSE {})
      [] OTHER                 -> {}

RouteAlternatives ==
    {{"Labels", "Labels20"}, {"Addr", "Addr6"}, {"Dst", "Dst6"}, {"Src", "Src6"},
     {"Gw", "Gw6"}, {"Table", "Table256"}, {"IP", "IP6"}, {"LLIPAddr", "LLIPAddr6"},
     {"Flags", "Flags256"}, {"Encap", "EncapOther"}}
=============================================================================
