-------------------------- MODULE NlObjectsProofs --------------------------
(***************************************************************************)
(* What the netlink library writes it reads back, for every object of      *)
(* every kind, whatever number of its fields is set (MaxFields), and after *)
(* any number of changes to a link (MaxCalls); and a list returns what its *)
(* filter asks for.  Each encoder is shown to agree with its decoder by    *)
(* itself; the invariant of NlObjects only carries that from the step that *)
(* writes to the step that reads.                                          *)
(***************************************************************************)
EXTENDS NlObjects, FiniteSetTheorems, WellFoundedInduction, TLAPS

-----------------------------------------------------------------------------
(* Messages.                                                               *)

\* An attribute's value, zero where it is absent.
Value(m, f) == IF f \in DOMAIN m THEN m[f] ELSE {}

\* The object m has the fields of o, but for the ones that are lost.
Returned(F, o, m, lost) == \A f \in F \ lost : Value(m, f) \cap F = {f} \cap o

\* An object whose fields come back each by itself.
LEMMA AllReturned ==
    ASSUME NEW F, NEW o, NEW m, NEW lost,
           \A f \in F \ lost : Value(m, f) = {f} \cap o
    PROVE  Returned(F, o, m, lost)
BY DEF Returned

\* A message without attributes.
LEMMA Nothing == DOMAIN << >> = {}
OBVIOUS

\* Of two parts of a message, the one that has the attribute gives its value.
LEMMA OtherPart ==
    \A m, n, a : /\ a \notin DOMAIN m => Value(m @@ n, a) = Value(n, a)
                 /\ a \notin DOMAIN n => Value(m @@ n, a) = Value(m, a)
                 /\ a \in DOMAIN (m @@ n) => a \in DOMAIN m \/ a \in DOMAIN n
BY DEF Value, @@

\* Merging is associative.
LEMMA MergeAssociative ==
    ASSUME NEW a, NEW b, NEW c
    PROVE  a @@ b @@ c = a @@ (b @@ c)
BY DEF @@

\* Attributes that are sent where the field is not zero.
LEMMA PutIfValue ==
    ASSUME NEW o, NEW F
    PROVE  DOMAIN PutIf(o, F) \subseteq F /\ \A f \in F : Value(PutIf(o, F), f) = {f} \cap o
BY DEF Value, PutIf

-----------------------------------------------------------------------------
(* Links, kind by kind.                                                    *)

\* A device: what all links have, the master in a request of its own.
LEMMA DeviceReturned ==
    ASSUME NEW o \in SUBSET LinkAttrsFields
    PROVE  Returned(LinkAttrsFields, o,
                    LinkDeserializeAttrs(linkModifyAttrs(o) @@ linkModifyMaster(o)),
                    {"Namespace"})
<1>. DEFINE m == linkModifyAttrs(o) @@ linkModifyMaster(o)
<1>1. \A f \in LinkAttrsFields : Value(m, f) = {f} \cap o
  <2>1. \A f \in LinkAttrsFields \ {"MasterIndex"} : Value(linkModifyAttrs(o), f) = {f} \cap o
    BY DEF LinkAttrsFields, linkModifyAttrs, addXdpAttrs, Put, PutIf, When, @@, Value
  <2>2. "MasterIndex" \notin DOMAIN linkModifyAttrs(o)
    BY DEF linkModifyAttrs, addXdpAttrs, Put, PutIf, When, @@
  <2>3. /\ DOMAIN linkModifyMaster(o) \subseteq {"MasterIndex"}
        /\ Value(linkModifyMaster(o), "MasterIndex") = {"MasterIndex"} \cap o
    BY DEF linkModifyMaster, PutIf, Value
  <2>. QED BY <2>1, <2>2, <2>3, OtherPart
<1>. HIDE DEF m
<1>2. \A f \in LinkAttrsFields \ {"Namespace"} :
        Value(LinkDeserializeAttrs(m), f) = Value(m, f)
  BY DEF LinkAttrsFields, LinkDeserializeAttrs, linkFlags, parseLinkXdp, Get, @@, Value
<1>3. \A f \in LinkAttrsFields \ {"Namespace"} :
        Value(LinkDeserializeAttrs(m), f) = {f} \cap o
  BY <1>1, <1>2
<1>. QED BY <1>3, AllReturned DEF m

\* A vlan.
LEMMA VlanReturned ==
    ASSUME NEW o \in SUBSET VlanFields
    PROVE  Returned(VlanFields, o, parseVlanData(addVlanAttrs(o)), {})
BY DEF Returned, Value, VlanFields, parseVlanData, addVlanAttrs, Get, Put, PutIf, @@

\* A veth's peer.
LEMMA VethReturned ==
    ASSUME NEW o \in SUBSET VethFields
    PROVE  Returned(VethFields, o, readVethPeer(addVethAttrs(o)), {"PeerNamespace"})
<1>. DEFINE Same == {"TxQLen", "NumTxQueues", "NumRxQueues", "MTU"}
            A == IF "PeerName" \in o THEN PutAs(o, [PeerName |-> "Name"]) ELSE Put(o, {"Name"})
            B == PutAs(o, [PeerHardwareAddr |-> "HardwareAddr", PeerNamespace |-> "Namespace"])
            C == Put(o, {"TxQLen"}) @@ PutIf(o, {"NumTxQueues", "NumRxQueues", "MTU"})
            m == addVethAttrs(o)
<1>1. DOMAIN A = {"Name"} /\ A["Name"] = {"PeerName"} \cap o
  <2>1. CASE "PeerName" \in o
    BY <2>1 DEF PutAs
  <2>2. CASE "PeerName" \notin o
    BY <2>2 DEF VethFields, Put
  <2>. QED BY <2>1, <2>2
<1>2. DOMAIN B \subseteq {"HardwareAddr", "Namespace"}
      /\ Value(B, "HardwareAddr") = {"PeerHardwareAddr"} \cap o
  BY DEF Value, PutAs
<1>3. DOMAIN C \subseteq Same /\ \A f \in Same : Value(C, f) = {f} \cap o
  BY DEF Value, Put, PutIf, @@
<1>4. m = A @@ B @@ C
  BY DEF addVethAttrs, @@
<1>5. /\ Value(m, "Name") = {"PeerName"} \cap o
      /\ Value(m, "HardwareAddr") = {"PeerHardwareAddr"} \cap o
      /\ \A f \in Same : Value(m, f) = {f} \cap o
  <2>. HIDE DEF A, B, C, m
  <2>. QED BY <1>1, <1>2, <1>3, <1>4 DEF Value, @@
<1>. HIDE DEF m
<1>6. \A f \in Same \cup {"Name", "HardwareAddr"} :
        Value(LinkDeserializeAttrs(m), f) = Value(m, f)
  BY DEF Value, LinkDeserializeAttrs, linkFlags, parseLinkXdp, Get, @@
<1>7. /\ Value(readVethPeer(m), "PeerName") = Value(LinkDeserializeAttrs(m), "Name")
      /\ Value(readVethPeer(m), "PeerHardwareAddr") = Value(LinkDeserializeAttrs(m), "HardwareAddr")
      /\ \A f \in Same : Value(readVethPeer(m), f) = Value(LinkDeserializeAttrs(m), f)
  BY DEF Value, readVethPeer, GetAs
<1>8. \A f \in VethFields \ {"PeerNamespace"} : Value(readVethPeer(m), f) = {f} \cap o
  BY <1>5, <1>6, <1>7 DEF VethFields
<1>. QED BY <1>8, AllReturned DEF m

\* A vxlan: the port range is not read.
LEMMA VxlanReturned ==
    ASSUME NEW o \in SUBSET VxlanFields
    PROVE  Returned(VxlanFields, o, parseVxlanData(addVxlanAttrs(o)),
                    {"PortLow", "PortHigh"} \cup (IF "FlowBased" \in o THEN {"VxlanId"} ELSE {})
                    \cup (IF "NoAge" \in o THEN {"Age"} ELSE {}))
<1>. DEFINE Same == VxlanFields \ {"PortLow", "PortHigh", "VxlanId", "Age", "NoAge"}
            A == Put(IF "FlowBased" \in o THEN o \ {"VxlanId"} ELSE o,
                     {"VxlanId", "TTL", "TOS", "Learning", "Proxy", "RSC", "L2miss", "L3miss",
                      "UDP6ZeroCSumTx", "UDP6ZeroCSumRx"})
            B == PutIf(o, {"VtepDevIndex", "SrcAddr", "SrcAddr6", "Group", "Group6", "UDPCSum",
                           "GBP", "FlowBased", "Limit", "Port"})
            C == IF "NoAge" \in o THEN "Age" :> {} ELSE PutIf(o, {"Age"})
            D == PutStruct(o, {"PortLow", "PortHigh"})
            m == addVxlanAttrs(o)
<1>1. m = A @@ B @@ C @@ D
  BY DEF addVxlanAttrs
<1>2. /\ DOMAIN D \subseteq {"PortLow", "PortHigh"}
      /\ DOMAIN C \subseteq {"Age"}
      /\ "NoAge" \in o => "Age" \in DOMAIN C /\ C["Age"] = {}
      /\ "NoAge" \notin o => ("Age" \in DOMAIN C <=> "Age" \in o) /\ ("Age" \in o => C["Age"] = {"Age"})
  BY DEF PutStruct, Put, PutIf, :>
<1>3. "Age" \notin DOMAIN A /\ "Age" \notin DOMAIN B
  BY DEF Put, PutIf
<1>4. \A f \in Same : Value(A @@ B, f) = {f} \cap o
  BY DEF Value, VxlanFields, Put, PutIf, @@
<1>5. "FlowBased" \notin o => Value(A, "VxlanId") = {"VxlanId"} \cap o
  BY DEF Value, Put
<1>6. "VxlanId" \in DOMAIN A /\ ("GBP" \in DOMAIN (A @@ B) <=> "GBP" \in o)
  BY DEF Put, PutIf, @@
<1>. HIDE DEF A, B, C, D
<1>7. /\ \A f \in Same : Value(m, f) = {f} \cap o
      /\ "FlowBased" \notin o => Value(m, "VxlanId") = {"VxlanId"} \cap o
      /\ "GBP" \in DOMAIN m <=> "GBP" \in o
  BY <1>1, <1>2, <1>4, <1>5, <1>6 DEF Value, VxlanFields, @@
<1>8. /\ "NoAge" \in o => "Age" \in DOMAIN m /\ m["Age"] = {}
      /\ "NoAge" \notin o => Value(m, "Age") = {"Age"} \cap o
      /\ "NoAge" \notin o /\ "Age" \in DOMAIN m => m["Age"] # {}
  BY <1>1, <1>2, <1>3 DEF Value, @@
<1>. HIDE DEF m
<1>9. /\ \A f \in (Same \ {"GBP"}) \cup {"VxlanId", "Age"} :
           Value(parseVxlanData(m), f) = Value(m, f)
      /\ Value(parseVxlanData(m), "GBP") = IF "GBP" \in DOMAIN m THEN {"GBP"} ELSE {}
      /\ Value(parseVxlanData(m), "NoAge") = IF "Age" \in DOMAIN m /\ m["Age"] = {} THEN {"NoAge"} ELSE {}
  BY DEF Value, VxlanFields, parseVxlanData, Get, GetPresent, GetZero, @@
<1>. DEFINE lost == {"PortLow", "PortHigh"} \cup (IF "FlowBased" \in o THEN {"VxlanId"} ELSE {})
                    \cup (IF "NoAge" \in o THEN {"Age"} ELSE {})
<1>10. ASSUME NEW f \in VxlanFields \ lost PROVE Value(parseVxlanData(m), f) = {f} \cap o
  <2>1. CASE f \in Same
    BY <1>7, <1>9, <2>1
  <2>2. CASE f \in {"VxlanId", "Age", "NoAge"}
    BY <1>7, <1>8, <1>9, <2>2
  <2>. QED BY <1>10, <2>1, <2>2
<1>. QED BY <1>10, AllReturned DEF m

\* A bond.
LEMMA BondReturned ==
    ASSUME NEW o \in SUBSET BondFields
    PROVE  Returned(BondFields, o, parseBondData(addBondAttrs(o)), {})
BY DEF Returned, Value, BondFields, parseBondData, addBondAttrs, parseBondArpIpTargets,
       Get, PutIf, @@

\* A slave of a bond.
LEMMA BondSlaveReturned ==
    ASSUME NEW o \in SUBSET BondSlaveFields
    PROVE  Returned(BondSlaveFields, o, parseBondSlaveData(addBondSlaveAttrs(o)), {})
BY DEF Returned, Value, BondSlaveFields, parseBondSlaveData, addBondSlaveAttrs, Get, Put,
       PutIf, @@

\* An ipvlan.
LEMMA IPVlanReturned ==
    ASSUME NEW o \in SUBSET IPVlanFields
    PROVE  Returned(IPVlanFields, o, parseIPVlanData(addIPVlanAttrs(o)), {})
BY DEF Returned, Value, IPVlanFields, parseIPVlanData, addIPVlanAttrs, Get, Put

\* An ipvtap.
LEMMA IPVtapReturned ==
    ASSUME NEW o \in SUBSET IPVlanFields
    PROVE  Returned(IPVlanFields, o, parseIPVtapData(addIPVlanAttrs(o)), {})
BY DEF Returned, Value, IPVlanFields, parseIPVtapData, addIPVlanAttrs, Get, Put

\* A macvlan or macvtap: the mode is translated both ways.
LEMMA MacvlanReturned ==
    ASSUME NEW o \in SUBSET MacvlanFields
    PROVE  Returned(MacvlanFields, o, parseMacvlanData(addMacvlanAttrs(o)), {"MACAddrs"})
BY DEF Returned, Value, MacvlanFields, parseMacvlanData, addMacvlanAttrs, macvlanModes,
       Get, GetAs, PutAs, @@

\* A geneve tunnel: nothing else is sent of one that is flow based.
LEMMA GeneveReturned ==
    ASSUME NEW o \in SUBSET GeneveFields
    PROVE  Returned(GeneveFields, o,
                    parseGeneveData(addGeneveAttrs(o)),
                    (IF "FlowBased" \in o THEN GeneveFields
                     ELSE {"UdpCsum", "UdpZeroCsum6Tx", "UdpZeroCsum6Rx", "Link"}))
BY DEF Returned, Value, GeneveFields, parseGeneveData, addGeneveAttrs, Get, PutIf, When

\* A gretap: the keys are not read.
LEMMA GretapReturned ==
    ASSUME NEW o \in SUBSET GretapFields
    PROVE  Returned(GretapFields, o, parseGretapData(addGretapAttrs(o)),
                    IF "FlowBased" \in o THEN GretunFields ELSE {"IKey", "OKey", "Link"})
<1>. DEFINE m == addGretapAttrs(o)
            Same == GretapFields \ {"IKey", "OKey", "Link", "FlowBased"}
<1>1. \A f \in Same : Value(parseGretapData(m), f) = Value(m, f)
  <2>. HIDE DEF m
  <2>. QED BY DEF Value, GretapFields, GretunFields, parseGretapData, Get, GetAs,
              GetPresent, @@
<1>2. Value(parseGretapData(m), "FlowBased") = IF "FlowBased" \in DOMAIN m THEN {"FlowBased"} ELSE {}
  <2>. HIDE DEF m
  <2>. QED BY DEF Value, parseGretapData, Get, GetAs, GetPresent, @@
<1>3. "FlowBased" \in DOMAIN m <=> "FlowBased" \in o
  BY DEF addGretapAttrs, GreFlags, Put, PutIf, @@
<1>4. "FlowBased" \notin o => \A f \in Same : Value(m, f) \cap GretapFields = {f} \cap o
  BY DEF Value, GretapFields, GretunFields, addGretapAttrs, GreFlags, Put, PutIf, @@
<1>. HIDE DEF m
<1>5. ASSUME "FlowBased" \in o
      PROVE Returned(GretapFields, o, parseGretapData(m), GretunFields)
  BY <1>2, <1>3, <1>5 DEF Returned, GretapFields
<1>6. ASSUME "FlowBased" \notin o
      PROVE  Returned(GretapFields, o, parseGretapData(m), {"IKey", "OKey", "Link"})
  <2>1. ASSUME NEW f \in Same \cup {"FlowBased"}
        PROVE  Value(parseGretapData(m), f) \cap GretapFields = {f} \cap o
    BY <1>1, <1>2, <1>3, <1>4, <1>6
  <2>. QED BY <2>1 DEF Returned
<1>. QED BY <1>5, <1>6 DEF m

\* An IP tunnel.
LEMMA IptunReturned ==
    ASSUME NEW o \in SUBSET IptunFields
    PROVE  Returned(IptunFields, o,
                    parseIptunData(addIptunAttrs(o)),
                    (IF "FlowBased" \in o THEN IptunFields ELSE {"Link"}))
BY DEF Returned, Value, IptunFields, parseIptunData, addIptunAttrs, Get, Put, PutIf, When,
       @@

\* An IPv6 tunnel.
LEMMA Ip6tnlReturned ==
    ASSUME NEW o \in SUBSET Ip6tnlFields
    PROVE  Returned(Ip6tnlFields, o, parseIp6tnlData(addIp6tnlAttrs(o)), {"Link"})
BY DEF Returned, Value, Ip6tnlFields, parseIp6tnlData, addIp6tnlAttrs, Get, Put, PutIf, @@

\* A sit tunnel.
LEMMA SittunReturned ==
    ASSUME NEW o \in SUBSET SittunFields
    PROVE  Returned(SittunFields, o,
                    parseSittunData(addSittunAttrs(o)),
                    {"Link", "EncapLimit"})
BY DEF Returned, Value, SittunFields, parseSittunData, addSittunAttrs, Get, Put, PutIf, @@

\* A gre tunnel.
LEMMA GretunReturned ==
    ASSUME NEW o \in SUBSET GretunFields
    PROVE  Returned(GretunFields, o, parseGretunData(addGretunAttrs(o)), {"Link"})
BY DEF Returned, Value, GretunFields, parseGretunData, addGretunAttrs, GreFlags, Get, Put,
       PutIf, @@

\* A vti: a remote IPv6 address is lost beside a local IPv4 one.
LEMMA VtiReturned ==
    ASSUME NEW o \in SUBSET VtiFields
    PROVE  Returned(VtiFields, o,
                    parseVtiData(addVtiAttrs(o)),
                    ({"Link"} \cup (IF "Local" \in o THEN {"Remote6"} ELSE {})))
<1>1. \A f \in {"IKey", "OKey"} : Value(addVtiAttrs(o), f) = {f} \cap o
  BY DEF Value, VtiFields, addVtiAttrs, PutIf, PutAs, Put, @@
<1>2. Value(addVtiAttrs(o), "LOCAL") = {"Local", "Local6"} \cap o
  BY DEF Value, VtiFields, addVtiAttrs, PutIf, PutAs, Put, @@
<1>3. Value(addVtiAttrs(o), "REMOTE") = (IF "Local" \in o THEN {"Remote"} ELSE {"Remote", "Remote6"}) \cap o
  BY DEF Value, VtiFields, addVtiAttrs, PutIf, PutAs, Put, @@
<1>4. \A m : /\ \A f \in {"IKey", "OKey"} : Value(parseVtiData(m), f) = Value(m, f)
             /\ \A f \in {"Local", "Local6"} :
                  Value(parseVtiData(m), f) = Value(m, "LOCAL") \cap {f}
             /\ \A f \in {"Remote", "Remote6"} :
                  Value(parseVtiData(m), f) = Value(m, "REMOTE") \cap {f}
  BY DEF Value, parseVtiData, GetPart, Get, @@
<1> QED BY <1>1, <1>2, <1>3, <1>4 DEF Returned, VtiFields

\* A vrf.
LEMMA VrfReturned ==
    ASSUME NEW o \in SUBSET VrfFields
    PROVE  Returned(VrfFields, o, parseVrfData(addVrfAttrs(o)), {})
BY DEF Returned, Value, VrfFields, parseVrfData, addVrfAttrs, Get, Put

\* A bridge.
LEMMA BridgeReturned ==
    ASSUME NEW o \in SUBSET BridgeFields
    PROVE  Returned(BridgeFields, o, parseBridgeData(addBridgeAttrs(o)), {})
BY DEF Returned, Value, BridgeFields, parseBridgeData, addBridgeAttrs, Get, PutIf

\* A GTP device.
LEMMA GTPReturned ==
    ASSUME NEW o \in SUBSET GTPFields
    PROVE  Returned(GTPFields, o, parseGTPData(addGTPAttrs(o)), {"PDPHashsize"})
BY DEF Returned, Value, GTPFields, parseGTPData, addGTPAttrs, Get, Put, PutIf, @@, :>

\* An xfrm interface.
LEMMA XfrmiReturned ==
    ASSUME NEW o \in SUBSET XfrmiFields
    PROVE  Returned(XfrmiFields, o, parseXfrmiData(addXfrmiAttrs(o)), {})
BY DEF Returned, Value, XfrmiFields, parseXfrmiData, addXfrmiAttrs, Get, PutIf

\* A tun or tap device.
LEMMA TuntapReturned ==
    ASSUME NEW o \in SUBSET TuntapFields
    PROVE  Returned(TuntapFields, o, parseTuntapData(tuntapIoctls(o)), {})
BY DEF Returned, Value, TuntapFields, parseTuntapData, tuntapIoctls, Get, GetZero, Put,
       @@, :>

\* An IPoIB device.
LEMMA IPoIBReturned ==
    ASSUME NEW o \in SUBSET IPoIBFields
    PROVE  Returned(IPoIBFields, o, parseIPoIBData(addIPoIBAttrs(o)), {})
BY DEF Returned, Value, IPoIBFields, parseIPoIBData, addIPoIBAttrs, Get, Put

\* A bareudp device.
LEMMA BareUDPReturned ==
    ASSUME NEW o \in SUBSET BareUDPFields
    PROVE  Returned(BareUDPFields, o, parseBareUDPData(addBareUDPAttrs(o)), {})
BY DEF Returned, Value, BareUDPFields, parseBareUDPData, addBareUDPAttrs, Get, GetPresent,
       Put, PutIf, @@

-----------------------------------------------------------------------------
(* Traffic control, kind by kind.                                          *)

\* A generic action.
LEMMA GactReturned ==
    ASSUME NEW o \in SUBSET ActionAttrsFields
    PROVE  Returned(ActionAttrsFields, o, toAttrs(toTcGen(o)), {})
BY DEF Returned, Value, ActionAttrsFields, toAttrs, toTcGen, Get, Put

\* A policer: what belongs to a rate needs one.
LEMMA PoliceReturned ==
    ASSUME NEW o \in SUBSET PoliceActionFields
    PROVE  Returned(PoliceActionFields, o,
                    parsePolice(encodePolice(o)),
                    ({"RCellLog", "PCellLog", "Mpu", "Burst"}
                    \cup (IF "Rate" \in o THEN {} ELSE {"Overhead", "LinkLayer"})))
<1>. DEFINE m == encodePolice(o)
            Plain == {"Index", "Bindcnt", "Capab", "Refcnt", "Rate", "PeakRate", "ExceedAction", "Mtu"}
<1>1. \A f \in Plain \cup {"AvRate", "NotExceedAction"} : Value(m, f) = {f} \cap o
  BY DEF Value, encodePolice, CalcRtable, Xmittime, Put, PutIf, When, @@, :>
<1>2. "Rate" \in o => \A f \in {"Overhead", "LinkLayer"} : Value(m, f) = {f} \cap o
  BY DEF Value, encodePolice, CalcRtable, Xmittime, Put, PutIf, When, @@, :>
<1>. HIDE DEF m
<1>3. \A f \in PoliceActionFields \ {"RCellLog", "PCellLog", "Mpu"} :
        Value(parsePolice(m), f) = Value(m, f)
  BY DEF Value, PoliceActionFields, ActionAttrsFields, parsePolice, Get
<1>4. PoliceActionFields \subseteq
        Plain \cup {"AvRate", "NotExceedAction", "Overhead", "LinkLayer", "RCellLog", "PCellLog",
                   "Mpu", "Burst"}
  BY DEF PoliceActionFields, ActionAttrsFields
<1>. QED BY <1>1, <1>2, <1>3, <1>4, AllReturned DEF m

\* What all actions have goes before what is the one's own.
LEMMA ActionReturned ==
    ASSUME NEW E, NEW o, NEW own, NEW lost, E \cap ActionAttrsFields = {},
           \A f \in E \ lost : Value(own, f) = {f} \cap o
    PROVE  LET m == toTcGen(o) @@ own
           IN  Returned(ActionAttrsFields \cup E, o, toAttrs(m) @@ Get(m, E), lost)
<1>. DEFINE A == toTcGen(o)
            m == A @@ own
            D == toAttrs(m)
            G == Get(m, E)
<1>1. DOMAIN A = ActionAttrsFields /\ \A f \in ActionAttrsFields : Value(A, f) = {f} \cap o
  BY DEF Value, ActionAttrsFields, toTcGen, Put
<1>. HIDE DEF A
<1>2. \A f \in ActionAttrsFields : Value(m, f) = {f} \cap o
  BY <1>1 DEF Value, @@
<1>3. \A f \in E \ lost : Value(m, f) = {f} \cap o
  BY <1>1, OtherPart
<1>. HIDE DEF m
<1>4. DOMAIN D = ActionAttrsFields /\ \A f \in ActionAttrsFields : Value(D, f) = Value(m, f)
  BY DEF Value, ActionAttrsFields, toAttrs, Get
<1>5. DOMAIN G = E /\ \A f \in E : Value(G, f) = Value(m, f)
  BY DEF Value, Get
<1>. HIDE DEF D, G
<1>6. \A f \in ActionAttrsFields : Value(D @@ G, f) = Value(D, f)
  BY <1>4, <1>5, OtherPart
<1>7. \A f \in E : Value(D @@ G, f) = Value(G, f)
  BY <1>4, <1>5, OtherPart
<1>8. Returned(ActionAttrsFields \cup E, o, D @@ G, lost)
  BY <1>2, <1>3, <1>4, <1>5, <1>6, <1>7 DEF Returned
<1>. QED BY <1>8 DEF D, G, m, A

\* A redirection.
LEMMA MirredReturned ==
    ASSUME NEW o
    PROVE  Returned(ActionFields["mirred"], o,
                    parseActions("mirred", EncodeActions("mirred", o)),
                    TcNotReturned("mirred", o))
<1>. DEFINE E == {"Ifindex", "MirredAction"}
            own == Put(o, {"MirredAction", "Ifindex"})
<1>1. \A f \in E : Value(own, f) = {f} \cap o
  BY DEF Value, Put
<1>2. E \cap ActionAttrsFields = {} /\ ActionFields["mirred"] = ActionAttrsFields \cup E
  BY DEF ActionFields, ActionAttrsFields
<1>. HIDE DEF own
<1>3. Returned(ActionAttrsFields \cup E, o, toAttrs(toTcGen(o) @@ own) @@ Get(toTcGen(o) @@ own, E), {})
  BY <1>1, <1>2, ActionReturned
<1>. QED BY <1>2, <1>3 DEF parseActions, EncodeActions, TcNotReturned, own

\* A tunnel key: its members are sent when it is set.
LEMMA TunnelKeyReturned ==
    ASSUME NEW o
    PROVE  Returned(ActionFields["tunnel_key"], o,
                    parseActions("tunnel_key", EncodeActions("tunnel_key", o)),
                    TcNotReturned("tunnel_key", o))
<1>. DEFINE E == {"SET", "KeyID", "SrcAddr", "SrcAddr6", "DstAddr", "DstAddr6", "DestPort"}
            A == toTcGen(o)
            B == Put(o, {"SET"})
            C == When("SET" \in o,
                      Put(o, {"KeyID"})
                      @@ PutIf(o, {"SrcAddr", "SrcAddr6", "DstAddr", "DstAddr6", "DestPort"}))
            lost == TcNotReturned("tunnel_key", o)
            m == A @@ B @@ C
<1>1. \A f \in E \ lost : Value(B @@ C, f) = {f} \cap o
  BY DEF Value, TcNotReturned, Put, PutIf, When, @@
<1>2. E \cap ActionAttrsFields = {} /\ ActionFields["tunnel_key"] = ActionAttrsFields \cup E
  BY DEF ActionFields, ActionAttrsFields
<1>3. m = A @@ (B @@ C)
  <2>. HIDE DEF A, B, C
  <2>. QED BY MergeAssociative
<1>4. Returned(ActionAttrsFields \cup E, o, toAttrs(m) @@ Get(m, E), lost)
  <2>. HIDE DEF B, C, lost, m
  <2>. QED BY <1>1, <1>2, <1>3, ActionReturned
<1>. HIDE DEF lost
<1>5. EncodeActions("tunnel_key", o) = m
  BY DEF EncodeActions
<1>6. parseActions("tunnel_key", m) = toAttrs(m) @@ Get(m, E)
  BY DEF parseActions
<1>. QED BY <1>2, <1>4, <1>5, <1>6 DEF lost

\* A packet edit.
LEMMA SkbEditReturned ==
    ASSUME NEW o
    PROVE  Returned(ActionFields["skbedit"], o,
                    parseActions("skbedit", EncodeActions("skbedit", o)),
                    TcNotReturned("skbedit", o))
<1>. DEFINE E == {"Mark", "Priority", "PType", "QueueMapping"}
            own == PutIf(o, {"QueueMapping", "Priority", "PType", "Mark"})
            lost == TcNotReturned("skbedit", o)
<1>1. \A f \in E \ lost : Value(own, f) = {f} \cap o
  BY DEF Value, TcNotReturned, PutIf
<1>2. E \cap ActionAttrsFields = {} /\ ActionFields["skbedit"] = ActionAttrsFields \cup E
  BY DEF ActionFields, ActionAttrsFields
<1>. HIDE DEF own, lost
<1>3. Returned(ActionAttrsFields \cup E, o,
               toAttrs(toTcGen(o) @@ own) @@ Get(toTcGen(o) @@ own, E), lost)
  BY <1>1, <1>2, ActionReturned
<1>. QED BY <1>2, <1>3 DEF parseActions, EncodeActions, own, lost

\* A connection mark.
LEMMA ConnmarkReturned ==
    ASSUME NEW o
    PROVE  Returned(ActionFields["connmark"], o,
                    parseActions("connmark", EncodeActions("connmark", o)),
                    TcNotReturned("connmark", o))
<1>. DEFINE E == {"Zone"}
            own == Put(o, {"Zone"})
            lost == TcNotReturned("connmark", o)
<1>1. \A f \in E \ lost : Value(own, f) = {f} \cap o
  BY DEF Value, TcNotReturned, Put
<1>2. E \cap ActionAttrsFields = {} /\ ActionFields["connmark"] = ActionAttrsFields \cup E
  BY DEF ActionFields, ActionAttrsFields
<1>. HIDE DEF own, lost
<1>3. Returned(ActionAttrsFields \cup E, o,
               toAttrs(toTcGen(o) @@ own) @@ Get(toTcGen(o) @@ own, E), lost)
  BY <1>1, <1>2, ActionReturned
<1>. QED BY <1>2, <1>3 DEF parseActions, EncodeActions, own, lost

\* A checksum.
LEMMA CsumReturned ==
    ASSUME NEW o
    PROVE  Returned(ActionFields["csum"], o, parseActions("csum", EncodeActions("csum", o)),
                    TcNotReturned("csum", o))
<1>. DEFINE E == {"UpdateFlags"}
            own == Put(o, {"UpdateFlags"})
            lost == TcNotReturned("csum", o)
<1>1. \A f \in E \ lost : Value(own, f) = {f} \cap o
  BY DEF Value, TcNotReturned, Put
<1>2. E \cap ActionAttrsFields = {} /\ ActionFields["csum"] = ActionAttrsFields \cup E
  BY DEF ActionFields, ActionAttrsFields
<1>. HIDE DEF own, lost
<1>3. Returned(ActionAttrsFields \cup E, o,
               toAttrs(toTcGen(o) @@ own) @@ Get(toTcGen(o) @@ own, E), lost)
  BY <1>1, <1>2, ActionReturned
<1>. QED BY <1>2, <1>3 DEF parseActions, EncodeActions, own, lost

\* A program as an action.
LEMMA BpfActReturned ==
    ASSUME NEW o
    PROVE  Returned(ActionFields["bpf_act"], o,
                    parseActions("bpf_act", EncodeActions("bpf_act", o)),
                    TcNotReturned("bpf_act", o))
<1>. DEFINE E == {"Fd", "Name"}
            own == Put(o, {"Fd", "Name"})
            lost == TcNotReturned("bpf_act", o)
<1>1. \A f \in E \ lost : Value(own, f) = {f} \cap o
  BY DEF Value, TcNotReturned, Put
<1>2. E \cap ActionAttrsFields = {} /\ ActionFields["bpf_act"] = ActionAttrsFields \cup E
  BY DEF ActionFields, ActionAttrsFields
<1>. HIDE DEF own, lost
<1>3. Returned(ActionAttrsFields \cup E, o,
               toAttrs(toTcGen(o) @@ own) @@ Get(toTcGen(o) @@ own, E), lost)
  BY <1>1, <1>2, ActionReturned
<1>. QED BY <1>2, <1>3 DEF parseActions, EncodeActions, own, lost

\* A firewall mark filter.
LEMMA FwReturned ==
    ASSUME NEW o \in SUBSET FilterFields["fw"]
    PROVE  Returned(FilterFields["fw"], o, FilterList("fw", filterModify("fw", o)),
                    TcNotReturned("fw", o))
BY DEF Returned, Value, FilterFields, FilterList, filterModify, TcNotReturned, FwFields,
       parseFwData, Put, PutIf, Get, @@

\* A program as a filter; Id and Tag are the kernel's.
LEMMA BpfReturned ==
    ASSUME NEW o \in SUBSET FilterFields["bpf"]
    PROVE  Returned(FilterFields["bpf"], o, FilterList("bpf", filterModify("bpf", o)),
                    TcNotReturned("bpf", o))
BY DEF Returned, Value, FilterFields, FilterList, filterModify, TcNotReturned,
       BpfFilterFields, parseBpfData, Put, PutIf, Get, @@

\* A matchall filter, of which nothing is sent.
LEMMA MatchAllReturned ==
    ASSUME NEW o \in SUBSET FilterFields["matchall"]
    PROVE  Returned(FilterFields["matchall"], o,
                    FilterList("matchall", filterModify("matchall", o)),
                    TcNotReturned("matchall", o))
BY DEF Returned, Value, FilterFields, FilterList, filterModify, TcNotReturned,
       MatchAllFields, parseMatchAllData, Put, PutIf, Get, @@

\* A dhcmatchall filter.
LEMMA DhcMatchAllReturned ==
    ASSUME NEW o \in SUBSET FilterFields["dhcmatchall"]
    PROVE  Returned(FilterFields["dhcmatchall"], o,
                    FilterList("dhcmatchall", filterModify("dhcmatchall", o)),
                    TcNotReturned("dhcmatchall", o))
BY DEF Returned, Value, FilterFields, FilterList, filterModify, TcNotReturned,
       DhcMatchAllFields, parseDhcMatchAllData, Put, PutIf, Get, @@

\* A u32 filter: a redirect is read from the actions.
LEMMA U32Returned ==
    ASSUME NEW o \in SUBSET U32Fields
    PROVE  Returned(U32Fields, o,
                    parseU32Data(filterModifyU32(o)),
                    {"SelSpare"} \cup (IF "RedirIndex" \in o THEN {"Actions"} ELSE {})
                    \cup (IF "Mirred" \in o THEN {"RedirIndex"} ELSE {}))
<1>. DEFINE m == filterModifyU32(o)
            back == parseU32Data(m)
            acts == o \cap {"Actions", "Mirred", "RedirIndex"}
<1>1. \A f \in {"ClassId", "Divisor", "Hash", "Link"} : Value(m, f) = {f} \cap o
  BY DEF Value, U32Fields, filterModifyU32, PutIf, @@, :>
<1>2. "TCA_U32_ACT" \in DOMAIN m /\ m["TCA_U32_ACT"] = acts
  BY DEF U32Fields, filterModifyU32, PutIf, @@, :>
<1>3. Value(m, "Sel") \cap U32Fields = {"Sel"} \cap o
  BY DEF Value, U32Fields, filterModifyU32, PutIf, @@, :>
<1>. HIDE DEF m
<1>4. /\ \A f \in {"Sel", "ClassId", "Divisor", "Hash", "Link"} : Value(back, f) = Value(m, f)
      /\ Value(back, "Actions") = acts \cap {"Actions", "RedirIndex"}
      /\ Value(back, "Mirred") = acts \cap {"Mirred"}
      /\ "Mirred" \notin acts => Value(back, "RedirIndex") = acts \cap {"RedirIndex"}
  BY <1>2 DEF Value, parseU32Data, Get, @@
<1>. HIDE DEF back
<1>5. /\ Value(back, "Mirred") = {"Mirred"} \cap o
      /\ "RedirIndex" \notin o => Value(back, "Actions") = {"Actions"} \cap o
      /\ "Mirred" \notin o => Value(back, "RedirIndex") = {"RedirIndex"} \cap o
  BY <1>4
<1>. QED BY <1>1, <1>3, <1>4, <1>5 DEF Returned, U32Fields, back, m

\* An address and its mask.
LEMMA EncodedIP ==
    ASSUME NEW o, NEW ip, NEW ipMask, ip # ipMask
    PROVE  /\ DOMAIN encodeIP(o, ip, ipMask) = IF ip \in o THEN {ip, ipMask} ELSE {}
           /\ ip \in o => encodeIP(o, ip, ipMask)[ip] = {ip}
           /\ ip \in o => encodeIP(o, ip, ipMask)[ipMask]
                            = IF ipMask \in o THEN {ipMask} ELSE {"all bits"}
<1>1. CASE ip \in o
  <2>. DEFINE A == Put(o, {ip})
              B == ipMask :> IF ipMask \in o THEN {ipMask} ELSE {"all bits"}
  <2>1. encodeIP(o, ip, ipMask) = A @@ B
    BY <1>1 DEF encodeIP, When
  <2>2. DOMAIN A = {ip} /\ A[ip] = {ip}
    BY <1>1 DEF Put
  <2>3. DOMAIN B = {ipMask} /\ B[ipMask] = IF ipMask \in o THEN {ipMask} ELSE {"all bits"}
    BY DEF :>
  <2>. HIDE DEF A, B
  <2>. QED BY <1>1, <2>1, <2>2, <2>3 DEF @@
<1>2. CASE ip \notin o
  <2>1. encodeIP(o, ip, ipMask) = << >>
    BY <1>2 DEF encodeIP, When
  <2>. QED BY <1>2, <2>1, Nothing
<1>. QED BY <1>1, <1>2

\* A flower filter: EncDestIP's mask is another's.
LEMMA FlowerReturned ==
    ASSUME NEW o \in SUBSET FlowerFields
    PROVE  Returned(FlowerFields, o, FlowerDecode(FlowerEncode(o)),
                    {"EncDestIPMask"} \cup (IF "SrcIP" \in o THEN {} ELSE {"SrcIPMask"})
                    \cup (IF "DestIP" \in o THEN {} ELSE {"DestIPMask"})
                    \cup (IF "EncSrcIP" \in o THEN {} ELSE {"EncSrcIPMask"}))
<1>. DEFINE A == PutIf(o, {"EthType", "EncDestPort", "EncKeyId"})
            B == encodeIP(o, "SrcIP", "SrcIPMask")
            C == encodeIP(o, "DestIP", "DestIPMask")
            D == encodeIP(o, "EncSrcIP", "EncSrcIPMask")
            E == When("EncDestIP" \in o,
                      Put(o, {"EncDestIP"})
                      @@ ("EncDestIPMask" :>
                            IF "EncSrcIPMask" \in o THEN {"EncSrcIPMask"} ELSE {"all bits"}))
            G == Put(o, {"Actions"})
            m == FlowerEncode(o)
            Plain == {"EthType", "EncDestPort", "EncKeyId"}
<1>1. DOMAIN A = o \cap Plain /\ \A f \in DOMAIN A : A[f] = {f}
  BY DEF PutIf
<1>2. /\ DOMAIN B = IF "SrcIP" \in o THEN {"SrcIP", "SrcIPMask"} ELSE {}
      /\ "SrcIP" \in o => B["SrcIP"] = {"SrcIP"}
      /\ "SrcIP" \in o => B["SrcIPMask"] = IF "SrcIPMask" \in o THEN {"SrcIPMask"} ELSE {"all bits"}
  BY EncodedIP
<1>3. /\ DOMAIN C = IF "DestIP" \in o THEN {"DestIP", "DestIPMask"} ELSE {}
      /\ "DestIP" \in o => C["DestIP"] = {"DestIP"}
      /\ "DestIP" \in o => C["DestIPMask"] = IF "DestIPMask" \in o THEN {"DestIPMask"} ELSE {"all bits"}
  BY EncodedIP
<1>4. /\ DOMAIN D = IF "EncSrcIP" \in o THEN {"EncSrcIP", "EncSrcIPMask"} ELSE {}
      /\ "EncSrcIP" \in o => D["EncSrcIP"] = {"EncSrcIP"}
      /\ "EncSrcIP" \in o =>
           D["EncSrcIPMask"] = IF "EncSrcIPMask" \in o THEN {"EncSrcIPMask"} ELSE {"all bits"}
  BY EncodedIP
<1>5. /\ DOMAIN E \subseteq {"EncDestIP", "EncDestIPMask"}
      /\ Value(E, "EncDestIP") = {"EncDestIP"} \cap o
  BY DEF Value, When, Put, @@, :>
<1>6. DOMAIN G = {"Actions"} /\ G["Actions"] = {"Actions"} \cap o
  BY DEF Put
<1>7. m = A @@ B @@ C @@ D @@ E @@ G
  BY DEF FlowerEncode
<1>. HIDE DEF A, B, C, D, E, G, m
<1>0. /\ DOMAIN A \subseteq Plain
      /\ DOMAIN B \subseteq {"SrcIP", "SrcIPMask"}
      /\ DOMAIN C \subseteq {"DestIP", "DestIPMask"}
      /\ DOMAIN D \subseteq {"EncSrcIP", "EncSrcIPMask"}
      /\ DOMAIN E \subseteq {"EncDestIP", "EncDestIPMask"}
      /\ DOMAIN G \subseteq {"Actions"}
  BY <1>1, <1>2, <1>3, <1>4, <1>5, <1>6
<1>8. \A f \in Plain : Value(m, f) = {f} \cap o
  <2>1. \A f \in Plain : Value(m, f) = Value(A, f)
    BY <1>0, <1>7, OtherPart
  <2>. QED BY <1>1, <2>1 DEF Value
<1>9. \A f \in {"SrcIP", "SrcIPMask"} : Value(m, f) = Value(B, f)
  BY <1>0, <1>7, OtherPart
<1>10. \A f \in {"DestIP", "DestIPMask"} : Value(m, f) = Value(C, f)
  BY <1>0, <1>7, OtherPart
<1>11. \A f \in {"EncSrcIP", "EncSrcIPMask"} : Value(m, f) = Value(D, f)
  BY <1>0, <1>7, OtherPart
<1>12. Value(m, "EncDestIP") = {"EncDestIP"} \cap o /\ Value(m, "Actions") = {"Actions"} \cap o
  <2>1. Value(m, "EncDestIP") = Value(E, "EncDestIP") /\ Value(m, "Actions") = Value(G, "Actions")
    BY <1>0, <1>7, OtherPart
  <2>. QED BY <1>5, <1>6, <2>1 DEF Value
<1>13. \A f \in FlowerFields : Value(FlowerDecode(m), f) = Value(m, f)
  BY DEF Value, FlowerFields, FlowerDecode, Get
<1>14. ASSUME NEW f \in {"SrcIP", "DestIP", "EncSrcIP"} PROVE Value(m, f) = {f} \cap o
  BY <1>2, <1>3, <1>4, <1>9, <1>10, <1>11 DEF Value
<1>15. /\ "SrcIP" \in o => Value(m, "SrcIPMask") \cap FlowerFields = {"SrcIPMask"} \cap o
       /\ "DestIP" \in o => Value(m, "DestIPMask") \cap FlowerFields = {"DestIPMask"} \cap o
       /\ "EncSrcIP" \in o => Value(m, "EncSrcIPMask") \cap FlowerFields = {"EncSrcIPMask"} \cap o
  <2>1. "SrcIP" \in o => Value(B, "SrcIPMask") \cap FlowerFields = {"SrcIPMask"} \cap o
    BY <1>2 DEF Value, FlowerFields
  <2>2. "DestIP" \in o => Value(C, "DestIPMask") \cap FlowerFields = {"DestIPMask"} \cap o
    BY <1>3 DEF Value, FlowerFields
  <2>3. "EncSrcIP" \in o => Value(D, "EncSrcIPMask") \cap FlowerFields = {"EncSrcIPMask"} \cap o
    BY <1>4 DEF Value, FlowerFields
  <2>. QED BY <1>9, <1>10, <1>11, <2>1, <2>2, <2>3
<1>16. ASSUME NEW f \in FlowerFields,
              f \notin {"SrcIPMask", "DestIPMask", "EncSrcIPMask", "EncDestIPMask"}
       PROVE  Value(FlowerDecode(m), f) \cap FlowerFields = {f} \cap o
  BY <1>8, <1>12, <1>13, <1>14, <1>16 DEF FlowerFields
<1>. QED BY <1>13, <1>15, <1>16 DEF Returned, FlowerFields, m

\* A prio qdisc.
LEMMA PrioReturned ==
    ASSUME NEW o \in SUBSET QdiscFields["prio"]
    PROVE  Returned(QdiscFields["prio"], o, QdiscList("prio", qdiscPayload("prio", o)),
                    TcNotReturned("prio", o))
BY DEF Returned, Value, QdiscFields, QdiscList, qdiscPayload, TcNotReturned, PrioFields,
       parsePrioData, Put, PutIf, Get, @@

\* A token bucket: the minimum burst goes with a peak rate.
LEMMA TbfReturned ==
    ASSUME NEW o \in SUBSET QdiscFields["tbf"]
    PROVE  Returned(QdiscFields["tbf"], o, QdiscList("tbf", qdiscPayload("tbf", o)),
                    TcNotReturned("tbf", o))
BY DEF Returned, Value, QdiscFields, QdiscList, qdiscPayload, TcNotReturned, TbfFields,
       parseTbfData, When, Put, PutIf, Get, @@

\* An htb qdisc.
LEMMA HtbReturned ==
    ASSUME NEW o \in SUBSET QdiscFields["htb"]
    PROVE  Returned(QdiscFields["htb"], o, QdiscList("htb", qdiscPayload("htb", o)),
                    TcNotReturned("htb", o))
BY DEF Returned, Value, QdiscFields, QdiscList, qdiscPayload, TcNotReturned, HtbFields,
       parseHtbData, Put, PutIf, Get, @@

\* An hfsc qdisc.
LEMMA HfscReturned ==
    ASSUME NEW o \in SUBSET QdiscFields["hfsc"]
    PROVE  Returned(QdiscFields["hfsc"], o, QdiscList("hfsc", qdiscPayload("hfsc", o)),
                    TcNotReturned("hfsc", o))
BY DEF Returned, Value, QdiscFields, QdiscList, qdiscPayload, TcNotReturned,
       parseHfscData, Put, PutIf, Get, @@

\* An fq_codel qdisc; the target is not sent.
LEMMA FqCodelReturned ==
    ASSUME NEW o \in SUBSET QdiscFields["fq_codel"]
    PROVE  Returned(QdiscFields["fq_codel"], o,
                    QdiscList("fq_codel", qdiscPayload("fq_codel", o)),
                    TcNotReturned("fq_codel", o))
BY DEF Returned, Value, QdiscFields, QdiscList, qdiscPayload, TcNotReturned,
       FqCodelFields, parseFqCodelData, Put, PutIf, Get, @@

\* An fq qdisc; the packet limit is not sent.
LEMMA FqReturned ==
    ASSUME NEW o \in SUBSET QdiscFields["fq"]
    PROVE  Returned(QdiscFields["fq"], o, QdiscList("fq", qdiscPayload("fq", o)),
                    TcNotReturned("fq", o))
BY DEF Returned, Value, QdiscFields, QdiscList, qdiscPayload, TcNotReturned, FqFields,
       parseFqData, Put, PutIf, Get, @@

\* An sfq qdisc.
LEMMA SfqReturned ==
    ASSUME NEW o \in SUBSET QdiscFields["sfq"]
    PROVE  Returned(QdiscFields["sfq"], o, QdiscList("sfq", qdiscPayload("sfq", o)),
                    TcNotReturned("sfq", o))
BY DEF Returned, Value, QdiscFields, QdiscList, qdiscPayload, TcNotReturned, SfqFields,
       parseSfqData, Put, PutIf, Get, @@

\* A netem qdisc: two correlations need what they correlate.
LEMMA NetemReturned ==
    ASSUME NEW o \in SUBSET NetemFields
    PROVE  Returned(NetemFields, o, parseNetemData(qdiscPayload("netem", o)),
                    (IF "CorruptProb" \in o THEN {} ELSE {"CorruptCorr"})
                    \cup (IF "ReorderProb" \in o THEN {} ELSE {"ReorderCorr"}))
<1>. DEFINE Plain == {"Latency", "Limit", "Loss", "Gap", "Duplicate", "Jitter"}
            Corr == {"DelayCorr", "LossCorr", "DuplicateCorr"}
            A == Put(o, Plain)
            B == PutStruct(o, Corr)
            C == When("CorruptProb" \in o, Put(o, {"CorruptProb", "CorruptCorr"}))
            D == When("ReorderProb" \in o, Put(o, {"ReorderProb", "ReorderCorr"}))
            m == qdiscPayload("netem", o)
<1>1. m = A @@ B @@ C @@ D
  BY DEF qdiscPayload
<1>3. DOMAIN A = Plain /\ \A f \in Plain : A[f] = {f} \cap o
  BY DEF Put
<1>4. DOMAIN B \subseteq Corr /\ \A f \in Corr : Value(B, f) = {f} \cap o
  BY DEF Value, Put, PutStruct
<1>5. /\ DOMAIN C \subseteq {"CorruptProb", "CorruptCorr"}
      /\ Value(C, "CorruptProb") = {"CorruptProb"} \cap o
      /\ "CorruptProb" \in o => Value(C, "CorruptCorr") = {"CorruptCorr"} \cap o
  BY DEF Value, Put, When
<1>6. /\ DOMAIN D \subseteq {"ReorderProb", "ReorderCorr"}
      /\ Value(D, "ReorderProb") = {"ReorderProb"} \cap o
      /\ "ReorderProb" \in o => Value(D, "ReorderCorr") = {"ReorderCorr"} \cap o
  BY DEF Value, Put, When
<1>. HIDE DEF A, B, C, D, m
<1>7. \A f \in Plain : Value(m, f) = {f} \cap o
  BY <1>1, <1>3 DEF Value, @@
<1>8. \A f \in Corr : Value(m, f) = {f} \cap o
  BY <1>1, <1>3, <1>4, <1>5, <1>6 DEF Value, @@
<1>9. \A f \in {"CorruptProb", "CorruptCorr"} :
        "CorruptProb" \in o \/ f = "CorruptProb" => Value(m, f) = {f} \cap o
  BY <1>1, <1>3, <1>4, <1>5, <1>6 DEF Value, @@
<1>10. \A f \in {"ReorderProb", "ReorderCorr"} :
         "ReorderProb" \in o \/ f = "ReorderProb" => Value(m, f) = {f} \cap o
  BY <1>1, <1>3, <1>4, <1>5, <1>6 DEF Value, @@
<1>11. \A f \in NetemFields : Value(parseNetemData(m), f) = Value(m, f)
  BY DEF Value, NetemFields, parseNetemData, Get
<1>. QED BY <1>7, <1>8, <1>9, <1>10, <1>11, AllReturned DEF NetemFields, m

\* An htb class.
LEMMA HtbClassReturned ==
    ASSUME NEW o \in SUBSET ClassFields["htb_class"]
    PROVE  Returned(ClassFields["htb_class"], o,
                    ClassList("htb_class", classPayload("htb_class", o)),
                    TcNotReturned("htb_class", o))
BY DEF Returned, Value, ClassFields, ClassList, classPayload, TcNotReturned,
       HtbClassFields, parseHtbClassData, Put, PutIf, Get, @@

\* An hfsc class, in bytes.
LEMMA HfscClassReturned ==
    ASSUME NEW o \in SUBSET ClassFields["hfsc_class"]
    PROVE  Returned(ClassFields["hfsc_class"], o,
                    ClassList("hfsc_class", classPayload("hfsc_class", o)),
                    TcNotReturned("hfsc_class", o))
BY DEF Returned, Value, ClassFields, ClassList, classPayload, TcNotReturned,
       HfscClassFields, parseHfscClassData, Put, PutIf, Get, @@

-----------------------------------------------------------------------------
(* Routes and the rest, kind by kind.                                      *)

\* A stack of labels of 20 bits.
LEMMA MPLSReturned ==
    ASSUME NEW o \in SUBSET MPLSFields,
           ~ {"Labels", "Labels20"} \subseteq o
    PROVE  Returned(MPLSFields, o, DecodeMPLSStack(EncodeMPLSStack(o)), {"Labels20"})
<1>1. Value(EncodeMPLSStack(o), "DST") \cap MPLSFields = {"Labels"} \cap o
 BY DEF Value, MPLSFields, EncodeMPLSStack, :>
<1>2. \A m : Value(DecodeMPLSStack(m), "Labels") = Value(m, "DST")
 BY DEF Value, DecodeMPLSStack, GetAs
<1> QED BY <1>1, <1>2 DEF Returned, MPLSFields

\* A segment routing header.
LEMMA SEG6Returned ==
    ASSUME NEW o \in SUBSET SEG6Fields, "Segments" \in o
    PROVE  Returned(SEG6Fields, o, DecodeSEG6Encap(EncodeSEG6Encap(o)), {})
BY DEF Returned, Value, SEG6Fields, DecodeSEG6Encap, EncodeSEG6Encap, Get, Put, When

\* A local segment: the members that its flags mean.
LEMMA SEG6LocalReturned ==
    ASSUME NEW o \in SUBSET SEG6LocalFields,
           \A f \in {"Segments", "InAddr", "In6Addr"} : SEG6LocalFlag[f] \in o => f \in o
    PROVE  Returned(SEG6LocalFields, o,
                    SEG6LocalDecode(SEG6LocalEncode(o)),
                    {f \in DOMAIN SEG6LocalFlag : SEG6LocalFlag[f] \notin o})
BY DEF Returned, Value, SEG6LocalFields, SEG6LocalDecode, SEG6LocalEncode, SEG6LocalFlag,
       Get, Put, @@

\* Programs of a route's encapsulation; the headroom is lost.
LEMMA BpfEncapReturned ==
    ASSUME NEW o \in SUBSET BpfEncapFields, o \ {"headroom"} # {}
    PROVE  Returned(BpfEncapFields, o, BpfEncapDecode(BpfEncapEncode(o)), {"headroom"})
<1>1. \A f \in BpfEncapFields \ {"headroom"} : Value(BpfEncapEncode(o), f) = {f} \cap o
  BY DEF Value, BpfEncapFields, BpfEncapEncode, When, PutIf, PutAs, @@
<1>2. \A m :
        \A f \in BpfEncapFields \ {"headroom"} : Value(BpfEncapDecode(m), f) = Value(m, f)
  BY DEF Value, BpfEncapFields, BpfEncapDecode, Get, GetAs, @@
<1> QED BY <1>1, <1>2 DEF Returned, BpfEncapFields

\* A next hop of another family.
LEMMA ViaReturned ==
    ASSUME NEW o \in SUBSET ViaFields
    PROVE  Returned(ViaFields, o, ViaDecode(ViaEncode(o)), {})
BY DEF Returned, Value, ViaFields, ViaDecode, ViaEncode, Get, PutIf

\* A next hop of a multipath route.
LEMMA NexthopReturned ==
    ASSUME NEW o \in SUBSET NexthopFields
    PROVE  Returned(NexthopFields, o, parseRtNexthop(routeHandleNexthop(o)), {"EncapOther"})
BY DEF Returned, Value, NexthopFields, parseRtNexthop, routeHandleNexthop, Get, Put,
       PutIf, @@

\* A route whose destination is a label has the family of labels and no other.
LEMMA RouteFamily ==
    ASSUME NEW o, routeAccepted(o)
    PROVE  RouteFamilies(o) = {"mpls"} <=> RouteDstFamily(o) = {"mpls"}
<1>1. RouteFamilies(o) = {"mpls"} => RouteDstFamily(o) = {"mpls"}
  BY DEF RouteFamilies, RouteDstFamily
<1>2. ASSUME RouteDstFamily(o) = {"mpls"} PROVE RouteFamilies(o) = {"mpls"}
  <2>1. RouteFamilies(o) \subseteq {"v4", "v6", "mpls"} /\ "mpls" \in RouteFamilies(o)
    BY <1>2 DEF RouteFamilies, RouteDstFamily
  <2>2. IsFiniteSet({"v4", "v6", "mpls"})
    <3>1. IsFiniteSet({} \cup {"v4"})
      BY FS_EmptySet, FS_AddElement
    <3>2. IsFiniteSet(({} \cup {"v4"}) \cup {"v6"})
      BY <3>1, FS_AddElement
    <3>3. IsFiniteSet((({} \cup {"v4"}) \cup {"v6"}) \cup {"mpls"})
      BY <3>2, FS_AddElement
    <3>4. {"v4", "v6", "mpls"} = (({} \cup {"v4"}) \cup {"v6"}) \cup {"mpls"}
      OBVIOUS
    <3>. QED BY <3>3, <3>4
  <2>3. IsFiniteSet(RouteFamilies(o))
    BY <2>1, <2>2, FS_Subset
  <2>4. Cardinality(RouteFamilies(o)) = 1
    BY DEF routeAccepted
  <2>5. \E x : RouteFamilies(o) = {x}
    BY <2>3, <2>4, FS_Singleton
  <2>. QED BY <2>1, <2>5
<1>. QED BY <1>1, <1>2

\* A route that routeHandle accepts.
LEMMA RouteReturned ==
    ASSUME NEW o \in SUBSET RouteFields, routeAccepted(o)
    PROVE  Returned(RouteFields, o, deserializeRoute(routeHandle(o)),
                    {"ILinkIndex", "Family"}
                    \cup (IF RouteDstFamily(o) = {"mpls"} THEN {} ELSE {"MPLSDst", "NewDst"}))
<1>. DEFINE Dests == {"Dst", "Dst6", "MPLSDst"}
            Hops == {"NewDst", "Encap", "Src", "Src6", "Gw", "Gw6", "Via"}
            Some == {"MultiPath", "Table", "Priority", "Realm", "Tos", "Protocol", "Type"}
            All == {"Flags", "Scope", "LinkIndex"}
            A == PutAs(IF o \cap {"Dst", "Dst6"} = {} THEN o ELSE o \ {"MPLSDst"},
                       [Dst |-> "RTA_DST", Dst6 |-> "RTA_DST", MPLSDst |-> "RTA_DST"])
            B == PutIf(o, Hops)
            C == "Family" :> RouteFamilies(o)
            D == PutIf(o, Some)
            E == PutAs(o, [Table256 |-> "RTA_TABLE"])
            G == Put(o, All)
            H == PutIf(o, RouteMetrics)
            m == routeHandle(o)
            mpls == RouteDstFamily(o) = {"mpls"}
<1>1. /\ DOMAIN A \subseteq {"RTA_DST"}
      /\ Value(A, "RTA_DST") = o \cap (IF o \cap {"Dst", "Dst6"} = {} THEN {"MPLSDst"}
                                       ELSE {"Dst", "Dst6"})
  <2>1. CASE o \cap {"Dst", "Dst6"} = {}
    BY <2>1 DEF Value, PutAs
  <2>2. CASE o \cap {"Dst", "Dst6"} # {}
    BY <2>2 DEF Value, PutAs
  <2>. QED BY <2>1, <2>2
<1>2. DOMAIN B \subseteq Hops /\ \A f \in Hops : Value(B, f) = {f} \cap o
  BY PutIfValue
<1>3. DOMAIN C = {"Family"} /\ C["Family"] = RouteFamilies(o)
  BY DEF :>
<1>4. DOMAIN D \subseteq Some /\ \A f \in Some : Value(D, f) = {f} \cap o
  BY PutIfValue
<1>5. DOMAIN E \subseteq {"RTA_TABLE"} /\ Value(E, "RTA_TABLE") = {"Table256"} \cap o
  BY DEF Value, PutAs
<1>6. DOMAIN G = All /\ \A f \in All : Value(G, f) = {f} \cap o
  BY DEF Value, Put
<1>7. DOMAIN H \subseteq RouteMetrics /\ \A f \in RouteMetrics : Value(H, f) = {f} \cap o
  BY PutIfValue
<1>8. m = (A @@ B @@ C) @@ (D @@ E @@ G) @@ H
  BY DEF routeHandle, routeHandleAddrs, routeHandleAttrs, routeHandleMetrics
<1>9. /\ \A f \in Hops :
           f \notin {"RTA_DST", "RTA_TABLE", "Family"} \cup Some \cup All \cup RouteMetrics
      /\ \A f \in Some :
           f \notin {"RTA_DST", "RTA_TABLE", "Family"} \cup Hops \cup All \cup RouteMetrics
      /\ \A f \in All :
           f \notin {"RTA_DST", "RTA_TABLE", "Family"} \cup Hops \cup Some \cup RouteMetrics
      /\ \A f \in RouteMetrics :
           f \notin {"RTA_DST", "RTA_TABLE", "Family"} \cup Hops \cup Some \cup All
      /\ \A f \in {"RTA_DST", "RTA_TABLE", "Family"} :
           f \notin Hops \cup Some \cup All \cup RouteMetrics
  BY DEF RouteMetrics
<1>10. RouteFields = Dests \cup {"ILinkIndex", "Family", "Table256"} \cup Hops \cup Some \cup All \cup RouteMetrics
  BY DEF RouteFields
<1>11. \A n : /\ \A f \in (Hops \ {"NewDst"}) \cup Some \cup All \cup RouteMetrics :
                   Value(deserializeRoute(n), f) = Value(n, f)
              /\ Value(deserializeRoute(n), "Table256") = Value(n, "RTA_TABLE")
  <2>. TAKE n
  <2>. DEFINE P == Get(n, {"Scope", "Protocol", "Table", "Type", "Tos", "Flags", "Family", "Gw", "Gw6",
                      "Src", "Src6", "LinkIndex", "ILinkIndex", "Priority", "Realm", "MultiPath",
                      "Via", "Encap"})
              Q == GetAs(n, [Table256 |-> "RTA_TABLE"])
              R == IF n["Family"] = {"mpls"} THEN GetAs(n, [MPLSDst |-> "RTA_DST", NewDst |-> "NewDst"])
                   ELSE GetPart(n, [Dst |-> "RTA_DST", Dst6 |-> "RTA_DST"])
              S == deserializeRouteMetrics(n)
              Z == (Hops \ {"NewDst"}) \cup Some \cup All
  <2>1. DOMAIN P = Z \cup {"Family", "ILinkIndex"} /\ \A f \in Z : Value(P, f) = Value(n, f)
    BY DEF Value, Get
  <2>2. DOMAIN Q = {"Table256"} /\ Value(Q, "Table256") = Value(n, "RTA_TABLE")
    BY DEF Value, GetAs
  <2>3. DOMAIN R \subseteq Dests \cup {"NewDst"}
    BY DEF GetAs, GetPart
  <2>4. DOMAIN S = RouteMetrics /\ \A f \in RouteMetrics : Value(S, f) = Value(n, f)
    BY DEF Value, Get, deserializeRouteMetrics, RouteMetrics
  <2>5. deserializeRoute(n) = P @@ Q @@ R @@ S
    BY DEF deserializeRoute, deserializeRouteAttrs
  <2>6. /\ \A f \in Z : f \notin Dests \cup {"NewDst", "Table256"} \cup RouteMetrics
        /\ "Table256" \notin Z \cup {"Family", "ILinkIndex", "NewDst"} \cup Dests \cup RouteMetrics
        /\ \A f \in RouteMetrics :
             f \notin Dests \cup {"NewDst", "Table256", "Family", "ILinkIndex"} \cup Z
    BY DEF RouteMetrics
  <2>. HIDE DEF P, Q, R, S, Z, Dests
  <2>7. \A f \in Z : Value(deserializeRoute(n), f) = Value(n, f)
    BY <2>1, <2>2, <2>3, <2>4, <2>5, <2>6, OtherPart
  <2>8. \A f \in RouteMetrics : Value(deserializeRoute(n), f) = Value(n, f)
    BY <2>1, <2>2, <2>3, <2>4, <2>5, <2>6, OtherPart
  <2>9. Value(deserializeRoute(n), "Table256") = Value(n, "RTA_TABLE")
    BY <2>1, <2>2, <2>3, <2>4, <2>5, <2>6, OtherPart
  <2>. QED BY <2>7, <2>8, <2>9 DEF Z
<1>12. \A n : /\ n["Family"] = {"mpls"} =>
                   /\ Value(deserializeRoute(n), "MPLSDst") = Value(n, "RTA_DST")
                   /\ Value(deserializeRoute(n), "NewDst") = Value(n, "NewDst")
                   /\ Value(deserializeRoute(n), "Dst") = {} /\ Value(deserializeRoute(n), "Dst6") = {}
              /\ n["Family"] # {"mpls"} =>
                   \A f \in {"Dst", "Dst6"} :
                     Value(deserializeRoute(n), f) = Value(n, "RTA_DST") \cap {f}
  <2>. TAKE n
  <2>. DEFINE P == Get(n, {"Scope", "Protocol", "Table", "Type", "Tos", "Flags", "Family", "Gw", "Gw6",
                      "Src", "Src6", "LinkIndex", "ILinkIndex", "Priority", "Realm", "MultiPath",
                      "Via", "Encap"}) @@ GetAs(n, [Table256 |-> "RTA_TABLE"])
              R == IF n["Family"] = {"mpls"} THEN GetAs(n, [MPLSDst |-> "RTA_DST", NewDst |-> "NewDst"])
                   ELSE GetPart(n, [Dst |-> "RTA_DST", Dst6 |-> "RTA_DST"])
              S == deserializeRouteMetrics(n)
  <2>1. deserializeRoute(n) = P @@ R @@ S
    BY DEF deserializeRoute, deserializeRouteAttrs
  <2>2. DOMAIN P \cap (Dests \cup {"NewDst"}) = {}
    BY DEF Get, GetAs, @@
  <2>3. DOMAIN S \cap (Dests \cup {"NewDst"}) = {}
    BY DEF Get, deserializeRouteMetrics
  <2>4. n["Family"] = {"mpls"} =>
          /\ DOMAIN R = {"MPLSDst", "NewDst"}
          /\ Value(R, "MPLSDst") = Value(n, "RTA_DST") /\ Value(R, "NewDst") = Value(n, "NewDst")
    BY DEF Value, GetAs
  <2>5. n["Family"] # {"mpls"} =>
          \A f \in {"Dst", "Dst6"} : Value(R, f) = Value(n, "RTA_DST") \cap {f}
    BY DEF Value, GetPart
  <2>. HIDE DEF P, R, S
  <2>6. \A f \in Dests \cup {"NewDst"} : Value(deserializeRoute(n), f) = Value(R, f)
    BY <2>1, <2>2, <2>3, OtherPart
  <2>. QED BY <2>4, <2>5, <2>6 DEF Value
<1>. HIDE DEF A, B, C, D, E, G, H, m, Hops, Some, All
<1>13. \A f \in Hops : Value(m, f) = {f} \cap o
  BY <1>1, <1>2, <1>3, <1>4, <1>5, <1>6, <1>7, <1>8, <1>9, OtherPart
<1>14. \A f \in Some : Value(m, f) = {f} \cap o
  BY <1>1, <1>2, <1>3, <1>4, <1>5, <1>6, <1>7, <1>8, <1>9, OtherPart
<1>15. \A f \in All : Value(m, f) = {f} \cap o
  BY <1>1, <1>2, <1>3, <1>4, <1>5, <1>6, <1>7, <1>8, <1>9, OtherPart
<1>16. \A f \in RouteMetrics : Value(m, f) = {f} \cap o
  BY <1>1, <1>2, <1>3, <1>4, <1>5, <1>6, <1>7, <1>8, <1>9, OtherPart
<1>17. Value(m, "RTA_TABLE") = {"Table256"} \cap o
  BY <1>1, <1>2, <1>3, <1>4, <1>5, <1>6, <1>7, <1>8, <1>9, OtherPart
<1>18. Value(m, "RTA_DST") = Value(A, "RTA_DST")
  BY <1>1, <1>2, <1>3, <1>4, <1>5, <1>6, <1>7, <1>8, <1>9, OtherPart
<1>19. m["Family"] = RouteFamilies(o)
  <2>1. Value(m, "Family") = Value(C, "Family")
    BY <1>1, <1>2, <1>3, <1>4, <1>5, <1>6, <1>7, <1>8, <1>9, OtherPart
  <2>2. "Family" \in DOMAIN m
    BY <1>3, <1>8 DEF @@
  <2>. QED BY <1>3, <2>1, <2>2 DEF Value
<1>20. m["Family"] = {"mpls"} <=> mpls
  BY <1>19, RouteFamily
<1>. DEFINE d == deserializeRoute(m)
<1>21. \A f \in {"Dst", "Dst6"} : Value(d, f) = {f} \cap o
  <2>1. CASE mpls
    <3>1. "Dst" \notin o /\ "Dst6" \notin o
      BY <2>1 DEF RouteDstFamily
    <3>. QED BY <1>12, <1>20, <2>1, <3>1
  <2>2. CASE ~mpls
    BY <1>1, <1>12, <1>18, <1>20, <2>2
  <2>. QED BY <2>1, <2>2
<1>22. mpls => \A f \in {"MPLSDst", "NewDst"} : Value(d, f) = {f} \cap o
  <2>1. mpls => "Dst" \notin o /\ "Dst6" \notin o
    BY DEF RouteDstFamily
  <2>2. "NewDst" \in Hops
    BY DEF Hops
  <2>. QED BY <1>1, <1>12, <1>13, <1>18, <1>20, <2>1, <2>2
<1>. HIDE DEF d, mpls
<1>23. \A f \in (Hops \ {"NewDst"}) \cup Some \cup All \cup RouteMetrics \cup {"Table256"} :
         Value(d, f) = {f} \cap o
  BY <1>11, <1>13, <1>14, <1>15, <1>16, <1>17 DEF d
<1>24. \A f \in RouteFields \ ({"ILinkIndex", "Family"} \cup (IF mpls THEN {} ELSE {"MPLSDst", "NewDst"})) :
         Value(d, f) = {f} \cap o
  BY <1>10, <1>21, <1>22, <1>23
<1>. QED BY <1>24, AllReturned DEF d, m, mpls

\* A rule: suppressors go with a table of the header's.
LEMMA RuleReturned ==
    ASSUME NEW o \in SUBSET RuleFields
    PROVE  Returned(RuleFields, o, RuleList(ruleHandle(o)),
                    {"Family", "TunID"}
                    \cup (IF "Table" \in o THEN {} ELSE {"SuppressPrefixlen", "SuppressIfgroup"}))
<1>. DEFINE Supp == {"SuppressPrefixlen", "SuppressIfgroup"}
            Plain == {"Invert", "Family", "Table", "Table256", "Tos", "Dst", "Dst6", "Src",
                      "Src6", "Priority", "Mark", "Mask", "Flow", "IifName", "OifName", "Goto",
                      "IPProto", "Dport", "Sport"}
            A == PutIf(o, Plain)
            B == PutAs(o, [TunID |-> "FRA_TUN_ID_4_bytes"])
            C == When("Table" \in o, PutIf(o, Supp))
            m == ruleHandle(o)
<1>2. DOMAIN B \subseteq {"FRA_TUN_ID_4_bytes"}
  BY DEF PutAs
<1>3. DOMAIN C \subseteq Supp /\ ("Table" \in o => \A f \in Supp : Value(C, f) = {f} \cap o)
  BY DEF Value, PutIf, When
<1>4. m = A @@ B @@ C
  BY DEF ruleHandle
<1>5. RuleFields = Plain \cup Supp \cup {"TunID"}
  BY DEF RuleFields
<1>0. /\ \A f \in Plain : f \notin Supp /\ f # "FRA_TUN_ID_4_bytes"
      /\ \A f \in Supp : f # "FRA_TUN_ID_4_bytes"
  OBVIOUS
<1>8. \A f \in RuleFields \ {"Family", "TunID"} : Value(RuleList(m), f) = Value(m, f)
  <2>. HIDE DEF m
  <2>. QED BY DEF Value, RuleFields, RuleList, Get, GetAs, @@
<1>. HIDE DEF A, B, C, m, Plain, Supp
<1>1. DOMAIN A \subseteq Plain /\ \A f \in Plain : Value(A, f) = {f} \cap o
  BY PutIfValue DEF A
<1>6. \A f \in Plain : Value(m, f) = {f} \cap o
  BY <1>0, <1>1, <1>2, <1>3, <1>4, OtherPart
<1>7. "Table" \in o => \A f \in Supp : Value(m, f) = {f} \cap o
  BY <1>0, <1>1, <1>2, <1>3, <1>4, OtherPart
<1>9. \A f \in RuleFields \ ({"Family", "TunID"} \cup (IF "Table" \in o THEN {} ELSE Supp)) :
        Value(RuleList(m), f) = {f} \cap o
  BY <1>5, <1>6, <1>7, <1>8
<1>. QED BY <1>9, AllReturned DEF m, Supp

\* A neighbour: one attribute for both link layer addresses.
LEMMA NeighReturned ==
    ASSUME NEW o \in SUBSET NeighFields, o \cap {"IP", "IP6"} # {}
    PROVE  Returned(NeighFields, o, NeighDeserialize(neighHandle(o)),
                    {"LLIPAddr6"} \cup (IF o \cap {"LLIPAddr", "LLIPAddr6"} = {} THEN {}
                                        ELSE {"HardwareAddr"}))
<1>. DEFINE Plain == {"LinkIndex", "State", "Type", "Flags"}
            Some == {"IP", "IP6", "FlagsExt", "Vlan", "VNI", "MasterIndex"}
            A == Put(o, Plain)
            B == "Family" :> IF "Family" \in o THEN {"Family"} ELSE {"of IP"}
            C == PutIf(o, Some)
            D == IF o \cap {"LLIPAddr", "LLIPAddr6"} # {} THEN "NDA_LLADDR" :> o \cap {"LLIPAddr"}
                 ELSE PutAs(o, [HardwareAddr |-> "NDA_LLADDR"])
            m == neighHandle(o)
<1>1. DOMAIN A = Plain /\ \A f \in Plain : Value(A, f) = {f} \cap o
  BY DEF Value, Put
<1>2. DOMAIN B = {"Family"} /\ Value(B, "Family") \cap NeighFields = {"Family"} \cap o
  BY DEF Value, NeighFields, :>
<1>3. DOMAIN C \subseteq Some /\ \A f \in Some : Value(C, f) = {f} \cap o
  BY DEF Value, PutIf
<1>4. DOMAIN D \subseteq {"NDA_LLADDR"}
  BY DEF PutAs, :>
<1>5. Value(D, "NDA_LLADDR") = IF o \cap {"LLIPAddr", "LLIPAddr6"} # {} THEN o \cap {"LLIPAddr"}
                               ELSE o \cap {"HardwareAddr"}
  <2>1. Value(PutAs(o, [HardwareAddr |-> "NDA_LLADDR"]), "NDA_LLADDR") = o \cap {"HardwareAddr"}
    BY DEF Value, PutAs
  <2>2. Value("NDA_LLADDR" :> o \cap {"LLIPAddr"}, "NDA_LLADDR") = o \cap {"LLIPAddr"}
    BY DEF Value, :>
  <2>. QED BY <2>1, <2>2
<1>6. m = A @@ B @@ C @@ D
  BY DEF neighHandle
<1>. HIDE DEF A, B, C, D, m
<1>7. /\ \A f \in Plain \cup Some : Value(m, f) = {f} \cap o
      /\ Value(m, "Family") = Value(B, "Family")
      /\ Value(m, "NDA_LLADDR") = Value(D, "NDA_LLADDR")
  BY <1>1, <1>2, <1>3, <1>4, <1>6, OtherPart
<1>8. /\ \A f \in Plain \cup Some \cup {"Family"} :
           Value(NeighDeserialize(m), f) = Value(m, f)
      /\ \A f \in {"LLIPAddr", "HardwareAddr"} :
           Value(NeighDeserialize(m), f) = Value(m, "NDA_LLADDR") \cap {f}
  BY DEF Value, NeighDeserialize, Get, GetPart, @@
<1>9. ASSUME NEW f \in Plain \cup Some \cup {"Family"}
      PROVE  Value(NeighDeserialize(m), f) \cap NeighFields = {f} \cap o
  BY <1>2, <1>7, <1>8
<1>10. Value(NeighDeserialize(m), "LLIPAddr") \cap NeighFields = {"LLIPAddr"} \cap o
  BY <1>5, <1>7, <1>8 DEF NeighFields
<1>11. o \cap {"LLIPAddr", "LLIPAddr6"} = {}
         => Value(NeighDeserialize(m), "HardwareAddr") \cap NeighFields = {"HardwareAddr"} \cap o
  BY <1>5, <1>7, <1>8 DEF NeighFields
<1>. QED BY <1>9, <1>10, <1>11 DEF Returned, NeighFields, m

\* An address, through the kernel's answer.
LEMMA AddrReturned ==
    ASSUME NEW o \in SUBSET AddrFields, o \cap {"IP", "IP6"} # {},
           ~ {"IP", "IP6"} \subseteq o, ~ {"Flags", "Flags256"} \subseteq o
    PROVE  Returned(AddrFields, o, parseAddr(fillIfaddr(addrHandle(o))),
                    {"LinkIndex"} \cup (IF "Peer" \in o THEN {"Mask"} ELSE {"PeerMask"})
                    \cup (IF "IP6" \in o THEN {"Label", "Broadcast"} ELSE {}))
<1>. DEFINE ip == o \cap {"IP", "IP6"}
            Lft == {"ValidLft", "PreferedLft"}
            A == Put(o, {"Scope"})
            B == [Prefixlen |-> o \cap (IF "Peer" \in o THEN {"PeerMask"} ELSE {"Mask"}),
                  IFA_LOCAL |-> ip, IFA_ADDRESS |-> IF "Peer" \in o THEN {"Peer"} ELSE ip,
                  LinkIndex |-> {"the link's"}, HeaderFlags |-> o \cap {"Flags"}]
            C == PutAs(o, [Flags256 |-> "IFA_FLAGS"])
            D == When("IP" \in o,
                      PutIf(o, {"Label"})
                      @@ ("Broadcast" :> IF "Broadcast" \in o THEN {"Broadcast"} ELSE {"computed"}))
            E == PutStruct(o, Lft)
            m == addrHandle(o)
            n == fillIfaddr(m)
            local == ~(ip = {"IP6"} /\ "Peer" \notin o)
<1>1. DOMAIN A = {"Scope"} /\ Value(A, "Scope") = {"Scope"} \cap o
  BY DEF Value, Put
<1>2. /\ DOMAIN B = {"Prefixlen", "IFA_LOCAL", "IFA_ADDRESS", "LinkIndex", "HeaderFlags"}
      /\ B["Prefixlen"] = o \cap (IF "Peer" \in o THEN {"PeerMask"} ELSE {"Mask"})
      /\ B["IFA_LOCAL"] = ip
      /\ B["IFA_ADDRESS"] = IF "Peer" \in o THEN {"Peer"} ELSE ip
      /\ B["HeaderFlags"] = o \cap {"Flags"}
  OBVIOUS
<1>3. /\ DOMAIN C \subseteq {"IFA_FLAGS"}
      /\ "IFA_FLAGS" \in DOMAIN C <=> "Flags256" \in o
      /\ Value(C, "IFA_FLAGS") = {"Flags256"} \cap o
  BY DEF Value, PutAs
<1>4. /\ DOMAIN D \subseteq {"Label", "Broadcast"}
      /\ "IP" \in o => /\ Value(D, "Label") = {"Label"} \cap o
                       /\ Value(D, "Broadcast") \cap AddrFields = {"Broadcast"} \cap o
  BY DEF Value, AddrFields, When, PutIf, @@, :>
<1>5. DOMAIN E \subseteq Lft /\ \A f \in Lft : Value(E, f) = {f} \cap o
  BY DEF Value, PutStruct, Put
<1>6. m = A @@ B @@ C @@ D @@ E
  BY DEF addrHandle
<1>7. \/ ip = {"IP"} /\ "IP" \in o /\ "IP6" \notin o
      \/ ip = {"IP6"} /\ "IP6" \in o /\ "IP" \notin o
  OBVIOUS
<1>. HIDE DEF A, B, C, D, E, m, ip
<1>8. /\ Value(m, "Scope") = {"Scope"} \cap o
      /\ \A a \in {"Prefixlen", "IFA_LOCAL", "IFA_ADDRESS", "HeaderFlags"} :
           a \in DOMAIN m /\ m[a] = B[a]
  BY <1>1, <1>2, <1>3, <1>6 DEF Value, @@
<1>9. /\ "IFA_FLAGS" \in DOMAIN m <=> "Flags256" \in o
      /\ Value(m, "IFA_FLAGS") = {"Flags256"} \cap o
  BY <1>1, <1>2, <1>3, <1>4, <1>5, <1>6 DEF Value, @@
<1>10. \A f \in {"Label", "Broadcast"} : Value(m, f) = Value(D, f)
  BY <1>1, <1>2, <1>3, <1>4, <1>5, <1>6, OtherPart
<1>11. \A f \in Lft : Value(m, f) = Value(E, f)
  BY <1>1, <1>2, <1>3, <1>4, <1>5, <1>6, OtherPart
<1>12. /\ \A f \in {"Scope", "Label", "Broadcast", "Prefixlen", "IFA_ADDRESS"} \cup Lft :
            Value(n, f) = Value(m, f)
       /\ "IFA_FLAGS" \in DOMAIN n
       /\ n["IFA_FLAGS"] = IF "Flags256" \in o THEN {"Flags256"} ELSE {"Flags"} \cap o
       /\ "IFA_LOCAL" \in DOMAIN n <=> local
       /\ local => n["IFA_LOCAL"] = ip
       /\ "IFA_ADDRESS" \in DOMAIN n
  <2>1. m["IFA_LOCAL"] = {"IP6"} /\ m["IFA_ADDRESS"] = {"IP6"} <=> ~local
    BY <1>2, <1>7, <1>8
  <2>. QED BY <1>2, <1>8, <1>9, <2>1 DEF Value, fillIfaddr
<1>. HIDE DEF n
<1>13. /\ n["IFA_ADDRESS"] = IF "Peer" \in o THEN {"Peer"} ELSE ip
       /\ Value(n, "Prefixlen") = o \cap (IF "Peer" \in o THEN {"PeerMask"} ELSE {"Mask"})
  BY <1>2, <1>8, <1>12 DEF Value
<1>. DEFINE d == parseAddr(n)
            P1 == Get(n, {"Broadcast", "Label", "PreferedLft", "ValidLft", "Scope", "LinkIndex"})
            P2 == GetPart(n, [Flags |-> "IFA_FLAGS", Flags256 |-> "IFA_FLAGS"])
            P3 == IF local THEN GetPart(n, [IP |-> "IFA_LOCAL", IP6 |-> "IFA_LOCAL"])
                  ELSE GetPart(n, [IP |-> "IFA_ADDRESS", IP6 |-> "IFA_ADDRESS"])
            P4 == IF "Peer" \in o THEN GetAs(n, [Peer |-> "IFA_ADDRESS", PeerMask |-> "Prefixlen"])
                  ELSE GetAs(n, [Mask |-> "Prefixlen"])
<1>14. d = P1 @@ P2 @@ P3 @@ P4
  <2>1. (("IFA_LOCAL" \in DOMAIN n) => n["IFA_LOCAL"] = {"IP"} /\ n["IFA_ADDRESS"] = {"IP"}) <=> "Peer" \notin o
    BY <1>7, <1>12, <1>13
  <2>2. CASE "Peer" \in o
    BY <1>12, <2>1, <2>2 DEF parseAddr
  <2>3. CASE "Peer" \notin o
    BY <1>12, <2>1, <2>3 DEF parseAddr
  <2>. QED BY <2>2, <2>3
<1>15. /\ DOMAIN P1 = {"Broadcast", "Label", "Scope", "LinkIndex"} \cup Lft
       /\ \A f \in DOMAIN P1 : Value(P1, f) = Value(n, f)
  BY DEF Value, Get
<1>16. /\ DOMAIN P2 = {"Flags", "Flags256"}
       /\ \A f \in DOMAIN P2 : Value(P2, f) = {f} \cap o
  BY <1>12 DEF Value, GetPart
<1>17. /\ DOMAIN P3 = {"IP", "IP6"}
       /\ \A f \in DOMAIN P3 : Value(P3, f) = {f} \cap o
  <2>1. CASE local
    <3>1. DOMAIN P3 = {"IP", "IP6"} /\ \A f \in DOMAIN P3 : Value(P3, f) = ip \cap {f}
      BY <1>12, <2>1 DEF Value, GetPart
    <3>. QED BY <1>7, <3>1
  <2>2. CASE ~local
    <3>1. DOMAIN P3 = {"IP", "IP6"} /\ \A f \in DOMAIN P3 : Value(P3, f) = ip \cap {f}
      BY <1>12, <1>13, <2>2 DEF Value, GetPart
    <3>. QED BY <1>7, <3>1
  <2>. QED BY <2>1, <2>2
<1>18. /\ DOMAIN P4 \subseteq {"Peer", "PeerMask", "Mask"}
       /\ \A f \in {"Peer"} \cup (IF "Peer" \in o THEN {"PeerMask"} ELSE {"Mask"}) :
            Value(P4, f) = {f} \cap o
  <2>1. CASE "Peer" \in o
    BY <1>12, <1>13, <2>1 DEF Value, GetAs
  <2>2. CASE "Peer" \notin o
    BY <1>12, <1>13, <2>2 DEF Value, GetAs
  <2>. QED BY <2>1, <2>2
<1>. HIDE DEF d, P1, P2, P3, P4, local
<1>19. /\ \A f \in DOMAIN P1 : Value(d, f) = Value(P1, f)
       /\ \A f \in DOMAIN P2 : Value(d, f) = Value(P2, f)
       /\ \A f \in DOMAIN P3 : Value(d, f) = Value(P3, f)
       /\ \A f \in {"Peer", "PeerMask", "Mask"} : Value(d, f) = Value(P4, f)
  BY <1>14, <1>15, <1>16, <1>17, <1>18, OtherPart
<1>20. ASSUME NEW f \in {"Scope"} \cup Lft PROVE Value(d, f) = {f} \cap o
  BY <1>5, <1>8, <1>11, <1>12, <1>15, <1>19
<1>21. ASSUME "IP6" \notin o, NEW f \in {"Label", "Broadcast"}
       PROVE  Value(d, f) \cap AddrFields = {f} \cap o
  BY <1>4, <1>7, <1>10, <1>12, <1>15, <1>19, <1>21
<1>22. ASSUME NEW f \in {"Flags", "Flags256", "IP", "IP6", "Peer"}
       PROVE Value(d, f) = {f} \cap o
  BY <1>16, <1>17, <1>18, <1>19
<1>23. Value(d, IF "Peer" \in o THEN "PeerMask" ELSE "Mask") = {IF "Peer" \in o THEN "PeerMask" ELSE "Mask"} \cap o
  BY <1>18, <1>19
<1>. QED BY <1>20, <1>21, <1>22, <1>23 DEF Returned, AddrFields, d, n, m

-----------------------------------------------------------------------------
(* The kinds together.                                                     *)

\* Links.
LEMMA LinkReturned ==
    ASSUME NEW k \in DOMAIN LinkFields, NEW o \in SUBSET LinkFields[k]
    PROVE  Returned(LinkFields[k], o,
                    LinkDeserialize(k, linkModify(k, o)),
                    LinkNotReturned(k, o))
<1>1. CASE k = "device"
  BY <1>1, DeviceReturned DEF LinkFields, linkModify, LinkDeserialize, LinkNotReturned
<1>2. CASE k = "vlan"
  BY <1>2, VlanReturned DEF LinkFields, linkModify, LinkDeserialize, LinkNotReturned
<1>3. CASE k = "veth"
  BY <1>3, VethReturned DEF LinkFields, linkModify, LinkDeserialize, LinkNotReturned
<1>4. CASE k = "vxlan"
  BY <1>4, VxlanReturned DEF LinkFields, linkModify, LinkDeserialize, LinkNotReturned
<1>5. CASE k = "bond"
  BY <1>5, BondReturned DEF LinkFields, linkModify, LinkDeserialize, LinkNotReturned
<1>6. CASE k = "bond_slave"
  BY <1>6, BondSlaveReturned DEF LinkFields, linkModify, LinkDeserialize, LinkNotReturned
<1>7. CASE k = "ipvlan"
  BY <1>7, IPVlanReturned DEF LinkFields, linkModify, LinkDeserialize, LinkNotReturned
<1>8. CASE k = "ipvtap"
  BY <1>8, IPVtapReturned DEF LinkFields, linkModify, LinkDeserialize, LinkNotReturned
<1>9. CASE k = "macvlan"
  BY <1>9, MacvlanReturned DEF LinkFields, linkModify, LinkDeserialize, LinkNotReturned
<1>10. CASE k = "macvtap"
  BY <1>10, MacvlanReturned DEF LinkFields, linkModify, LinkDeserialize, LinkNotReturned
<1>11. CASE k = "geneve"
  BY <1>11, GeneveReturned DEF LinkFields, linkModify, LinkDeserialize, LinkNotReturned
<1>12. CASE k = "gretap"
  BY <1>12, GretapReturned DEF LinkFields, linkModify, LinkDeserialize, LinkNotReturned
<1>13. CASE k = "ipip"
  BY <1>13, IptunReturned DEF LinkFields, linkModify, LinkDeserialize, LinkNotReturned
<1>14. CASE k = "ip6tnl"
  BY <1>14, Ip6tnlReturned DEF LinkFields, linkModify, LinkDeserialize, LinkNotReturned
<1>15. CASE k = "sit"
  BY <1>15, SittunReturned DEF LinkFields, linkModify, LinkDeserialize, LinkNotReturned
<1>16. CASE k = "gre"
  BY <1>16, GretunReturned DEF LinkFields, linkModify, LinkDeserialize, LinkNotReturned
<1>17. CASE k = "vti"
  BY <1>17, VtiReturned DEF LinkFields, linkModify, LinkDeserialize, LinkNotReturned
<1>18. CASE k = "vrf"
  BY <1>18, VrfReturned DEF LinkFields, linkModify, LinkDeserialize, LinkNotReturned
<1>19. CASE k = "bridge"
  BY <1>19, BridgeReturned DEF LinkFields, linkModify, LinkDeserialize, LinkNotReturned
<1>20. CASE k = "gtp"
  BY <1>20, GTPReturned DEF LinkFields, linkModify, LinkDeserialize, LinkNotReturned
<1>21. CASE k = "xfrm"
  BY <1>21, XfrmiReturned DEF LinkFields, linkModify, LinkDeserialize, LinkNotReturned
<1>22. CASE k = "tun"
  BY <1>22, TuntapReturned DEF LinkFields, linkModify, LinkDeserialize, LinkNotReturned
<1>23. CASE k = "ipoib"
  BY <1>23, IPoIBReturned DEF LinkFields, linkModify, LinkDeserialize, LinkNotReturned
<1>24. CASE k = "bareudp"
  BY <1>24, BareUDPReturned DEF LinkFields, linkModify, LinkDeserialize, LinkNotReturned
<1>25. k \in {"device", "vlan", "veth", "vxlan", "bond", "bond_slave", "ipvlan",
             "ipvtap", "macvlan", "macvtap", "geneve", "gretap", "ipip", "ip6tnl",
             "sit", "gre", "vti", "vrf", "bridge", "gtp", "xfrm", "tun", "ipoib",
             "bareudp"}
  BY DEF LinkFields
<1>. QED BY <1>1, <1>2, <1>3, <1>4, <1>5, <1>6, <1>7, <1>8, <1>9, <1>10, <1>11, <1>12,
           <1>13, <1>14, <1>15, <1>16, <1>17, <1>18, <1>19, <1>20, <1>21, <1>22, <1>23,
           <1>24, <1>25

\* Filters.
LEMMA FilterReturned ==
    ASSUME NEW k \in DOMAIN FilterFields, NEW o \in SUBSET FilterFields[k]
    PROVE  Returned(FilterFields[k], o,
                    FilterList(k, filterModify(k, o)),
                    TcNotReturned(k, o))
<1>1. CASE k = "u32"
  BY <1>1, U32Returned DEF FilterFields, filterModify, FilterList, TcNotReturned
<1>2. CASE k = "fw"
  BY <1>2, FwReturned DEF FilterFields, filterModify, FilterList, TcNotReturned
<1>3. CASE k = "bpf"
  BY <1>3, BpfReturned DEF FilterFields, filterModify, FilterList, TcNotReturned
<1>4. CASE k = "matchall"
  BY <1>4, MatchAllReturned DEF FilterFields, filterModify, FilterList, TcNotReturned
<1>5. CASE k = "dhcmatchall"
  BY <1>5, DhcMatchAllReturned DEF FilterFields, filterModify, FilterList, TcNotReturned
<1>6. CASE k = "flower"
  BY <1>6, FlowerReturned DEF FilterFields, filterModify, FilterList, TcNotReturned
<1>7. k \in {"u32", "fw", "bpf", "matchall", "dhcmatchall", "flower"}
  BY DEF FilterFields
<1>. QED BY <1>1, <1>2, <1>3, <1>4, <1>5, <1>6, <1>7

\* Actions.
LEMMA ActionsReturned ==
    ASSUME NEW k \in DOMAIN ActionFields, NEW o \in SUBSET ActionFields[k]
    PROVE  Returned(ActionFields[k], o,
                    parseActions(k, EncodeActions(k, o)),
                    TcNotReturned(k, o))
<1>1. CASE k = "gact"
  BY <1>1, GactReturned DEF ActionFields, EncodeActions, parseActions, TcNotReturned
<1>2. CASE k = "police"
  BY <1>2, PoliceReturned DEF ActionFields, EncodeActions, parseActions, TcNotReturned
<1>3. CASE k = "mirred"
  BY <1>3, MirredReturned DEF ActionFields, EncodeActions, parseActions, TcNotReturned
<1>4. CASE k = "tunnel_key"
  BY <1>4, TunnelKeyReturned DEF ActionFields, EncodeActions, parseActions, TcNotReturned
<1>5. CASE k = "skbedit"
  BY <1>5, SkbEditReturned DEF ActionFields, EncodeActions, parseActions, TcNotReturned
<1>6. CASE k = "connmark"
  BY <1>6, ConnmarkReturned DEF ActionFields, EncodeActions, parseActions, TcNotReturned
<1>7. CASE k = "csum"
  BY <1>7, CsumReturned DEF ActionFields, EncodeActions, parseActions, TcNotReturned
<1>8. CASE k = "bpf_act"
  BY <1>8, BpfActReturned DEF ActionFields, EncodeActions, parseActions, TcNotReturned
<1>9. k \in {"gact", "police", "mirred", "tunnel_key", "skbedit", "connmark", "csum",
             "bpf_act"}
  BY DEF ActionFields
<1>. QED BY <1>1, <1>2, <1>3, <1>4, <1>5, <1>6, <1>7, <1>8, <1>9

\* Qdiscs.
LEMMA QdiscReturned ==
    ASSUME NEW k \in DOMAIN QdiscFields, NEW o \in SUBSET QdiscFields[k]
    PROVE  Returned(QdiscFields[k], o,
                    QdiscList(k, qdiscPayload(k, o)),
                    TcNotReturned(k, o))
<1>1. CASE k = "prio"
  BY <1>1, PrioReturned DEF QdiscFields, qdiscPayload, QdiscList, TcNotReturned
<1>2. CASE k = "tbf"
  BY <1>2, TbfReturned DEF QdiscFields, qdiscPayload, QdiscList, TcNotReturned
<1>3. CASE k = "htb"
  BY <1>3, HtbReturned DEF QdiscFields, qdiscPayload, QdiscList, TcNotReturned
<1>4. CASE k = "hfsc"
  BY <1>4, HfscReturned DEF QdiscFields, qdiscPayload, QdiscList, TcNotReturned
<1>5. CASE k = "netem"
  BY <1>5, NetemReturned DEF QdiscFields, qdiscPayload, QdiscList, TcNotReturned
<1>6. CASE k = "fq_codel"
  BY <1>6, FqCodelReturned DEF QdiscFields, qdiscPayload, QdiscList, TcNotReturned
<1>7. CASE k = "fq"
  BY <1>7, FqReturned DEF QdiscFields, qdiscPayload, QdiscList, TcNotReturned
<1>8. CASE k = "sfq"
  BY <1>8, SfqReturned DEF QdiscFields, qdiscPayload, QdiscList, TcNotReturned
<1>9. k \in {"prio", "tbf", "htb", "hfsc", "netem", "fq_codel", "fq", "sfq"}
  BY DEF QdiscFields
<1>. QED BY <1>1, <1>2, <1>3, <1>4, <1>5, <1>6, <1>7, <1>8, <1>9

\* Classes.
LEMMA ClassReturned ==
    ASSUME NEW k \in DOMAIN ClassFields, NEW o \in SUBSET ClassFields[k]
    PROVE  Returned(ClassFields[k], o,
                    ClassList(k, classPayload(k, o)),
                    TcNotReturned(k, o))
<1>1. CASE k = "htb_class"
  BY <1>1, HtbClassReturned DEF ClassFields, classPayload, ClassList, TcNotReturned
<1>2. CASE k = "hfsc_class"
  BY <1>2, HfscClassReturned DEF ClassFields, classPayload, ClassList, TcNotReturned
<1>3. k \in {"htb_class", "hfsc_class"}
  BY DEF ClassFields
<1>. QED BY <1>1, <1>2, <1>3

\* Routes, rules, neighbours and addresses that are accepted.
LEMMA RouteKindReturned ==
    ASSUME NEW k \in DOMAIN RouteKindFields, NEW o \in SUBSET RouteKindFields[k],
           RouteAccepted(k, o), \A alternatives \in RouteAlternatives :
                                  ~ alternatives \subseteq o
    PROVE  Returned(RouteKindFields[k], o,
                    RouteDecode(k, RouteEncode(k, o)),
                    RouteNotReturned(k, o))
<1>1. CASE k = "mpls_encap"
  BY <1>1, MPLSReturned DEF RouteKindFields, RouteEncode, RouteDecode, RouteNotReturned,
     RouteAlternatives
<1>2. CASE k = "seg6_encap"
  BY <1>2, SEG6Returned DEF RouteKindFields, RouteEncode, RouteDecode, RouteNotReturned,
     RouteAccepted
<1>3. CASE k = "seg6local_encap"
  BY <1>3, SEG6LocalReturned DEF RouteKindFields, RouteEncode, RouteDecode,
     RouteNotReturned, RouteAccepted
<1>4. CASE k = "bpf_encap"
  BY <1>4, BpfEncapReturned DEF RouteKindFields, RouteEncode, RouteDecode,
     RouteNotReturned, RouteAccepted
<1>5. CASE k = "via"
  BY <1>5, ViaReturned DEF RouteKindFields, RouteEncode, RouteDecode, RouteNotReturned
<1>6. CASE k = "nexthop"
  BY <1>6, NexthopReturned DEF RouteKindFields, RouteEncode, RouteDecode, RouteNotReturned
<1>7. CASE k = "route"
  BY <1>7, RouteReturned DEF RouteKindFields, RouteEncode, RouteDecode, RouteNotReturned,
     RouteAccepted
<1>8. CASE k = "rule"
  BY <1>8, RuleReturned DEF RouteKindFields, RouteEncode, RouteDecode, RouteNotReturned
<1>9. CASE k = "neigh"
  BY <1>9, NeighReturned DEF RouteKindFields, RouteEncode, RouteDecode, RouteNotReturned,
     RouteAccepted
<1>10. CASE k = "addr"
  BY <1>10, AddrReturned DEF RouteKindFields, RouteEncode, RouteDecode, RouteNotReturned,
     RouteAccepted, RouteAlternatives
<1>11. k \in {"mpls_encap", "seg6_encap", "seg6local_encap", "bpf_encap", "via",
             "nexthop", "route", "rule", "neigh", "addr"}
  BY DEF RouteKindFields
<1>. QED BY <1>1, <1>2, <1>3, <1>4, <1>5, <1>6, <1>7, <1>8, <1>9, <1>10, <1>11

\* A small subset is a subset.
LEMMA SubsetsOf ==
    ASSUME NEW F, NEW n, NEW o \in SmallSubsets(F, n)
    PROVE  o \in SUBSET F
<1>1. CASE o = {}
  BY <1>1
<1>2. CASE o \in {{t[i] : i \in 1..n} : t \in [1..n -> F]}
  <2>1. PICK t \in [1..n -> F] : o = {t[i] : i \in 1..n}
    BY <1>2
  <2>. QED BY <2>1
<1>. QED BY <1>1, <1>2 DEF SmallSubsets

\* An object that a program writes is one of its kind, and has no two values of
\* a field.
LEMMA ObjectsOf ==
    ASSUME NEW F, NEW o \in Objects(F)
    PROVE  /\ o \in SUBSET F
           /\ \A alternatives \in RouteAlternatives : ~ alternatives \subseteq o
<1>1. o \in SmallSubsets(F, MaxFields)
  BY DEF Objects
<1>2. o \in SUBSET F
  BY <1>1, SubsetsOf
<1>. QED BY <1>2 DEF Objects

-----------------------------------------------------------------------------
(* Links that are changed.                                                 *)

\* The attributes of a port's fields.
PortAttr ==
    [Hairpin |-> "MODE", Guard |-> "GUARD", FastLeave |-> "FAST_LEAVE",
     RootBlock |-> "PROTECT", Learning |-> "LEARNING", Flood |-> "UNICAST_FLOOD",
     ProxyArp |-> "PROXYARP", ProxyArpWiFi |-> "PROXYARP_WIFI"]

\* The attribute that holds a field of a link of kind k.
Attr(k, f) ==
    IF k = "set_macvlan" /\ f \in DOMAIN macvlanModes THEN macvlanModes[f]
    ELSE IF k = "set_port" THEN PortAttr[f] ELSE f

\* The kernel has what the calls have given, in the fields that no old copy has
\* written back.
Kept(k, w, g, r) ==
    \A f \in SetFields[k] \ (SetNotReturned(k) \cup r) : Value(w, Attr(k, f)) = g \cap {f}

\* A call sends the fields that it names, and others as they are.
Sends(k, c, w) ==
    \A f \in SetFields[k] \ SetNotReturned(k) :
      /\ f \in c.names => Attr(k, f) \in DOMAIN c.msg /\ c.msg[Attr(k, f)] = c.args \cap {f}
      /\ f \notin c.names =>
           /\ f \notin c.args
           /\ Attr(k, f) \in DOMAIN c.msg =>
                Attr(k, f) \in DOMAIN w /\ c.msg[Attr(k, f)] = w[Attr(k, f)]

\* What a call sends is kept, and what it does not name stays.
LEMMA CallKept ==
    ASSUME NEW k, NEW c, NEW w, NEW g, NEW r, Sends(k, c, w), Kept(k, w, g, r)
    PROVE  Kept(k, c.msg @@ w, (g \ c.names) \cup c.args, r \ c.names)
<1>. SUFFICES ASSUME NEW f \in SetFields[k] \ (SetNotReturned(k) \cup (r \ c.names))
              PROVE  Value(c.msg @@ w, Attr(k, f)) = ((g \ c.names) \cup c.args) \cap {f}
  BY DEF Kept
<1>. DEFINE a == Attr(k, f)
<1>1. CASE f \in c.names
  <2>1. a \in DOMAIN c.msg /\ c.msg[a] = c.args \cap {f}
    BY <1>1 DEF Sends
  <2>. QED BY <1>1, <2>1 DEF Value, @@
<1>2. CASE f \notin c.names
  <2>1. f \notin c.args /\ (a \in DOMAIN c.msg => a \in DOMAIN w /\ c.msg[a] = w[a])
    BY <1>2 DEF Sends
  <2>2. Value(w, a) = g \cap {f}
    BY <1>2 DEF Kept
  <2>. HIDE DEF a
  <2>3. Value(c.msg @@ w, a) = Value(w, a)
    BY <2>1 DEF Value, @@
  <2>. QED BY <1>2, <2>1, <2>2, <2>3 DEF a
<1>. QED BY <1>1, <1>2

\* A link is read from the attributes of its fields.
LEMMA SetReadValue ==
    ASSUME NEW k \in DOMAIN SetFields, NEW w, NEW f \in SetFields[k] \ SetNotReturned(k)
    PROVE  Value(SetRead(k, w), f) = Value(w, Attr(k, f))
<1>1. CASE k = "set_link"
  <2>1. f \in LinkAttrsFields \cup {"NoARP", "Promisc", "Allmulti", "Multi"} /\ f # "Namespace"
    BY <1>1 DEF SetFields, SetNotReturned, LinkAttrsFields
  <2>2. SetRead(k, w) = LinkDeserializeFlags(w) @@ LinkDeserializeAttrs(w) /\ Attr(k, f) = f
    BY <1>1 DEF SetRead, Attr
  <2>3. \A g \in LinkAttrsFields \ {"Namespace"} :
          Value(LinkDeserializeAttrs(w), g) = Value(w, g)
    BY DEF LinkAttrsFields, LinkDeserializeAttrs, linkFlags, parseLinkXdp, Get, @@, Value
  <2>4. /\ DOMAIN LinkDeserializeFlags(w) = {"NoARP", "Promisc", "Allmulti", "Multi"}
        /\ \A g \in DOMAIN LinkDeserializeFlags(w) :
             Value(LinkDeserializeFlags(w), g) = Value(w, g)
    BY DEF LinkDeserializeFlags, Get, Value
  <2>5. CASE f \in {"NoARP", "Promisc", "Allmulti", "Multi"}
    BY <2>2, <2>4, <2>5 DEF Value, @@
  <2>6. CASE f \notin {"NoARP", "Promisc", "Allmulti", "Multi"}
    BY <2>1, <2>2, <2>3, <2>4, <2>6, OtherPart
  <2>. QED BY <2>5, <2>6
<1>2. CASE k = "set_bridge"
  <2>1. f \in {"FlagUp", "MTU", "Name", "Alias", "HardwareAddr", "TxQLen", "Group",
               "MasterIndex", "MulticastSnooping", "VlanFiltering"}
    BY <1>2 DEF SetFields
  <2>2. SetRead(k, w) = LinkDeserializeAttrs(w) @@ parseBridgeData(w) /\ Attr(k, f) = f
    BY <1>2 DEF SetRead, Attr
  <2>. QED BY <2>1, <2>2 DEF LinkDeserializeAttrs, parseBridgeData, linkFlags,
              parseLinkXdp, Get, @@, Value
<1>3. CASE k = "set_macvlan"
  <2>1. f \in MacAddrs \cup DOMAIN macvlanModes
    BY <1>3 DEF SetFields
  <2>2. SetRead(k, w) = parseMacvlanMACAddrs(w) @@ parseMacvlanData(w)
    BY <1>3 DEF SetRead
  <2>. QED BY <1>3, <2>1, <2>2 DEF Attr, MacAddrs, macvlanModes, parseMacvlanMACAddrs,
              parseMacvlanData, Get, GetAs, @@, Value
<1>4. CASE k = "set_bond_slave"
  BY <1>4 DEF SetFields, SetRead, Attr, parseBondSlaveData, Get, @@, Value
<1>5. CASE k = "set_vf"
  <2>1. SetRead(k, w) = parseVfInfo(w) /\ Attr(k, f) = f
    BY <1>5 DEF SetRead, Attr
  <2>2. f \in VfFields \ {"NodeGUID", "PortGUID"}
    BY <1>5 DEF SetFields, SetNotReturned
  <2>. QED BY <2>1, <2>2 DEF VfFields, parseVfInfo, Get, Value
<1>6. CASE k = "set_port"
  <2>1. SetRead(k, w) = GetAs(w, PortAttr) /\ Attr(k, f) = PortAttr[f]
    BY <1>6 DEF SetRead, Attr, parseProtinfo, PortAttr
  <2>2. f \in DOMAIN PortAttr
    BY <1>6 DEF SetFields, ProtinfoFields, PortAttr
  <2>. QED BY <2>1, <2>2 DEF GetAs, Value
<1>7. CASE k = "set_port_vlan"
  BY <1>7 DEF SetFields, SetRead, Attr, BridgeVlanList, BridgeVlanFields, Get, Value
<1>8. k \in {"set_link", "set_bridge", "set_macvlan", "set_bond_slave", "set_vf", "set_port",
             "set_port_vlan"}
  BY DEF SetFields
<1>. QED BY <1>1, <1>2, <1>3, <1>4, <1>5, <1>6, <1>7, <1>8

\* A flag or the master is switched.
LEMMA SwitchSends ==
    ASSUME NEW k \in {"set_link", "set_bridge"}, NEW field, NEW m, NEW w,
           DOMAIN m = {field}, m[field] \subseteq {field}
    PROVE  Sends(k, Switch(field, m), w)
<1>. DEFINE c == Switch(field, m)
<1>1. c.names = {field} /\ c.msg = m /\ c.args = m[field]
  BY DEF Switch, Call
<1>2. \A f : Attr(k, f) = f
  BY DEF Attr
<1>. SUFFICES ASSUME NEW f \in SetFields[k] \ SetNotReturned(k)
              PROVE  /\ f \in c.names => Attr(k, f) \in DOMAIN c.msg /\ c.msg[Attr(k, f)] = c.args \cap {f}
                     /\ f \notin c.names =>
                          /\ f \notin c.args
                          /\ Attr(k, f) \in DOMAIN c.msg =>
                               Attr(k, f) \in DOMAIN w /\ c.msg[Attr(k, f)] = w[Attr(k, f)]
  BY DEF Sends
<1>. HIDE DEF c
<1>. QED BY <1>1, <1>2

\* A call of a link that sends its arguments.
LEMMA CallSends ==
    ASSUME NEW k, NEW F, NEW o \in SUBSET F, NEW m, NEW w,
           \A f \in SetFields[k] \ SetNotReturned(k) : Attr(k, f) = f,
           \A f \in F : f \in DOMAIN m /\ m[f] = o \cap {f},
           DOMAIN m \cap (SetFields[k] \ SetNotReturned(k)) \subseteq F
    PROVE  Sends(k, Call(F, o, m), w)
<1>. DEFINE c == Call(F, o, m)
<1>1. c.names = F /\ c.msg = m /\ c.args = o
  BY DEF Call
<1>. SUFFICES ASSUME NEW f \in SetFields[k] \ SetNotReturned(k)
              PROVE  /\ f \in c.names => Attr(k, f) \in DOMAIN c.msg /\ c.msg[Attr(k, f)] = c.args \cap {f}
                     /\ f \notin c.names =>
                          /\ f \notin c.args
                          /\ Attr(k, f) \in DOMAIN c.msg =>
                               Attr(k, f) \in DOMAIN w /\ c.msg[Attr(k, f)] = w[Attr(k, f)]
  BY DEF Sends
<1>. HIDE DEF c
<1>. QED BY <1>1

\* A link is moved to another namespace: no attribute of its fields is sent.
LEMMA NamespaceSends ==
    ASSUME NEW k \in {"set_link", "set_bridge"}, NEW o \in SUBSET {"Namespace"}, NEW m, NEW w,
           DOMAIN m \subseteq {"NET_NS_PID", "NET_NS_FD"}
    PROVE  Sends(k, Call({"Namespace"}, o, m), w)
<1>. DEFINE c == Call({"Namespace"}, o, m)
<1>1. c.names = {"Namespace"} /\ c.msg = m /\ c.args = o
  BY DEF Call
<1>2. \A f : Attr(k, f) = f
  BY DEF Attr
<1>3. \A f \in SetFields[k] \ SetNotReturned(k) :
        f \notin {"Namespace", "NET_NS_PID", "NET_NS_FD"}
  BY DEF SetFields, SetNotReturned
<1>. SUFFICES ASSUME NEW f \in SetFields[k] \ SetNotReturned(k)
              PROVE  /\ f \in c.names => Attr(k, f) \in DOMAIN c.msg /\ c.msg[Attr(k, f)] = c.args \cap {f}
                     /\ f \notin c.names =>
                          /\ f \notin c.args
                          /\ Attr(k, f) \in DOMAIN c.msg =>
                               Attr(k, f) \in DOMAIN w /\ c.msg[Attr(k, f)] = w[Attr(k, f)]
  BY DEF Sends
<1>. HIDE DEF c
<1>. QED BY <1>1, <1>2, <1>3

\* The calls on a link or a bridge.
LEMMA LinkCallsSend ==
    ASSUME NEW k \in {"set_link", "set_bridge"}, NEW w, NEW c \in LinkCalls
    PROVE  Sends(k, c, w)
<1>. DEFINE Switches ==
              {Switch("NoARP", LinkSetARPOff), Switch("NoARP", LinkSetARPOn),
               Switch("Promisc", SetPromiscOn), Switch("Promisc", SetPromiscOff),
               Switch("Allmulti", LinkSetAllmulticastOn), Switch("Allmulti", LinkSetAllmulticastOff),
               Switch("Multi", LinkSetMulticastOn), Switch("Multi", LinkSetMulticastOff),
               Switch("FlagUp", LinkSetUp), Switch("FlagUp", LinkSetDown),
               Switch("MasterIndex", LinkSetNoMaster),
               Switch("MasterIndex", LinkSetMaster({"MasterIndex"})),
               Switch("MasterIndex", LinkSetBondSlave({"MasterIndex"}))}
<1>1. \A f : Attr(k, f) = f
  BY DEF Attr
<1>2. CASE c \in Switches
  <2>1. \A f : /\ DOMAIN Put({f}, {f}) = {f} /\ Put({f}, {f})[f] \subseteq {f}
               /\ DOMAIN Put({}, {f}) = {f} /\ Put({}, {f})[f] \subseteq {f}
               /\ DOMAIN PutIf({f}, {f}) = {f} /\ PutIf({f}, {f})[f] \subseteq {f}
    BY DEF Put, PutIf
  <2>2. \E f : \E m \in {Put({f}, {f}), Put({}, {f}), PutIf({f}, {f})} : c = Switch(f, m)
    BY <1>2 DEF LinkSetARPOff, LinkSetARPOn, SetPromiscOn, SetPromiscOff,
       LinkSetAllmulticastOn,
       LinkSetAllmulticastOff, LinkSetMulticastOn, LinkSetMulticastOff, LinkSetUp, LinkSetDown,
       LinkSetNoMaster, LinkSetMaster, LinkSetBondSlave
  <2>3. PICK f : \E m \in {Put({f}, {f}), Put({}, {f}), PutIf({f}, {f})} : c = Switch(f, m)
    BY <2>2
  <2>4. PICK m \in {Put({f}, {f}), Put({}, {f}), PutIf({f}, {f})} : c = Switch(f, m)
    BY <2>3
  <2>5. DOMAIN m = {f} /\ m[f] \subseteq {f}
    BY <2>1, <2>4
  <2>. QED BY <2>4, <2>5, SwitchSends
<1>3. ASSUME NEW f, c \in {Call({f}, o, Put(o, {f})) : o \in SUBSET {f}} PROVE Sends(k, c, w)
  <2>1. PICK o \in SUBSET {f} : c = Call({f}, o, Put(o, {f}))
    BY <1>3
  <2>2. DOMAIN Put(o, {f}) = {f} /\ Put(o, {f})[f] = o \cap {f}
    BY DEF Put
  <2>. QED BY <1>1, <2>1, <2>2, CallSends
<1>4. CASE \E f : c \in {Call({f}, o, Put(o, {f})) : o \in SUBSET {f}}
  BY <1>3, <1>4
<1>5. CASE c \in Calls({"Xdp.Fd", "Xdp.Flags"}, LinkSetXdpFd)
  <2>1. PICK o \in SUBSET {"Xdp.Fd", "Xdp.Flags"} :
          c = Call({"Xdp.Fd", "Xdp.Flags"}, o, LinkSetXdpFd(o))
    BY <1>5 DEF Calls
  <2>2. /\ DOMAIN LinkSetXdpFd(o) = {"Xdp.Fd", "Xdp.Flags"}
        /\ \A f \in {"Xdp.Fd", "Xdp.Flags"} : LinkSetXdpFd(o)[f] = o \cap {f}
    BY DEF LinkSetXdpFd, addXdpAttrs, When, Put, PutIf, @@
  <2>. QED BY <1>1, <2>1, <2>2, CallSends
<1>6. CASE c \in Calls({"Namespace"}, LinkSetNsPid)
  <2>1. PICK o \in SUBSET {"Namespace"} : c = Call({"Namespace"}, o, LinkSetNsPid(o))
    BY <1>6 DEF Calls
  <2>2. DOMAIN LinkSetNsPid(o) \subseteq {"NET_NS_PID"}
    BY DEF LinkSetNsPid, PutAs
  <2>. QED BY <1>1, <2>1, <2>2, NamespaceSends
<1>7. CASE c \in Calls({"Namespace"}, LinkSetNsFd)
  <2>1. PICK o \in SUBSET {"Namespace"} : c = Call({"Namespace"}, o, LinkSetNsFd(o))
    BY <1>7 DEF Calls
  <2>2. DOMAIN LinkSetNsFd(o) \subseteq {"NET_NS_FD"}
    BY DEF LinkSetNsFd, PutAs
  <2>. QED BY <1>1, <2>1, <2>2, NamespaceSends
<1>8. c \in Switches \/ (\E f : c \in {Call({f}, o, Put(o, {f})) : o \in SUBSET {f}})
      \/ c \in Calls({"Xdp.Fd", "Xdp.Flags"}, LinkSetXdpFd)
      \/ c \in Calls({"Namespace"}, LinkSetNsPid) \/ c \in Calls({"Namespace"}, LinkSetNsFd)
  <2>. HIDE DEF Switches
  <2>1. /\ Calls({"MTU"}, LinkSetMTU) = {Call({"MTU"}, o, Put(o, {"MTU"})) : o \in SUBSET {"MTU"}}
        /\ Calls({"Name"}, LinkSetName) = {Call({"Name"}, o, Put(o, {"Name"})) : o \in SUBSET {"Name"}}
        /\ Calls({"Alias"}, LinkSetAlias)
             = {Call({"Alias"}, o, Put(o, {"Alias"})) : o \in SUBSET {"Alias"}}
        /\ Calls({"HardwareAddr"}, LinkSetHardwareAddr)
             = {Call({"HardwareAddr"}, o, Put(o, {"HardwareAddr"})) : o \in SUBSET {"HardwareAddr"}}
        /\ Calls({"TxQLen"}, LinkSetTxQLen)
             = {Call({"TxQLen"}, o, Put(o, {"TxQLen"})) : o \in SUBSET {"TxQLen"}}
        /\ Calls({"Group"}, LinkSetGroup)
             = {Call({"Group"}, o, Put(o, {"Group"})) : o \in SUBSET {"Group"}}
    BY DEF Calls, LinkSetMTU, LinkSetName, LinkSetAlias, LinkSetHardwareAddr, LinkSetTxQLen,
       LinkSetGroup
  <2>. DEFINE X == Calls({"Xdp.Fd", "Xdp.Flags"}, LinkSetXdpFd)
              P == Calls({"Namespace"}, LinkSetNsPid)
              N == Calls({"Namespace"}, LinkSetNsFd)
              M1 == Calls({"MTU"}, LinkSetMTU)
              M2 == Calls({"Name"}, LinkSetName)
              M3 == Calls({"Alias"}, LinkSetAlias)
              M4 == Calls({"HardwareAddr"}, LinkSetHardwareAddr)
              M5 == Calls({"TxQLen"}, LinkSetTxQLen)
              M6 == Calls({"Group"}, LinkSetGroup)
  <2>2. LinkCalls = Switches \cup M1 \cup M2 \cup M3 \cup M4 \cup M5 \cup M6 \cup X \cup P \cup N
    BY DEF LinkCalls, Switches
  <2>. DEFINE Single(f) == {Call({f}, o, Put(o, {f})) : o \in SUBSET {f}}
  <2>3. /\ M1 = Single("MTU") /\ M2 = Single("Name") /\ M3 = Single("Alias")
        /\ M4 = Single("HardwareAddr") /\ M5 = Single("TxQLen") /\ M6 = Single("Group")
    BY <2>1
  <2>. HIDE DEF X, P, N, M1, M2, M3, M4, M5, M6, Single
  <2>4. c \in Switches \/ (\E f : c \in Single(f)) \/ c \in X \/ c \in P \/ c \in N
    BY <2>2, <2>3
  <2>. QED BY <2>4 DEF X, P, N, Single
<1>. QED BY <1>2, <1>4, <1>5, <1>6, <1>7, <1>8

\* The addresses of a macvlan: the others stay as they are.
LEMMA MacAddrSends ==
    ASSUME NEW w, NEW addrs \in SUBSET MacAddrs, NEW o \in SUBSET addrs
    PROVE  Sends("set_macvlan", Call(addrs, o, Put(o, addrs) @@ w), w)
<1>. DEFINE m == Put(o, addrs) @@ w
            c == Call(addrs, o, m)
<1>1. c.names = addrs /\ c.msg = m /\ c.args = o
  BY DEF Call
<1>2. \A f \in addrs : Attr("set_macvlan", f) = f
  BY DEF Attr, macvlanModes, MacAddrs
<1>3. \A f \in addrs : f \in DOMAIN m /\ m[f] = o \cap {f}
  BY DEF Put, @@
<1>4. \A a : a \notin addrs /\ a \in DOMAIN m => a \in DOMAIN w /\ m[a] = w[a]
  BY DEF Put, @@
<1>5. \A f \in SetFields["set_macvlan"] :
        f \notin addrs => Attr("set_macvlan", f) \notin addrs
  BY DEF SetFields, Attr, macvlanModes, MacAddrs
<1>. HIDE DEF c, m
<1>. QED BY <1>1, <1>2, <1>3, <1>4, <1>5 DEF Sends, c, m

\* The calls on a macvlan.
LEMMA MacvlanCallsSend ==
    ASSUME NEW w, NEW c \in MacvlanCalls(w)
    PROVE  Sends("set_macvlan", c, w)
<1>1. ASSUME NEW f \in MacAddrs, c = Call({f}, {f}, macvlanMACAddrChange(w, "ADD", {f}))
      PROVE  Sends("set_macvlan", c, w)
  <2>1. macvlanMACAddrChange(w, "ADD", {f}) = Put({f}, {f}) @@ w
    BY DEF macvlanMACAddrChange
  <2>. QED BY <1>1, <2>1, MacAddrSends
<1>2. ASSUME NEW f \in MacAddrs, c = Call({f}, {}, macvlanMACAddrChange(w, "DEL", {f}))
      PROVE  Sends("set_macvlan", c, w)
  <2>1. macvlanMACAddrChange(w, "DEL", {f}) = Put({}, {f}) @@ w
    BY DEF macvlanMACAddrChange
  <2>. QED BY <1>2, <2>1, MacAddrSends
<1>3. ASSUME c = Call(MacAddrs, {}, macvlanMACAddrChange(w, "FLUSH", {}))
      PROVE  Sends("set_macvlan", c, w)
  <2>1. macvlanMACAddrChange(w, "FLUSH", {}) = Put({}, MacAddrs) @@ w
    BY DEF macvlanMACAddrChange
  <2>. QED BY <1>3, <2>1, MacAddrSends
<1>4. ASSUME NEW o \in SUBSET MacAddrs,
             c = Call(MacAddrs, o, macvlanMACAddrChange(w, "SET", o))
      PROVE  Sends("set_macvlan", c, w)
  <2>1. macvlanMACAddrChange(w, "SET", o) = Put(o, MacAddrs) @@ w
    BY DEF macvlanMACAddrChange
  <2>. QED BY <1>4, <2>1, MacAddrSends
<1>5. ASSUME NEW f \in DOMAIN macvlanModes,
             c = Call(DOMAIN macvlanModes, {f}, LinkSetMacvlanMode({f}))
      PROVE  Sends("set_macvlan", c, w)
  <2>. DEFINE m == LinkSetMacvlanMode({f})
  <2>1. c.names = DOMAIN macvlanModes /\ c.msg = m /\ c.args = {f}
    BY <1>5 DEF Call
  <2>2. DOMAIN m = {macvlanModes[g] : g \in DOMAIN macvlanModes}
    BY DEF LinkSetMacvlanMode
  <2>3. \A g \in DOMAIN macvlanModes :
          macvlanModes[g] \in DOMAIN m /\ m[macvlanModes[g]] = {f} \cap {g}
    <3>1. \A g, h \in DOMAIN macvlanModes : macvlanModes[g] = macvlanModes[h] => g = h
      BY DEF macvlanModes
    <3>. QED BY <2>2, <3>1 DEF LinkSetMacvlanMode
  <2>4. \A g \in DOMAIN macvlanModes : Attr("set_macvlan", g) = macvlanModes[g]
    BY DEF Attr
  <2>5. \A g \in SetFields["set_macvlan"] :
          g \notin DOMAIN macvlanModes => Attr("set_macvlan", g) \notin DOMAIN m
    <3>1. \A g \in MacAddrs : Attr("set_macvlan", g) \notin {"1", "2", "4", "8", "16"}
      BY DEF Attr, MacAddrs, macvlanModes
    <3>2. \A g \in DOMAIN macvlanModes : macvlanModes[g] \in {"1", "2", "4", "8", "16"}
      BY DEF macvlanModes
    <3>3. \A g \in SetFields["set_macvlan"] : g \in MacAddrs \/ g \in DOMAIN macvlanModes
      BY DEF SetFields
    <3>. QED BY <2>2, <3>1, <3>2, <3>3
  <2>. HIDE DEF m
  <2>. QED BY <2>1, <2>3, <2>4, <2>5 DEF Sends
<1>6. \/ \E f \in MacAddrs : c = Call({f}, {f}, macvlanMACAddrChange(w, "ADD", {f}))
      \/ \E f \in MacAddrs : c = Call({f}, {}, macvlanMACAddrChange(w, "DEL", {f}))
      \/ c = Call(MacAddrs, {}, macvlanMACAddrChange(w, "FLUSH", {}))
      \/ \E o \in SUBSET MacAddrs : c = Call(MacAddrs, o, macvlanMACAddrChange(w, "SET", o))
      \/ \E f \in DOMAIN macvlanModes :
           c = Call(DOMAIN macvlanModes, {f}, LinkSetMacvlanMode({f}))
  BY DEF MacvlanCalls
<1>. QED BY <1>1, <1>2, <1>3, <1>4, <1>5, <1>6

\* A call that sends the arguments under their own names, all of them.
LEMMA PutSends ==
    ASSUME NEW k \in {"set_vf", "set_bond_slave", "set_port_vlan"}, NEW F, NEW o \in SUBSET F, NEW w
    PROVE  Sends(k, Call(F, o, Put(o, F)), w)
<1>1. \A f : Attr(k, f) = f
  BY DEF Attr
<1>2. DOMAIN Put(o, F) = F /\ \A f \in F : Put(o, F)[f] = o \cap {f}
  BY DEF Put
<1>. QED BY <1>1, <1>2, CallSends

\* The calls on a virtual function.
LEMMA VfCallsSend ==
    ASSUME NEW w, NEW c \in VfCalls
    PROVE  Sends("set_vf", c, w)
<1>1. CASE c \in {Call({"Vlan", "Qos"}, o, LinkSetVfVlan(o)) : o \in SUBSET {"Vlan"}}
  <2>1. PICK o \in SUBSET {"Vlan"} : c = Call({"Vlan", "Qos"}, o, LinkSetVfVlan(o))
    BY <1>1
  <2>2. o \ {"Qos"} = o
    OBVIOUS
  <2>3. LinkSetVfVlan(o) = Put(o, {"Vlan", "Qos"})
    BY <2>2 DEF LinkSetVfVlan
  <2>4. o \in SUBSET {"Vlan", "Qos"}
    OBVIOUS
  <2>. QED BY <2>1, <2>3, <2>4, PutSends
<1>2. CASE \E F : c \in {Call(F, o, Put(o, F)) : o \in SUBSET F}
  <2>1. PICK F : c \in {Call(F, o, Put(o, F)) : o \in SUBSET F}
    BY <1>2
  <2>2. PICK o \in SUBSET F : c = Call(F, o, Put(o, F))
    BY <2>1
  <2>. QED BY <2>2, PutSends
<1>. DEFINE All(F) == {Call(F, o, Put(o, F)) : o \in SUBSET F}
            V == {Call({"Vlan", "Qos"}, o, LinkSetVfVlan(o)) : o \in SUBSET {"Vlan"}}
            Q == Calls({"Vlan", "Qos"}, LinkSetVfVlanQos)
            M == Calls({"Mac"}, LinkSetVfHardwareAddr)
            T == Calls({"TxRate"}, LinkSetVfTxRate)
            R == Calls({"MinTxRate", "MaxTxRate"}, LinkSetVfRate)
            L == Calls({"LinkState"}, LinkSetVfState)
            S == Calls({"Spoofchk"}, LinkSetVfSpoofchk)
            U == Calls({"Trust"}, LinkSetVfTrust)
            Guids == {{Call({g}, o, LinkSetVfGUID(o, g)) : o \in SUBSET {g}} : g \in {"NodeGUID", "PortGUID"}}
<1>3. VfCalls = V \cup Q \cup M \cup T \cup R \cup L \cup S \cup U \cup UNION Guids
  BY DEF VfCalls
<1>4. /\ Q = All({"Vlan", "Qos"}) /\ M = All({"Mac"}) /\ T = All({"TxRate"})
      /\ R = All({"MinTxRate", "MaxTxRate"}) /\ L = All({"LinkState"})
      /\ S = All({"Spoofchk"}) /\ U = All({"Trust"})
  BY DEF Calls, LinkSetVfVlanQos, LinkSetVfHardwareAddr, LinkSetVfTxRate, LinkSetVfRate,
     LinkSetVfState, LinkSetVfSpoofchk, LinkSetVfTrust
<1>5. \A s \in Guids : \E g : s = All({g})
  BY DEF LinkSetVfGUID
<1>. HIDE DEF All, V, Q, M, T, R, L, S, U, Guids
<1>6. c \in V \/ \E F : c \in All(F)
  BY <1>3, <1>4, <1>5
<1>. QED BY <1>1, <1>2, <1>6 DEF V, All

\* The calls on a slave of a bond.
LEMMA BondSlaveCallsSend ==
    ASSUME NEW w, NEW c \in Calls({"QueueId"}, LinkSetBondSlaveQueueId)
    PROVE  Sends("set_bond_slave", c, w)
<1>1. PICK o \in SUBSET {"QueueId"} : c = Call({"QueueId"}, o, Put(o, {"QueueId"}))
  BY DEF Calls, LinkSetBondSlaveQueueId
<1>. QED BY <1>1, PutSends

\* The calls on a port: one attribute each.
LEMMA PortCallSends ==
    ASSUME NEW w, NEW f \in ProtinfoFields, NEW o \in SUBSET {f}, NEW c,
           c = Call({f}, o, setProtinfoAttr(o, PortAttr[f]))
    PROVE  Sends("set_port", c, w)
<1>. DEFINE m == setProtinfoAttr(o, PortAttr[f])
<1>1. c.names = {f} /\ c.msg = m /\ c.args = o
  BY DEF Call
<1>2. DOMAIN m = {PortAttr[f]} /\ m[PortAttr[f]] = o \cap {f}
  BY DEF setProtinfoAttr, :>
<1>3. \A g : Attr("set_port", g) = PortAttr[g]
  BY DEF Attr
<1>4. \A g \in ProtinfoFields : PortAttr[g] = PortAttr[f] => g = f
  BY DEF ProtinfoFields, PortAttr
<1>5. SetFields["set_port"] = ProtinfoFields
  BY DEF SetFields
<1>. HIDE DEF m
<1>. QED BY <1>1, <1>2, <1>3, <1>4, <1>5 DEF Sends

\* The calls on a port.
LEMMA PortCallsSend ==
    ASSUME NEW w, NEW c \in PortCalls
    PROVE  Sends("set_port", c, w)
<1>. DEFINE One(f) == {Call({f}, o, setProtinfoAttr(o, PortAttr[f])) : o \in SUBSET {f}}
            H == Calls({"Hairpin"}, LinkSetHairpin)
            G == Calls({"Guard"}, LinkSetGuard)
            F == Calls({"FastLeave"}, LinkSetFastLeave)
            L == Calls({"Learning"}, LinkSetLearning)
            R == Calls({"RootBlock"}, LinkSetRootBlock)
            U == Calls({"Flood"}, LinkSetFlood)
            P == Calls({"ProxyArp"}, LinkSetBrProxyArp)
            W == Calls({"ProxyArpWiFi"}, LinkSetBrProxyArpWiFi)
<1>1. PortCalls = H \cup G \cup F \cup L \cup R \cup U \cup P \cup W
  BY DEF PortCalls
<1>2. /\ PortAttr["Hairpin"] = "MODE" /\ PortAttr["Guard"] = "GUARD"
      /\ PortAttr["FastLeave"] = "FAST_LEAVE" /\ PortAttr["Learning"] = "LEARNING"
      /\ PortAttr["RootBlock"] = "PROTECT" /\ PortAttr["Flood"] = "UNICAST_FLOOD"
      /\ PortAttr["ProxyArp"] = "PROXYARP" /\ PortAttr["ProxyArpWiFi"] = "PROXYARP_WIFI"
  BY DEF PortAttr
<1>3. /\ H = One("Hairpin") /\ G = One("Guard") /\ F = One("FastLeave") /\ L = One("Learning")
      /\ R = One("RootBlock") /\ U = One("Flood") /\ P = One("ProxyArp")
      /\ W = One("ProxyArpWiFi")
  BY <1>2 DEF Calls, LinkSetHairpin, LinkSetGuard, LinkSetFastLeave, LinkSetLearning,
     LinkSetRootBlock, LinkSetFlood, LinkSetBrProxyArp, LinkSetBrProxyArpWiFi
<1>. HIDE DEF One, H, G, F, L, R, U, P, W
<1>4. \E f \in ProtinfoFields : c \in One(f)
  BY <1>1, <1>3 DEF ProtinfoFields
<1>5. PICK f \in ProtinfoFields : c \in One(f)
  BY <1>4
<1>6. PICK o \in SUBSET {f} : c = Call({f}, o, setProtinfoAttr(o, PortAttr[f]))
  BY <1>5 DEF One
<1>. QED BY <1>6, PortCallSends

\* The calls on the vlans of a port.
LEMMA PortVlanCallsSend ==
    ASSUME NEW w, NEW c \in PortVlanCalls
    PROVE  Sends("set_port_vlan", c, w)
<1>1. ASSUME NEW o \in SUBSET BridgeVlanFields, "Vid" \in o,
             c = Call(BridgeVlanFields, o, BridgeVlanAdd(o))
      PROVE  Sends("set_port_vlan", c, w)
  <2>1. BridgeVlanAdd(o) = Put(o, BridgeVlanFields)
    BY <1>1 DEF BridgeVlanAdd
  <2>. QED BY <1>1, <2>1, PutSends
<1>2. ASSUME NEW o \in SUBSET BridgeVlanFields, "Vid" \in o,
             c = Call(BridgeVlanFields, {}, BridgeVlanDel(o))
      PROVE  Sends("set_port_vlan", c, w)
  <2>1. BridgeVlanDel(o) = Put({}, BridgeVlanFields)
    BY <1>2 DEF BridgeVlanDel
  <2>. QED BY <1>2, <2>1, PutSends
<1>3. \E o \in SUBSET BridgeVlanFields :
         "Vid" \in o /\ (c = Call(BridgeVlanFields, o, BridgeVlanAdd(o))
                         \/ c = Call(BridgeVlanFields, {}, BridgeVlanDel(o)))
  BY DEF PortVlanCalls
<1>. QED BY <1>1, <1>2, <1>3

\* Every call that SetCalls has.
LEMMA SetCallsSend ==
    ASSUME NEW k \in DOMAIN SetFields, NEW w, NEW c \in SetCalls(k, w)
    PROVE  Sends(k, c, w)
<1>1. CASE k = "set_link"
  BY <1>1, LinkCallsSend DEF SetCalls
<1>2. CASE k = "set_bridge"
  BY <1>2, LinkCallsSend DEF SetCalls
<1>3. CASE k = "set_macvlan"
  BY <1>3, MacvlanCallsSend DEF SetCalls
<1>4. CASE k = "set_bond_slave"
  BY <1>4, BondSlaveCallsSend DEF SetCalls
<1>5. CASE k = "set_vf"
  BY <1>5, VfCallsSend DEF SetCalls
<1>6. CASE k = "set_port"
  BY <1>6, PortCallsSend DEF SetCalls
<1>7. CASE k = "set_port_vlan"
  BY <1>7, PortVlanCallsSend DEF SetCalls
<1>8. k \in {"set_link", "set_bridge", "set_macvlan", "set_bond_slave", "set_vf", "set_port",
             "set_port_vlan"}
  BY DEF SetFields
<1>. QED BY <1>1, <1>2, <1>3, <1>4, <1>5, <1>6, <1>7, <1>8

\* A link of the kernel's, as the program finds it.
LEMMA FoundKept ==
    ASSUME NEW k \in DOMAIN SetFields, NEW o, o = {} \/ k = "set_bridge", NEW r
    PROVE  Kept(k, Put(o, SetFields[k]), o, r)
<1>1. CASE o = {}
  <2>1. \A a : Value(Put(o, SetFields[k]), a) = {}
    BY <1>1 DEF Value, Put
  <2>. QED BY <1>1, <2>1 DEF Kept
<1>2. CASE k = "set_bridge"
  <2>1. \A f : Attr(k, f) = f
    BY <1>2 DEF Attr
  <2>2. \A f \in SetFields[k] : Value(Put(o, SetFields[k]), f) = o \cap {f}
    BY DEF Value, Put
  <2>. QED BY <2>1, <2>2 DEF Kept
<1>. QED BY <1>1, <1>2

\* The copy of a bridge that is sent again: each field under its own name.
LEMMA BridgeSetValue ==
    ASSUME NEW o, NEW attr \in {"MulticastSnooping", "VlanFiltering"}, NEW on \in BOOLEAN
    PROVE  LET m == BridgeSet(o, attr, on)
           IN  /\ attr \in DOMAIN m /\ m[attr] = IF on THEN {attr} ELSE {}
               /\ \A f \in DOMAIN m : m[f] \subseteq {f}
<1>. DEFINE A == attr :> (IF on THEN {attr} ELSE {})
            B == addBridgeAttrs(o)
            C == linkModifyAttrs(o)
            D == linkModifyMaster(o)
            m == BridgeSet(o, attr, on)
<1>1. DOMAIN A = {attr} /\ A[attr] = IF on THEN {attr} ELSE {}
  BY DEF :>
<1>2. \A f \in DOMAIN B : B[f] \subseteq {f}
  BY DEF addBridgeAttrs, PutIf
<1>3. \A f \in DOMAIN C : C[f] \subseteq {f}
  BY DEF linkModifyAttrs, addXdpAttrs, When, Put, PutIf, @@
<1>4. \A f \in DOMAIN D : D[f] \subseteq {f}
  BY DEF linkModifyMaster, PutIf
<1>5. m = A @@ B @@ C @@ D
  BY DEF BridgeSet
<1>. HIDE DEF A, B, C, D, m
<1>6. attr \in DOMAIN m /\ m[attr] = IF on THEN {attr} ELSE {}
  BY <1>1, <1>5 DEF @@
<1>7. \A f \in DOMAIN m : m[f] \subseteq {f}
  BY <1>1, <1>2, <1>3, <1>4, <1>5 DEF @@
<1>. QED BY <1>6, <1>7 DEF m

\* The fields of a message that differ from what was given.
Old(m, g) == {f \in DOMAIN m : (m[f] # {}) # (f \in g)}

\* A bridge's setter keeps what it is to set, and reverts what is old of the copy.
LEMMA BridgeKept ==
    ASSUME NEW o, NEW attr \in {"MulticastSnooping", "VlanFiltering"}, NEW on \in BOOLEAN,
           NEW w, NEW g, NEW r, Kept("set_bridge", w, g, r)
    PROVE  Kept("set_bridge", BridgeSet(o, attr, on) @@ w,
                (g \ {attr}) \cup (IF on THEN {attr} ELSE {}),
                (r \cup Old(BridgeSet(o, attr, on), g)) \ {attr})
<1>. DEFINE m == BridgeSet(o, attr, on)
            set == IF on THEN {attr} ELSE {}
            old == Old(m, g)
<1>1. attr \in DOMAIN m /\ m[attr] = set /\ \A f \in DOMAIN m : m[f] \subseteq {f}
  BY BridgeSetValue
<1>2. \A f : Attr("set_bridge", f) = f
  BY DEF Attr
<1>. HIDE DEF m
<1>3. ASSUME NEW f \in SetFields["set_bridge"] \ (SetNotReturned("set_bridge") \cup ((r \cup old) \ {attr}))
      PROVE  Value(m @@ w, f) = ((g \ {attr}) \cup set) \cap {f}
  <2>1. CASE f = attr
    BY <1>1, <2>1 DEF Value, @@
  <2>2. CASE f # attr /\ f \in DOMAIN m
    <3>1. (m[f] # {}) <=> (f \in g)
      BY <1>3, <2>2 DEF Old
    <3>2. m[f] = g \cap {f}
      BY <1>1, <2>2, <3>1
    <3>3. f \notin set
      BY <2>2
    <3>. QED BY <2>2, <3>2, <3>3 DEF Value, @@
  <2>3. CASE f # attr /\ f \notin DOMAIN m
    <3>1. Value(w, f) = g \cap {f}
      BY <1>2, <1>3, <2>3 DEF Kept
    <3>2. Value(m @@ w, f) = Value(w, f)
      BY <2>3, OtherPart
    <3>. QED BY <2>3, <3>1, <3>2
  <2>. QED BY <2>1, <2>2, <2>3
<1>. QED BY <1>2, <1>3 DEF Kept, m

-----------------------------------------------------------------------------
(* The invariant.                                                          *)

\* A kind is in one table.
LEMMA OneTable ==
    /\ \A k \in DOMAIN LinkFields :
         k \notin DOMAIN FilterFields \cup DOMAIN ActionFields \cup DOMAIN QdiscFields
                  \cup DOMAIN ClassFields \cup DOMAIN RouteKindFields \cup DOMAIN SetFields
    /\ \A k \in DOMAIN FilterFields :
         k \notin DOMAIN ActionFields \cup DOMAIN QdiscFields
                  \cup DOMAIN ClassFields \cup DOMAIN RouteKindFields \cup DOMAIN SetFields
    /\ \A k \in DOMAIN ActionFields :
         k \notin DOMAIN QdiscFields
                  \cup DOMAIN ClassFields \cup DOMAIN RouteKindFields \cup DOMAIN SetFields
    /\ \A k \in DOMAIN QdiscFields :
         k \notin DOMAIN ClassFields \cup DOMAIN RouteKindFields \cup DOMAIN SetFields
    /\ \A k \in DOMAIN ClassFields : k \notin DOMAIN RouteKindFields \cup DOMAIN SetFields
    /\ \A k \in DOMAIN RouteKindFields : k \notin DOMAIN SetFields
<1>1. DOMAIN LinkFields =
        {"device", "vlan", "veth", "vxlan", "bond", "bond_slave", "ipvlan", "ipvtap", "macvlan",
         "macvtap", "geneve", "gretap", "ipip", "ip6tnl", "sit", "gre", "vti", "vrf", "bridge",
         "gtp", "xfrm", "tun", "ipoib", "bareudp"}
  BY DEF LinkFields
<1>2. DOMAIN FilterFields = {"u32", "fw", "bpf", "matchall", "dhcmatchall", "flower"}
  BY DEF FilterFields
<1>3. DOMAIN ActionFields =
        {"gact", "police", "mirred", "tunnel_key", "skbedit", "connmark", "csum", "bpf_act"}
  BY DEF ActionFields
<1>4. DOMAIN QdiscFields = {"prio", "tbf", "htb", "hfsc", "netem", "fq_codel", "fq", "sfq"}
  BY DEF QdiscFields
<1>5. DOMAIN ClassFields = {"htb_class", "hfsc_class"}
  BY DEF ClassFields
<1>6. DOMAIN RouteKindFields =
        {"mpls_encap", "seg6_encap", "seg6local_encap", "bpf_encap", "via", "nexthop", "route",
         "rule", "neigh", "addr"}
  BY DEF RouteKindFields
<1>7. DOMAIN SetFields = {"set_link", "set_bridge", "set_macvlan", "set_bond_slave", "set_vf",
                          "set_port", "set_port_vlan"}
  BY DEF SetFields
<1>. QED BY <1>1, <1>2, <1>3, <1>4, <1>5, <1>6, <1>7

\* The fields of a kind, and what of them does not come back.
LEMMA KindsValue ==
    ASSUME NEW k, NEW o
    PROVE  /\ k \in DOMAIN LinkFields =>
                Kinds[k] = LinkFields[k] /\ NotReturned(k, o) = LinkNotReturned(k, o)
           /\ k \in DOMAIN FilterFields =>
                Kinds[k] = FilterFields[k] /\ NotReturned(k, o) = TcNotReturned(k, o)
           /\ k \in DOMAIN ActionFields =>
                Kinds[k] = ActionFields[k] /\ NotReturned(k, o) = TcNotReturned(k, o)
           /\ k \in DOMAIN QdiscFields =>
                Kinds[k] = QdiscFields[k] /\ NotReturned(k, o) = TcNotReturned(k, o)
           /\ k \in DOMAIN ClassFields =>
                Kinds[k] = ClassFields[k] /\ NotReturned(k, o) = TcNotReturned(k, o)
           /\ k \in DOMAIN RouteKindFields =>
                Kinds[k] = RouteKindFields[k] /\ NotReturned(k, o) = RouteNotReturned(k, o)
           /\ k \in DOMAIN SetFields =>
                Kinds[k] = SetFields[k] /\ NotReturned(k, o) = SetNotReturned(k) \cup reverted
BY OneTable DEF Kinds, NotReturned, @@

\* What is written is what will be read: by its decoder in one step, or call by
\* call where a link is changed.
WrittenRight ==
    step = "written" =>
      /\ kind \in DOMAIN LinkFields =>
           Returned(LinkFields[kind], given, LinkDeserialize(kind, wire), LinkNotReturned(kind, given))
      /\ kind \in DOMAIN FilterFields =>
           Returned(FilterFields[kind], given, FilterList(kind, wire), TcNotReturned(kind, given))
      /\ kind \in DOMAIN ActionFields =>
           Returned(ActionFields[kind], given, parseActions(kind, wire), TcNotReturned(kind, given))
      /\ kind \in DOMAIN QdiscFields =>
           Returned(QdiscFields[kind], given, QdiscList(kind, wire), TcNotReturned(kind, given))
      /\ kind \in DOMAIN ClassFields =>
           Returned(ClassFields[kind], given, ClassList(kind, wire), TcNotReturned(kind, given))
      /\ kind \in DOMAIN RouteKindFields =>
           Returned(RouteKindFields[kind], given, RouteDecode(kind, wire),
                    RouteNotReturned(kind, given))
      /\ kind \in DOMAIN SetFields => Kept(kind, wire, given, reverted)

\* The object that was read is the one that was given.
ReadRight == step = "read" => Returned(Kinds[kind], given, got, NotReturned(kind, given))

LEMMA ReadRightIsReadBack == ReadRight <=> ReadBack
BY DEF ReadRight, ReadBack, Returned, Value

\* The inductive invariant of the objects.
Inv == WrittenRight /\ ReadRight /\ FilterHonoured

\* The invariant is about the object, and an object that is neither written, read
\* nor listed says nothing.
LEMMA InvIdle == ASSUME step \notin {"written", "read", "listed"} PROVE Inv
BY DEF Inv, WrittenRight, ReadRight, FilterHonoured

\* A step that writes an object as its decoder wants it keeps the invariant.
LEMMA WrittenInv ==
    ASSUME NEW k, NEW o, NEW m, Written(k, o, m),
           /\ k \in DOMAIN LinkFields =>
                Returned(LinkFields[k], o, LinkDeserialize(k, m), LinkNotReturned(k, o))
           /\ k \in DOMAIN FilterFields =>
                Returned(FilterFields[k], o, FilterList(k, m), TcNotReturned(k, o))
           /\ k \in DOMAIN ActionFields =>
                Returned(ActionFields[k], o, parseActions(k, m), TcNotReturned(k, o))
           /\ k \in DOMAIN QdiscFields =>
                Returned(QdiscFields[k], o, QdiscList(k, m), TcNotReturned(k, o))
           /\ k \in DOMAIN ClassFields =>
                Returned(ClassFields[k], o, ClassList(k, m), TcNotReturned(k, o))
           /\ k \in DOMAIN RouteKindFields =>
                Returned(RouteKindFields[k], o, RouteDecode(k, m), RouteNotReturned(k, o)),
           k \notin DOMAIN SetFields
    PROVE  Inv'
<1>1. step' = "written" /\ kind' = k /\ given' = o /\ wire' = m
  BY DEF Written
<1>2. WrittenRight'
  BY <1>1 DEF WrittenRight
<1>3. ReadRight' /\ FilterHonoured'
  BY <1>1 DEF ReadRight, FilterHonoured
<1>. QED BY <1>2, <1>3 DEF Inv

\* A step that reads the object as it was given keeps the invariant.
LEMMA ReadInv ==
    ASSUME NEW object, Read(object),
           Returned(Kinds[kind], given, object, NotReturned(kind, given))
    PROVE  Inv'
<1>1. /\ step' = "read" /\ got' = object
      /\ kind' = kind /\ given' = given /\ reverted' = reverted
  BY DEF Read, setVars
<1>2. NotReturned(kind, given)' = NotReturned(kind, given)
  BY <1>1 DEF NotReturned
<1>3. ReadRight'
  BY <1>1, <1>2 DEF ReadRight
<1>4. WrittenRight' /\ FilterHonoured'
  BY <1>1 DEF WrittenRight, FilterHonoured
<1>. QED BY <1>3, <1>4 DEF Inv

-----------------------------------------------------------------------------
(* Lists.                                                                  *)

\* A set of numbers that is not empty has a least one.
LEMMA LeastOf ==
    ASSUME NEW S \in SUBSET Nat, NEW n \in S
    PROVE  \E i \in S : \A j \in S : i <= j
<1>. DEFINE R == OpToRel(<, Nat)
<1>1. \A x, y \in Nat : x < y => <<x, y>> \in R
  BY DEF OpToRel
<1>2. IsWellFoundedOn(R, Nat)
  BY NatLessThanWellFounded
<1>. HIDE DEF R
<1>3. \E i \in S : \A j \in S : ~ (<<j, i>> \in R)
  BY <1>2, WFMin
<1>4. PICK i \in S : \A j \in S : ~ (<<j, i>> \in R)
  BY <1>3
<1>5. ASSUME NEW j \in S PROVE i <= j
  <2>1. ~ (j < i)
    BY <1>1, <1>4
  <2>. QED BY <2>1
<1>. QED BY <1>5

\* What the filter asks for, and when a field of the route is as asked.
Rest(mask, agrees) ==
    Filtering(mask, agrees) \ (IF "DST" \in mask THEN {"HOPLIMIT"} ELSE {})
Same(f, agrees) == IF f = "DST" THEN DstAgrees(agrees) ELSE ~FieldDiffers(f, agrees)

\* RouteListFiltered's switch: the first case that holds is the destination's, and
\* it agrees, or none holds.  So all that is asked agrees but what comes after the
\* destination.
LEMMA RouteListedIs ==
    ASSUME NEW mask \in SUBSET {RouteFilterFields[i] : i \in 1..12}, NEW agrees
    PROVE  RouteListed(mask, agrees) <=>
             /\ "uncloned" \in agrees
             /\ "TABLE" \in Filtering(mask, agrees) \/ "main" \in agrees
             /\ \A f \in Rest(mask, agrees) : Same(f, agrees)
<1>. DEFINE F == RouteFilterFields
            ask == Filtering(mask, agrees)
            holds(i) == F[i] \in ask /\ (F[i] = "DST" \/ FieldDiffers(F[i], agrees))
            isFirst(i) == holds(i) /\ \A j \in 1..(i - 1) : ~holds(j)
            first == CHOOSE i \in 1..12 : isFirst(i)
            passed == (\E i \in 1..12 : holds(i)) => F[first] = "DST" /\ DstAgrees(agrees)
            allSame == \A f \in Rest(mask, agrees) : Same(f, agrees)
<1>1. RouteListed(mask, agrees) <=>
        "uncloned" \in agrees /\ ("TABLE" \in ask \/ "main" \in agrees) /\ passed
  BY DEF RouteListed
<1>2. /\ F[11] = "DST" /\ F[12] = "HOPLIMIT"
      /\ \A i \in 1..10 : F[i] # "DST" /\ F[i] # "HOPLIMIT"
  <2>1. /\ F[1] = "TABLE" /\ F[2] = "PROTOCOL" /\ F[3] = "SCOPE" /\ F[4] = "TYPE" /\ F[5] = "TOS"
        /\ F[6] = "REALM" /\ F[7] = "OIF" /\ F[8] = "IIF" /\ F[9] = "GW" /\ F[10] = "SRC"
        /\ F[11] = "DST" /\ F[12] = "HOPLIMIT"
    BY DEF RouteFilterFields
  <2>2. ASSUME NEW i \in 1..10 PROVE i \in {1, 2, 3, 4, 5, 6, 7, 8, 9, 10}
    OBVIOUS
  <2>. QED BY <2>1, <2>2
<1>3. /\ \A x \in ask : \E i \in 1..12 : x = F[i]
      /\ \A x : x \in Rest(mask, agrees) <=> x \in ask /\ ~("DST" \in mask /\ x = "HOPLIMIT")
      /\ \A x \in ask : x \in mask
      /\ \A x, y : x \in ask /\ y \in mask => y \in ask
  BY DEF Rest, Filtering
<1>. HIDE DEF F, ask
<1>4. ASSUME NEW n \in 1..12, holds(n) PROVE \E i \in 1..12 : isFirst(i)
  <2>. DEFINE S == {i \in 1..12 : holds(i)}
  <2>1. S \in SUBSET Nat /\ n \in S
    BY <1>4
  <2>. HIDE DEF holds
  <2>2. PICK i \in S : \A j \in S : i <= j
    BY <2>1, LeastOf
  <2>3. i \in 1..12 /\ holds(i)
    BY <2>2
  <2>4. \A j \in 1..(i - 1) : ~holds(j)
    <3>. SUFFICES ASSUME NEW j \in 1..(i - 1), holds(j) PROVE FALSE
      OBVIOUS
    <3>1. j \in S /\ j < i
      BY <2>3
    <3>. QED BY <2>1, <2>2, <2>3, <3>1
  <2>. QED BY <2>3, <2>4
<1>5. ASSUME NEW n \in 1..12, holds(n) PROVE first \in 1..12 /\ isFirst(first)
  <2>. HIDE DEF isFirst, holds
  <2>. QED BY <1>4, <1>5
<1>. HIDE DEF first
<1>6. passed => allSame
  <2>. SUFFICES ASSUME passed, NEW x \in Rest(mask, agrees), ~Same(x, agrees) PROVE FALSE
    OBVIOUS
  <2>1. x \in ask
    BY <1>3
  <2>2. PICK n \in 1..12 : x = F[n]
    BY <1>3, <2>1
  <2>3. holds(n)
    BY <2>1, <2>2 DEF Same
  <2>4. first \in 1..12 /\ isFirst(first) /\ F[first] = "DST" /\ DstAgrees(agrees)
    BY <1>5, <2>3
  <2>5. first = 11
    BY <1>2, <2>4
  <2>6. n \notin 1..10
    BY <2>3, <2>4, <2>5
  <2>7. n # 11
    BY <1>2, <2>2, <2>4 DEF Same
  <2>8. x = "HOPLIMIT" /\ "DST" \in mask
    BY <1>2, <1>3, <2>2, <2>4, <2>5, <2>6, <2>7
  <2>. QED BY <1>3, <2>8
<1>7. allSame => passed
  <2>. SUFFICES ASSUME allSame, NEW n \in 1..12, holds(n)
                PROVE  F[first] = "DST" /\ DstAgrees(agrees)
    OBVIOUS
  <2>1. first \in 1..12 /\ isFirst(first)
    BY <1>5
  <2>2. F[n] = "DST" \/ (F[n] = "HOPLIMIT" /\ "DST" \in mask)
    BY <1>3 DEF Same
  <2>3. "DST" \in ask
    BY <1>3, <2>2
  <2>4. DstAgrees(agrees)
    BY <1>3, <2>3 DEF Same
  <2>5. holds(11)
    BY <1>2, <2>3
  <2>6. first # 12
    BY <2>1, <2>5
  <2>7. ASSUME first \in 1..10 PROVE FALSE
    <3>1. F[first] # "DST" /\ F[first] # "HOPLIMIT"
      BY <1>2, <2>7
    <3>2. F[first] \in Rest(mask, agrees) /\ FieldDiffers(F[first], agrees)
      BY <1>3, <2>1, <3>1
    <3>. QED BY <3>1, <3>2 DEF Same
  <2>8. first = 11
    BY <2>1, <2>6, <2>7
  <2>. QED BY <1>2, <2>4, <2>8
<1>. HIDE DEF passed, allSame
<1>. QED BY <1>1, <1>6, <1>7 DEF allSame, ask

\* A step that lists what the filter asks for keeps the invariant.
LEMMA ListedInv ==
    ASSUME NEW k, NEW mask, NEW agrees, NEW listed, Listed(k, mask, agrees, listed),
           listed <=> /\ "uncloned" \in agrees
                      /\ "TABLE" \in Filtering(mask, agrees) \/ "main" \in agrees
                      /\ \A f \in Rest(mask, agrees) : Same(f, agrees)
    PROVE  Inv'
<1>1. step' = "listed" /\ kind' = k /\ given' = mask /\ wire' = agrees /\ got' = listed
  BY DEF Listed
<1>2. FilterHonoured'
  <2>1. "TABLE" \in Rest(mask, agrees) <=> "TABLE" \in Filtering(mask, agrees)
    BY DEF Rest
  <2>2. \A f : Same(f, agrees) <=> \/ f \in agrees
                                   \/ f = "TABLE" /\ "AnyTable" \in agrees
                                   \/ f = "DST" /\ "MPLSDST" \in agrees
    BY DEF Same, FieldDiffers, DstAgrees
  <2>3. Rest(mask, agrees)
          = (Filtering(given, wire) \ (IF "DST" \in given THEN {"HOPLIMIT"} ELSE {}))'
    BY <1>1 DEF Rest, Filtering
  <2>. QED BY <1>1, <2>1, <2>2, <2>3 DEF FilterHonoured
<1>3. WrittenRight' /\ ReadRight'
  BY <1>1 DEF WrittenRight, ReadRight
<1>. QED BY <1>2, <1>3 DEF Inv

LEMMA RouteListInv == ASSUME RouteListFiltered PROVE Inv'
<1>. DEFINE all == {RouteFilterFields[i] : i \in 1..12}
<1>1. PICK mask \in SmallSubsets(all, MaxFields) :
        \E agrees : Listed("routes", mask, agrees, RouteListed(mask, agrees))
  BY DEF RouteListFiltered
<1>2. PICK agrees : Listed("routes", mask, agrees, RouteListed(mask, agrees))
  BY <1>1
<1>3. mask \in SUBSET all
  BY <1>1, SubsetsOf
<1>. QED BY <1>2, <1>3, RouteListedIs, ListedInv

-----------------------------------------------------------------------------
(* The steps.                                                              *)

\* Writing.
LEMMA LinkAddInv == ASSUME LinkAdd PROVE Inv'
<1>0. PICK k \in DOMAIN LinkFields : \E o \in Objects(LinkFields[k]) :
        Written(k, o, linkModify(k, o))
  BY DEF LinkAdd
<1>1. PICK o \in Objects(LinkFields[k]) : Written(k, o, linkModify(k, o))
  BY <1>0
<1>2. Returned(LinkFields[k], o, LinkDeserialize(k, linkModify(k, o)), LinkNotReturned(k, o))
  BY ObjectsOf, LinkReturned
<1>. QED BY <1>1, <1>2, WrittenInv, OneTable

LEMMA FilterAddInv == ASSUME FilterAdd PROVE Inv'
<1>0. PICK k \in DOMAIN FilterFields : \E o \in Objects(FilterFields[k]) :
        Written(k, o, filterModify(k, o))
  BY DEF FilterAdd
<1>1. PICK o \in Objects(FilterFields[k]) : Written(k, o, filterModify(k, o))
  BY <1>0
<1>2. Returned(FilterFields[k], o, FilterList(k, filterModify(k, o)), TcNotReturned(k, o))
  BY ObjectsOf, FilterReturned
<1>. QED BY <1>1, <1>2, WrittenInv, OneTable

LEMMA ActionsAddInv == ASSUME ActionsAdd PROVE Inv'
<1>0. PICK k \in DOMAIN ActionFields : \E o \in Objects(ActionFields[k]) :
        Written(k, o, EncodeActions(k, o))
  BY DEF ActionsAdd
<1>1. PICK o \in Objects(ActionFields[k]) : Written(k, o, EncodeActions(k, o))
  BY <1>0
<1>2. Returned(ActionFields[k], o, parseActions(k, EncodeActions(k, o)), TcNotReturned(k, o))
  BY ObjectsOf, ActionsReturned
<1>. QED BY <1>1, <1>2, WrittenInv, OneTable

LEMMA QdiscAddInv == ASSUME QdiscAdd PROVE Inv'
<1>0. PICK k \in DOMAIN QdiscFields : \E o \in Objects(QdiscFields[k]) :
        Written(k, o, qdiscPayload(k, o))
  BY DEF QdiscAdd
<1>1. PICK o \in Objects(QdiscFields[k]) :
        Written(k, o, qdiscPayload(k, o))
  BY <1>0
<1>. DEFINE m == qdiscPayload(k, o)
<1>2. Returned(QdiscFields[k], o, QdiscList(k, m), TcNotReturned(k, o))
  BY ObjectsOf, QdiscReturned
<1>3. Written(k, o, m)
  BY <1>1
<1>. HIDE DEF m
<1>. QED BY <1>2, <1>3, WrittenInv, OneTable

LEMMA ClassAddInv == ASSUME ClassAdd PROVE Inv'
<1>0. PICK k \in DOMAIN ClassFields : \E o \in Objects(ClassFields[k]) :
        Written(k, o, classPayload(k, o))
  BY DEF ClassAdd
<1>1. PICK o \in Objects(ClassFields[k]) :
        Written(k, o, classPayload(k, o))
  BY <1>0
<1>. DEFINE m == classPayload(k, o)
<1>2. Returned(ClassFields[k], o, ClassList(k, m), TcNotReturned(k, o))
  BY ObjectsOf, ClassReturned
<1>3. Written(k, o, m)
  BY <1>1
<1>. HIDE DEF m
<1>. QED BY <1>2, <1>3, WrittenInv, OneTable

LEMMA RouteAddInv == ASSUME RouteAdd PROVE Inv'
<1>0. PICK k \in DOMAIN RouteKindFields : \E o \in Objects(RouteKindFields[k]) :
        RouteAccepted(k, o) /\ Written(k, o, RouteEncode(k, o))
  BY DEF RouteAdd
<1>1. PICK o \in Objects(RouteKindFields[k]) :
        RouteAccepted(k, o) /\ Written(k, o, RouteEncode(k, o))
  BY <1>0
<1>2. Returned(RouteKindFields[k], o, RouteDecode(k, RouteEncode(k, o)), RouteNotReturned(k, o))
  BY <1>1, ObjectsOf, RouteKindReturned
<1>. QED BY <1>1, <1>2, WrittenInv, OneTable

\* Reading.
LEMMA ReadsInv ==
    ASSUME Inv,
           LinkByIndex \/ FilterRead \/ ActionsRead \/ QdiscRead \/ ClassRead \/ RouteRead
    PROVE  Inv'
<1>. USE KindsValue
<1>1. CASE LinkByIndex
  BY <1>1, ReadInv DEF Inv, WrittenRight, LinkByIndex, Read
<1>2. CASE FilterRead
  BY <1>2, ReadInv DEF Inv, WrittenRight, FilterRead, Read
<1>3. CASE ActionsRead
  BY <1>3, ReadInv DEF Inv, WrittenRight, ActionsRead, Read
<1>4. CASE QdiscRead
  BY <1>4, ReadInv DEF Inv, WrittenRight, QdiscRead, Read
<1>5. CASE ClassRead
  BY <1>5, ReadInv DEF Inv, WrittenRight, ClassRead, Read
<1>6. CASE RouteRead
  BY <1>6, ReadInv DEF Inv, WrittenRight, RouteRead, Read
<1>. QED BY <1>1, <1>2, <1>3, <1>4, <1>5, <1>6

LEMMA LinkReadInv == ASSUME Inv, LinkRead PROVE Inv'
<1>1. /\ kind \in DOMAIN SetFields /\ step = "written"
      /\ Read(SetRead(kind, wire))
  BY DEF LinkRead, Read
<1>2. Kept(kind, wire, given, reverted)
  BY <1>1 DEF Inv, WrittenRight
<1>3. Returned(SetFields[kind], given, SetRead(kind, wire), SetNotReturned(kind) \cup reverted)
  <2>1. ASSUME NEW f \in SetFields[kind] \ (SetNotReturned(kind) \cup reverted)
        PROVE  Value(SetRead(kind, wire), f) = {f} \cap given
    <3>1. Value(SetRead(kind, wire), f) = Value(wire, Attr(kind, f))
      BY <1>1, SetReadValue
    <3>2. Value(wire, Attr(kind, f)) = given \cap {f}
      BY <1>2 DEF Kept
    <3>. QED BY <3>1, <3>2
  <2>. QED BY <2>1, AllReturned
<1>. QED BY <1>1, <1>3, ReadInv, KindsValue

\* Changing: the kind's table stays, and what is kept is kept.
LEMMA KeptInv ==
    ASSUME kind' \in DOMAIN SetFields, step' = "written",
           Kept(kind', wire', given', reverted')
    PROVE  Inv'
<1>1. WrittenRight'
  BY OneTable DEF WrittenRight
<1>2. ReadRight' /\ FilterHonoured'
  BY DEF ReadRight, FilterHonoured
<1>. QED BY <1>1, <1>2 DEF Inv

LEMMA LinkByNameInv == ASSUME LinkByName PROVE Inv'
<1>1. PICK k \in DOMAIN SetFields :
        \E o \in IF k = "set_bridge" THEN SmallSubsets(SetFields[k], 2) ELSE {{}} :
          /\ kind' = k /\ given' = o /\ copy' = o /\ wire' = Put(o, SetFields[k])
          /\ step' = "written" /\ UNCHANGED <<got, reverted, calls>>
  BY DEF LinkByName
<1>2. PICK o \in IF k = "set_bridge" THEN SmallSubsets(SetFields[k], 2) ELSE {{}} :
        /\ kind' = k /\ given' = o /\ wire' = Put(o, SetFields[k])
        /\ step' = "written"
  BY <1>1
<1>3. o = {} \/ k = "set_bridge"
  BY <1>2
<1>4. Kept(k, Put(o, SetFields[k]), o, reverted')
  BY <1>3, FoundKept
<1>. QED BY <1>2, <1>4, KeptInv

LEMMA LinkSetInv == ASSUME Inv, LinkSet PROVE Inv'
<1>1. PICK c \in SetCalls(kind, wire) :
        /\ wire' = c.msg @@ wire
        /\ given' = (given \ c.names) \cup c.args
        /\ reverted' = reverted \ c.names
  BY DEF LinkSet
<1>2. kind \in DOMAIN SetFields /\ step = "written" /\ kind' = kind /\ step' = step
  BY DEF LinkSet
<1>3. Kept(kind, wire, given, reverted)
  BY <1>2 DEF Inv, WrittenRight
<1>4. Sends(kind, c, wire)
  BY <1>2, SetCallsSend
<1>5. Kept(kind, c.msg @@ wire, (given \ c.names) \cup c.args, reverted \ c.names)
  BY <1>3, <1>4, CallKept
<1>. QED BY <1>1, <1>2, <1>5, KeptInv

LEMMA BridgeSetAttrInv == ASSUME Inv, BridgeSetAttr PROVE Inv'
<1>1. kind = "set_bridge" /\ kind' = kind /\ step = "written" /\ step' = step
  BY DEF BridgeSetAttr
<1>2. PICK attr \in {"MulticastSnooping", "VlanFiltering"}, on \in BOOLEAN :
        LET m == BridgeSet(copy, attr, on)
            set == IF on THEN {attr} ELSE {} IN
        /\ wire' = m @@ wire
        /\ given' = (given \ {attr}) \cup set
        /\ reverted' = (reverted \cup {f \in DOMAIN m : (m[f] # {}) # (f \in given)}) \ {attr}
  BY DEF BridgeSetAttr
<1>3. "set_bridge" \in DOMAIN SetFields
  BY DEF SetFields
<1>4. Kept("set_bridge", wire, given, reverted)
  BY <1>1, <1>3 DEF Inv, WrittenRight
<1>. DEFINE m == BridgeSet(copy, attr, on)
            set == IF on THEN {attr} ELSE {}
<1>5. Kept("set_bridge", m @@ wire, (given \ {attr}) \cup set,
           (reverted \cup Old(m, given)) \ {attr})
  BY <1>4, BridgeKept
<1>6. /\ wire' = m @@ wire /\ given' = (given \ {attr}) \cup set
      /\ reverted' = (reverted \cup Old(m, given)) \ {attr}
  BY <1>2 DEF Old
<1>. HIDE DEF m, set
<1>. QED BY <1>1, <1>3, <1>5, <1>6, KeptInv

LEMMA DeleteInv == ASSUME Delete PROVE Inv'
<1>1. step' = "idle"
  BY DEF Delete
<1>. QED BY <1>1 DEF Inv, WrittenRight, ReadRight, FilterHonoured

\* The invariant is inductive.
LEMMA NextInv == ASSUME Inv, [Next]_vars PROVE Inv'
<1>1. CASE LinkAdd \/ FilterAdd \/ ActionsAdd \/ QdiscAdd \/ ClassAdd \/ RouteAdd
  BY <1>1, LinkAddInv, FilterAddInv, ActionsAddInv, QdiscAddInv, ClassAddInv, RouteAddInv
<1>2. CASE LinkByIndex \/ FilterRead \/ ActionsRead \/ QdiscRead \/ ClassRead \/ RouteRead
  BY <1>2, ReadsInv
<1>3. CASE LinkByName \/ LinkSet \/ BridgeSetAttr \/ LinkRead
  BY <1>3, LinkByNameInv, LinkSetInv, BridgeSetAttrInv, LinkReadInv
<1>4. CASE RouteListFiltered \/ Delete
  BY <1>4, RouteListInv, DeleteInv
<1>5. CASE UNCHANGED vars
  BY <1>5 DEF Inv, WrittenRight, ReadRight, FilterHonoured, NotReturned, vars
<1>. QED BY <1>1, <1>2, <1>3, <1>4, <1>5 DEF Next

LEMMA InvHolds == Spec => []Inv
<1>1. Init => Inv
  BY InvIdle DEF Init
<1>2. Inv /\ [Next]_vars => Inv'
  BY NextInv
<1>. QED BY <1>1, <1>2, PTL DEF Spec

\* Whatever fields an object has, and however many calls have changed a link, the
\* library reads back what it wrote: its encoders and decoders agree, apart from the
\* fields that ...NotReturned lists as lost, rounded or taken from another.
THEOREM ObjectsReadBack == Spec => []ReadBack
<1>1. Inv => ReadBack
  BY ReadRightIsReadBack DEF Inv
<1>. QED BY <1>1, InvHolds, PTL

\* RouteListFiltered returns exactly the routes that its filter asks for, where an
\* unspecified table asks for any, a destination for its MPLS labels or its network,
\* and the hop limit beside a destination for nothing.
THEOREM FiltersHonoured == Spec => []FilterHonoured
<1>1. Inv => FilterHonoured
  BY DEF Inv
<1>. QED BY <1>1, InvHolds, PTL
=============================================================================
