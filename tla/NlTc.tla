-------------------------------- MODULE NlTc --------------------------------
(***************************************************************************)
(* Traffic control in the netlink library: the filters, actions, qdiscs    *)
(* and classes that filterModify, qdiscPayload and classPayload write and  *)
(* FilterList, QdiscList and ClassList read (filter_linux.go,              *)
(* qdisc_linux.go, class_linux.go and their structs).  The object is the   *)
(* struct that is written; what the constructors make of a program's       *)
(* attributes (rates in bits, times, percentages) comes before.            *)
(***************************************************************************)
EXTENDS NlAttrs

-----------------------------------------------------------------------------
(* Actions of filters.                                                     *)

ActionAttrsFields == {"Index", "Capab", "Action", "Refcnt", "Bindcnt"}
toTcGen(o) == Put(o, {"Index", "Capab", "Action", "Refcnt", "Bindcnt"})
toAttrs(m) == Get(m, {"Index", "Capab", "Action", "Refcnt", "Bindcnt"})

PoliceActionFields ==
    (ActionAttrsFields \ {"Action"})
    \cup {"Rate", "Burst", "RCellLog", "Mtu", "Mpu", "PeakRate", "PCellLog", "AvRate",
          "Overhead", "LinkLayer", "ExceedAction", "NotExceedAction"}

\* What CalcRtable leaves in a rate's specification: the link layer, and a cell
\* log that parsePolice has no field for.
CalcRtable(o) == Put(o, {"LinkLayer", "RCellLog"})

\* The overhead, the burst and the tables belong to a rate.  The burst is sent in
\* ticks and read back in bytes, rounded down both times.
Xmittime(o) == "Burst" :> IF "Burst" \in o THEN {"BurstInTicks"} ELSE {}
encodePolice(o) ==
    Put(o, {"Index", "Bindcnt", "Capab", "Refcnt", "Rate", "PeakRate", "ExceedAction", "Mtu"})
    @@ When("Rate" \in o, Put(o, {"Mpu", "Overhead"}) @@ Xmittime(o) @@ CalcRtable(o))
    @@ PutIf(o, {"AvRate", "NotExceedAction"})

parsePolice(m) ==
    Get(m, {"NotExceedAction", "AvRate", "Index", "Bindcnt", "Capab", "Refcnt",
            "ExceedAction", "Rate", "PeakRate", "Burst", "Mtu", "LinkLayer", "Overhead"})

ActionFields ==
    [gact |-> ActionAttrsFields, police |-> PoliceActionFields,
     mirred |-> ActionAttrsFields \cup {"MirredAction", "Ifindex"},
     tunnel_key |-> ActionAttrsFields \cup {"SET", "SrcAddr", "SrcAddr6", "DstAddr",
                                            "DstAddr6", "KeyID", "DestPort"},
     skbedit |-> ActionAttrsFields \cup {"QueueMapping", "PType", "Priority", "Mark"},
     connmark |-> ActionAttrsFields \cup {"Zone"},
     csum |-> ActionAttrsFields \cup {"UpdateFlags"},
     bpf_act |-> ActionAttrsFields \cup {"Fd", "Name"}]

\* SET: the tunnel key is set, not removed; a key that is set has both
\* addresses, or the encoder gives up.
EncodeActions(k, o) ==
    CASE k = "police"     -> encodePolice(o)
      [] k = "mirred"     -> toTcGen(o) @@ Put(o, {"MirredAction", "Ifindex"})
      [] k = "tunnel_key" ->
            toTcGen(o) @@ Put(o, {"SET"})
            @@ When("SET" \in o,
                    Put(o, {"KeyID"})
                    @@ PutIf(o, {"SrcAddr", "SrcAddr6", "DstAddr", "DstAddr6", "DestPort"}))
      [] k = "skbedit"    -> toTcGen(o) @@ PutIf(o, {"QueueMapping", "Priority", "PType", "Mark"})
      [] k = "connmark"   -> toTcGen(o) @@ Put(o, {"Zone"})
      [] k = "csum"       -> toTcGen(o) @@ Put(o, {"UpdateFlags"})
      [] k = "bpf_act"    -> toTcGen(o) @@ Put(o, {"Fd", "Name"})
      [] k = "gact"       -> toTcGen(o)

parseActions(k, m) ==
    CASE k = "mirred"     -> toAttrs(m) @@ Get(m, {"Ifindex", "MirredAction"})
      [] k = "tunnel_key" -> toAttrs(m) @@ Get(m, {"SET", "KeyID", "SrcAddr", "SrcAddr6",
                                                   "DstAddr", "DstAddr6", "DestPort"})
      [] k = "skbedit"    -> toAttrs(m) @@ Get(m, {"Mark", "Priority", "PType", "QueueMapping"})
      [] k = "bpf_act"    -> toAttrs(m) @@ Get(m, {"Fd", "Name"})
      [] k = "connmark"   -> toAttrs(m) @@ Get(m, {"Zone"})
      [] k = "csum"       -> toAttrs(m) @@ Get(m, {"UpdateFlags"})
      [] k = "gact"       -> toAttrs(m)
      [] k = "police"     -> parsePolice(m)

-----------------------------------------------------------------------------
(* Filters.  Actions stands for a list that is not empty and is encoded as *)
(* above.                                                                  *)

\* An address goes with its mask, or with the mask of all its bits.
encodeIP(o, ip, ipMask) ==
    When(ip \in o, Put(o, {ip}) @@ (ipMask :> IF ipMask \in o THEN {ipMask} ELSE {"all bits"}))

FlowerFields ==
    {"DestIP", "DestIPMask", "SrcIP", "SrcIPMask", "EthType", "EncDestIP", "EncDestIPMask",
     "EncSrcIP", "EncSrcIPMask", "EncDestPort", "EncKeyId", "Actions"}

\* The mask that goes with EncDestIP is that of EncSrcIP.
FlowerEncode(o) ==
    PutIf(o, {"EthType", "EncDestPort", "EncKeyId"})
    @@ encodeIP(o, "SrcIP", "SrcIPMask") @@ encodeIP(o, "DestIP", "DestIPMask")
    @@ encodeIP(o, "EncSrcIP", "EncSrcIPMask")
    @@ When("EncDestIP" \in o,
            Put(o, {"EncDestIP"})
            @@ ("EncDestIPMask" :>
                  IF "EncSrcIPMask" \in o THEN {"EncSrcIPMask"} ELSE {"all bits"}))
    @@ Put(o, {"Actions"})

FlowerDecode(m) ==
    Get(m, {"EthType", "SrcIP", "SrcIPMask", "DestIP", "DestIPMask", "EncSrcIP",
            "EncSrcIPMask", "EncDestIP", "EncDestIPMask", "EncDestPort", "EncKeyId", "Actions"})

\* A selector is "SelSpare" when its slice of keys has room for more than it holds,
\* and "Mirred" is a mirred action among the others of the list.
U32Fields == {"ClassId", "Divisor", "Hash", "Link", "RedirIndex", "Sel", "SelSpare", "Actions",
              "Mirred"}

\* Without a selector one that matches everything.  The keys are copied with the
\* slice's capacity, so that spare room becomes keys.  A redirect becomes the first
\* action.  A divisor that is not a power of two is refused.
filterModifyU32(o) ==
    ("Sel" :> IF "Sel" \in o THEN {"Sel"}
              ELSE IF "SelSpare" \in o THEN {"MoreKeys"} ELSE {"MatchAll"})
    @@ PutIf(o, {"ClassId", "Divisor", "Hash", "Link"})
    @@ ("TCA_U32_ACT" :> o \cap {"Actions", "Mirred", "RedirIndex"})

\* The last mirred action of the list is taken for the redirect; a redirect that was
\* given is one of the actions.
parseU32Data(m) ==
    LET actions == IF "TCA_U32_ACT" \in DOMAIN m THEN m["TCA_U32_ACT"] ELSE {} IN
    Get(m, {"Sel", "ClassId", "Divisor", "Hash", "Link"})
    @@ [Actions |-> actions \cap {"Actions", "RedirIndex"}, Mirred |-> actions \cap {"Mirred"},
        RedirIndex |-> IF "Mirred" \in actions THEN {"Mirred"} ELSE actions \cap {"RedirIndex"}]

FwFields == {"ClassId", "InDev", "Mask", "Police"}
parseFwData(m) == Get(m, {"Mask", "ClassId", "InDev", "Police"})

BpfFilterFields == {"ClassId", "Fd", "Name", "DirectAction", "Id", "Tag"}
parseBpfData(m) == Get(m, {"Fd", "Name", "ClassId", "DirectAction", "Id", "Tag"})

MatchAllFields == {"ClassId", "Actions"}
parseMatchAllData(m) == Get(m, {"ClassId", "Actions"})
DhcMatchAllFields == {"ClassId", "Actions"}
parseDhcMatchAllData(m) == Get(m, {"ClassId", "Actions"})

\* A case of a Go switch ends where the next one begins: nothing is sent for
\* matchall.  BpfFilter's Id and Tag are the kernel's.
filterModify(k, o) ==
    CASE k = "u32"         -> filterModifyU32(o)
      [] k = "fw"          -> PutIf(o, {"Mask", "InDev", "Police", "ClassId"})
      [] k = "bpf"         -> PutIf(o, {"ClassId", "Name"}) @@ Put(o, {"Fd", "DirectAction"})
      [] k = "matchall"    -> << >>
      [] k = "dhcmatchall" -> Put(o, {"Actions"}) @@ PutIf(o, {"ClassId"})
      [] k = "flower"      -> FlowerEncode(o)

FilterList(k, m) ==
    CASE k = "u32"         -> parseU32Data(m)
      [] k = "fw"          -> parseFwData(m)
      [] k = "bpf"         -> parseBpfData(m)
      [] k = "matchall"    -> parseMatchAllData(m)
      [] k = "dhcmatchall" -> parseDhcMatchAllData(m)
      [] k = "flower"      -> FlowerDecode(m)

FilterFields ==
    [u32 |-> U32Fields, fw |-> FwFields, bpf |-> BpfFilterFields, matchall |-> MatchAllFields,
     dhcmatchall |-> DhcMatchAllFields, flower |-> FlowerFields]

-----------------------------------------------------------------------------
(* Qdiscs and classes.  Rate64 is the field Rate from 2^32 on.             *)

PrioFields == {"Bands", "PriorityMap"}
parsePrioData(m) == Get(m, {"PriorityMap", "Bands"})

HtbFields == {"Version", "Rate2Quantum", "Defcls", "Debug", "DirectPkts"}
parseHtbData(m) == Get(m, {"Version", "Rate2Quantum", "Defcls", "Debug", "DirectPkts"})

FqCodelFields == {"Target", "Limit", "Interval", "ECN", "Flows", "Quantum", "CEThreshold",
                  "DropBatchSize", "MemoryLimit"}
parseFqCodelData(m) ==
    Get(m, {"Target", "Limit", "Interval", "ECN", "Flows", "Quantum", "CEThreshold",
            "DropBatchSize", "MemoryLimit"})

parseHfscData(m) == Get(m, {"Defcls"})

FqFields == {"PacketLimit", "FlowPacketLimit", "Quantum", "InitialQuantum", "Pacing",
             "FlowDefaultRate", "FlowMaxRate", "Buckets", "FlowRefillDelay",
             "LowRateThreshold"}
parseFqData(m) ==
    Get(m, {"Buckets", "LowRateThreshold", "Quantum", "Pacing", "InitialQuantum",
            "FlowRefillDelay", "FlowPacketLimit", "PacketLimit", "FlowMaxRate",
            "FlowDefaultRate"})

NetemFields == {"Latency", "DelayCorr", "Limit", "Loss", "LossCorr", "Gap", "Duplicate",
                "DuplicateCorr", "Jitter", "ReorderProb", "ReorderCorr", "CorruptProb",
                "CorruptCorr"}

parseNetemData(m) ==
    Get(m, {"Latency", "Limit", "Loss", "Gap", "Duplicate", "Jitter", "DelayCorr",
            "LossCorr", "DuplicateCorr", "CorruptProb", "CorruptCorr", "ReorderProb",
            "ReorderCorr"})

TbfFields == {"Rate", "Rate64", "Limit", "Buffer", "Peakrate", "Peakrate64", "Minburst"}
parseTbfData(m) ==
    Get(m, {"Rate", "Peakrate", "Limit", "Buffer", "Rate64", "Peakrate64", "Minburst"})

SfqFields == {"Quantum", "Perturb", "Limit", "Divisor"}
parseSfqData(m) == Get(m, {"Quantum", "Perturb", "Limit", "Divisor"})

qdiscPayload(k, o) ==
    CASE k = "prio"     -> Put(o, {"Bands", "PriorityMap"})
      [] k = "tbf"      ->
            Put(o, {"Rate", "Peakrate", "Limit", "Buffer"}) @@ PutIf(o, {"Rate64", "Peakrate64"})
            @@ When(o \cap {"Peakrate", "Peakrate64"} # {}, Put(o, {"Minburst"}))
      [] k = "htb"      -> Put(o, {"Version", "Rate2Quantum", "Defcls", "Debug", "DirectPkts"})
      [] k = "hfsc"     -> Put(o, {"Defcls"})
      [] k = "netem"    ->
            Put(o, {"Latency", "Limit", "Loss", "Gap", "Duplicate", "Jitter"})
            @@ PutStruct(o, {"DelayCorr", "LossCorr", "DuplicateCorr"})
            @@ When("CorruptProb" \in o, Put(o, {"CorruptProb", "CorruptCorr"}))
            @@ When("ReorderProb" \in o, Put(o, {"ReorderProb", "ReorderCorr"}))
      [] k = "fq_codel" ->
            Put(o, {"ECN"}) @@ PutIf(o, {"Limit", "Interval", "Flows", "Quantum",
                                         "CEThreshold", "DropBatchSize", "MemoryLimit"})
      [] k = "fq"       ->
            Put(o, {"Pacing"})
            @@ PutIf(o, {"Buckets", "LowRateThreshold", "Quantum", "InitialQuantum",
                         "FlowRefillDelay", "FlowPacketLimit", "FlowMaxRate",
                         "FlowDefaultRate"})
      [] k = "sfq"      -> Put(o, {"Quantum", "Perturb", "Limit", "Divisor"})

QdiscList(k, m) ==
    CASE k = "prio"     -> parsePrioData(m)
      [] k = "tbf"      -> parseTbfData(m)
      [] k = "htb"      -> parseHtbData(m)
      [] k = "hfsc"     -> parseHfscData(m)
      [] k = "netem"    -> parseNetemData(m)
      [] k = "fq_codel" -> parseFqCodelData(m)
      [] k = "fq"       -> parseFqData(m)
      [] k = "sfq"      -> parseSfqData(m)

QdiscFields ==
    [prio |-> PrioFields, tbf |-> TbfFields, htb |-> HtbFields, hfsc |-> {"Defcls"},
     netem |-> NetemFields, fq_codel |-> FqCodelFields, fq |-> FqFields, sfq |-> SfqFields]

HtbClassFields == {"Rate", "Rate64", "Ceil", "Ceil64", "Buffer", "Cbuffer", "Quantum",
                   "Level", "Prio"}

parseHtbClassData(m) ==
    Get(m, {"Rate", "Ceil", "Buffer", "Cbuffer", "Quantum", "Level", "Prio", "Rate64", "Ceil64"})

\* The slopes m1 and m2 are given in bits and sent in bytes: "%8" is the rest.
HfscClassFields == {"Rsc", "Rsc%8", "Fsc", "Fsc%8", "Usc", "Usc%8"}
parseHfscClassData(m) == Get(m, {"Rsc", "Fsc", "Usc"})

classPayload(k, o) ==
    CASE k = "htb_class" ->
            Put(o, {"Rate", "Ceil", "Buffer", "Cbuffer", "Quantum", "Level", "Prio"})
            @@ PutIf(o, {"Rate64", "Ceil64"})
      [] k = "hfsc_class" -> Put(o, {"Rsc", "Fsc", "Usc"})

ClassList(k, m) ==
    CASE k = "htb_class"  -> parseHtbClassData(m)
      [] k = "hfsc_class" -> parseHfscClassData(m)

ClassFields == [htb_class |-> HtbClassFields, hfsc_class |-> HfscClassFields]

-----------------------------------------------------------------------------
(* What does not come back.                                                *)

TcNotReturned(k, o) ==
    CASE k = "police"     -> {"RCellLog", "PCellLog", "Mpu", "Burst"}
                             \cup (IF "Rate" \in o THEN {} ELSE {"Overhead", "LinkLayer"})
      [] k = "tunnel_key" -> IF "SET" \in o THEN {}
                             ELSE {"KeyID", "SrcAddr", "SrcAddr6", "DstAddr", "DstAddr6",
                                   "DestPort"}
      [] k = "bpf"        -> {"Id", "Tag"}
      [] k = "matchall"   -> MatchAllFields
      [] k = "flower"     ->
            {"EncDestIPMask"} \cup (IF "SrcIP" \in o THEN {} ELSE {"SrcIPMask"})
            \cup (IF "DestIP" \in o THEN {} ELSE {"DestIPMask"})
            \cup (IF "EncSrcIP" \in o THEN {} ELSE {"EncSrcIPMask"})
      [] k = "u32"        -> {"SelSpare"} \cup (IF "RedirIndex" \in o THEN {"Actions"} ELSE {})
                             \cup (IF "Mirred" \in o THEN {"RedirIndex"} ELSE {})
      [] k = "tbf"        -> IF o \cap {"Peakrate", "Peakrate64"} = {} THEN {"Minburst"} ELSE {}
      [] k = "netem"      -> (IF "CorruptProb" \in o THEN {} ELSE {"CorruptCorr"})
                             \cup (IF "ReorderProb" \in o THEN {} ELSE {"ReorderCorr"})
      [] k = "fq_codel"   -> {"Target"}
      [] k = "fq"         -> {"PacketLimit"}
      [] k = "hfsc_class" -> {"Rsc%8", "Fsc%8", "Usc%8"}
      [] OTHER            -> {}

TcAlternatives ==
    {{"SrcAddr", "SrcAddr6"}, {"DstAddr", "DstAddr6"}, {"Rate", "Rate64"},
     {"Ceil", "Ceil64"}, {"Peakrate", "Peakrate64"}, {"Sel", "SelSpare"}}
=============================================================================
