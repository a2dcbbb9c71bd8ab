------------------------------ MODULE NlAttrs ------------------------------
(***************************************************************************)
(* What the netlink library's encoders and decoders are written in         *)
(* (pkg/github.com/vishvananda/netlink/nl): requests that carry attributes *)
(* and answers that are parsed attribute by attribute.                     *)
(*                                                                         *)
(* An object, a Go struct, is the set of its fields that are not zero.  A  *)
(* message is a function from the attributes it carries to their values,   *)
(* and a value is the set of the fields it was computed from, {} for zero: *)
(* that tells a field that comes back from one that is lost, and from one  *)
(* that comes back as another's.  An attribute, or a member of a C struct  *)
(* sent as one attribute, has the name of the field it is meant for (Ttl   *)
(* stands for IFLA_GRE_TTL where gre tunnels are encoded); a table says so *)
(* where the code uses another one.  A field "...6" is the field "..."     *)
(* when it holds an IPv6 address.                                          *)
(***************************************************************************)
EXTENDS Naturals, FiniteSets

\* One message after another: the first attribute of a type counts.
m @@ n == [a \in DOMAIN m \cup DOMAIN n |-> IF a \in DOMAIN m THEN m[a] ELSE n[a]]
a :> value == [b \in {a} |-> value]

\* AddRtAttr without a condition: zero is sent as zero.
Put(o, fields) == [f \in fields |-> o \cap {f}]

\* AddRtAttr under "if field is not zero": zero is left to the kernel.
PutIf(o, fields) == [f \in o \cap fields |-> {f}]

\* The fields of one attribute: all of them are sent if one is not zero.
PutStruct(o, fields) == IF o \cap fields = {} THEN << >> ELSE Put(o, fields)

\* The field's value in another attribute.
PutAs(o, table) ==
    [a \in {table[f] : f \in o \cap DOMAIN table} |->
       {f \in o \cap DOMAIN table : table[f] = a}]

When(condition, message) == IF condition THEN message ELSE << >>

\* ParseRouteAttr and the switch over the attributes' types: an attribute that
\* is absent leaves the field at zero.
Get(m, fields) == [f \in fields |-> IF f \in DOMAIN m THEN m[f] ELSE {}]

GetAs(m, table) ==
    [f \in DOMAIN table |-> IF table[f] \in DOMAIN m THEN m[table[f]] ELSE {}]

\* An attribute that several fields share: each takes its own part.
GetPart(m, table) ==
    [f \in DOMAIN table |-> IF table[f] \in DOMAIN m THEN m[table[f]] \cap {f} ELSE {}]

\* The attribute's presence sets the field to true, whatever its value.
GetPresent(m, fields) == [f \in fields |-> IF f \in DOMAIN m THEN {f} ELSE {}]

\* The field is set when the attribute is there and is zero.
GetZero(m, table) ==
    [f \in DOMAIN table |->
       IF table[f] \in DOMAIN m /\ m[table[f]] = {} THEN {f} ELSE {}]
=============================================================================
