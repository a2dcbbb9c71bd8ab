----------------------------- MODULE NlObjects -----------------------------
(***************************************************************************)
(* The netlink library's objects from one end to the other: a program      *)
(* writes an object, the kernel keeps what it was sent, and the object is  *)
(* read back; a link that exists is changed call by call and read back;    *)
(* and routes are listed through a filter.  One object at a time, with at  *)
(* most MaxFields fields that are not zero: what an encoder or decoder     *)
(* makes of a field depends on one other field at most, and on an address  *)
(* that the object must have.                                              *)
(***************************************************************************)
EXTENDS NlLinkSet, NlTc, NlRoute

CONSTANTS MaxFields,    \* of an object written, of a filter's mask, and off it
          MaxCalls      \* on a link that exists

ASSUME BoundsAssumption == MaxFields \in Nat \ {0} /\ MaxCalls \in Nat

VARIABLES kind,     \* the kind of the object, or of the list
          given,    \* the object written, or the filter's mask
          wire,     \* the message, or the fields in which an object agrees
          got,      \* the object read, or whether the object is listed
          copy,     \* the program's copy of a link that it changes
          reverted, \* the fields that an old copy has written back
          calls,    \* made on the link
          step      \* idle, written, read or listed

vars == <<kind, given, wire, got, copy, reverted, calls, step>>
setVars == <<copy, reverted, calls>>

SmallSubsets(S, n) == {{}} \cup {{t[i] : i \in 1..n} : t \in [1..n -> S]}

\* Two values of one field: an object has one of them at most.
Objects(fields) ==
    {o \in SmallSubsets(fields, MaxFields) :
       \A alternatives \in LinkAlternatives \cup TcAlternatives \cup RouteAlternatives :
         ~ alternatives \subseteq o}

Init ==
    /\ kind = "none" /\ given = {} /\ wire = << >> /\ got = << >> /\ step = "idle"
    /\ copy = {} /\ reverted = {} /\ calls = 0

Written(k, o, m) ==
    /\ step' = "written"
    /\ kind' = k /\ given' = o /\ wire' = m /\ UNCHANGED <<got, setVars>>

Read(object) ==
    /\ step = "written" /\ step' = "read"
    /\ got' = object /\ UNCHANGED <<kind, given, wire, setVars>>

\* Writing: the encoder of the object's kind, for the objects that it accepts.
LinkAdd ==
    /\ step = "idle"
    /\ \E k \in DOMAIN LinkFields : \E o \in Objects(LinkFields[k]) :
         Written(k, o, linkModify(k, o))

FilterAdd ==
    /\ step = "idle"
    /\ \E k \in DOMAIN FilterFields : \E o \in Objects(FilterFields[k]) :
         Written(k, o, filterModify(k, o))

ActionsAdd ==
    /\ step = "idle"
    /\ \E k \in DOMAIN ActionFields : \E o \in Objects(ActionFields[k]) :
         Written(k, o, EncodeActions(k, o))

QdiscAdd ==
    /\ step = "idle"
    /\ \E k \in DOMAIN QdiscFields : \E o \in Objects(QdiscFields[k]) :
         Written(k, o, qdiscPayload(k, o))

ClassAdd ==
    /\ step = "idle"
    /\ \E k \in DOMAIN ClassFields : \E o \in Objects(ClassFields[k]) :
         Written(k, o, classPayload(k, o))

RouteAdd ==
    /\ step = "idle"
    /\ \E k \in DOMAIN RouteKindFields : \E o \in Objects(RouteKindFields[k]) :
         RouteAccepted(k, o) /\ Written(k, o, RouteEncode(k, o))

\* Reading: the decoder of the object's kind.
LinkByIndex == kind \in DOMAIN LinkFields /\ Read(LinkDeserialize(kind, wire))

FilterRead == kind \in DOMAIN FilterFields /\ Read(FilterList(kind, wire))

ActionsRead == kind \in DOMAIN ActionFields /\ Read(parseActions(kind, wire))

QdiscRead == kind \in DOMAIN QdiscFields /\ Read(QdiscList(kind, wire))

ClassRead == kind \in DOMAIN ClassFields /\ Read(ClassList(kind, wire))

RouteRead == kind \in DOMAIN RouteKindFields /\ Read(RouteDecode(kind, wire))

\* A link of the kernel's, of which the program has a fresh copy.
LinkByName ==
    /\ step = "idle"
    /\ \E k \in DOMAIN SetFields :
       \E o \in IF k = "set_bridge" THEN SmallSubsets(SetFields[k], 2) ELSE {{}} :
         /\ kind' = k /\ given' = o /\ copy' = o /\ wire' = Put(o, SetFields[k])
         /\ step' = "written"
         /\ UNCHANGED <<got, reverted, calls>>

LinkSet ==
    /\ kind \in DOMAIN SetFields /\ step = "written" /\ calls < MaxCalls
    /\ \E c \in SetCalls(kind, wire) :
         /\ wire' = c.msg @@ wire
         /\ given' = (given \ c.names) \cup c.args
         /\ reverted' = reverted \ c.names
    /\ calls' = calls + 1
    /\ UNCHANGED <<kind, got, copy, step>>

\* BridgeSetMcastSnoop and BridgeSetVlanFiltering: the copy's name must be the
\* bridge's still, and what else of the copy is old goes back to what it was.
BridgeSetAttr ==
    /\ kind = "set_bridge" /\ step = "written" /\ calls < MaxCalls
    /\ "Name" \in copy <=> "Name" \in given
    /\ \E attr \in {"MulticastSnooping", "VlanFiltering"}, on \in BOOLEAN :
         LET m == BridgeSet(copy, attr, on)
             set == IF on THEN {attr} ELSE {} IN
         /\ wire' = m @@ wire
         /\ given' = (given \ {attr}) \cup set
         /\ copy' = (copy \ {attr}) \cup set
         /\ reverted' = (reverted \cup {f \in DOMAIN m : (m[f] # {}) # (f \in given)}) \ {attr}
    /\ calls' = calls + 1
    /\ UNCHANGED <<kind, got, step>>

LinkRead == kind \in DOMAIN SetFields /\ Read(SetRead(kind, wire))

Listed(k, mask, agrees, listed) ==
    /\ step' = "listed"
    /\ kind' = k /\ given' = mask /\ wire' = agrees /\ got' = listed
    /\ UNCHANGED setVars

\* A route that agrees with the filter in all but a few fields.
RouteListFiltered ==
    LET all == {RouteFilterFields[i] : i \in 1..12} IN
    /\ step = "idle"
    /\ \E mask \in SmallSubsets(all, MaxFields), off \in SmallSubsets(all, MaxFields - 1),
          other \in SUBSET RouteListCases :
         LET agrees == (all \ off) \cup other IN
         Listed("routes", mask, agrees, RouteListed(mask, agrees))

\* The object is deleted, or the list is done.
Delete ==
    /\ step \in {"read", "listed"}
    /\ step' = "idle" /\ kind' = "none" /\ given' = {} /\ wire' = << >> /\ got' = << >>
    /\ copy' = {} /\ reverted' = {} /\ calls' = 0

Next ==
    \/ LinkAdd \/ FilterAdd \/ ActionsAdd \/ QdiscAdd \/ ClassAdd \/ RouteAdd
    \/ LinkByIndex \/ FilterRead \/ ActionsRead \/ QdiscRead \/ ClassRead \/ RouteRead
    \/ LinkByName \/ LinkSet \/ BridgeSetAttr \/ LinkRead
    \/ RouteListFiltered \/ Delete

Spec == Init /\ [][Next]_vars

-----------------------------------------------------------------------------
Kinds == LinkFields @@ FilterFields @@ ActionFields @@ QdiscFields @@ ClassFields @@ RouteKindFields
         @@ SetFields

NotReturned(k, o) ==
    IF k \in DOMAIN LinkFields THEN LinkNotReturned(k, o)
    ELSE IF k \in DOMAIN RouteKindFields THEN RouteNotReturned(k, o)
    ELSE IF k \in DOMAIN SetFields THEN SetNotReturned(k) \cup reverted ELSE TcNotReturned(k, o)

\* An object that is written and read back has the fields it was given and no
\* others, each with its own value: no encoder and decoder of the library disagree
\* about an attribute, whatever other fields are set, and no sequence of LinkSet
\* calls disturbs what an earlier one has set.  The fields that the code loses, rounds
\* or takes from another are listed per kind in ...NotReturned; a bridge's setter
\* reverts those that changed since the program's copy was read.  Values that the
\* encoder makes up for a field that is zero are no field's.
ReadBack ==
    step = "read" =>
      \A f \in Kinds[kind] \ NotReturned(kind, given) :
        (IF f \in DOMAIN got THEN got[f] ELSE {}) \cap Kinds[kind] = {f} \cap given

\* A list of routes returns those of the main table, or of any table if the table is
\* in the mask, that agree with the filter in every field of the mask, and no other: the
\* order of the cases in RouteListFiltered's switch does not matter, but for the hop
\* limit, which is not looked at when the destination is in the mask too.  A filter's
\* unspecified table agrees with every table, and the destinations agree when one of
\* them does: the MPLS labels, or the IP networks, which do also when both are nil.
\* Without a filter the list has the routes of the main table.
FilterHonoured ==
    step = "listed" =>
      LET asked == Filtering(given, wire) \ (IF "DST" \in given THEN {"HOPLIMIT"} ELSE {})
          same(f) == \/ f \in wire
                     \/ f = "TABLE" /\ "AnyTable" \in wire
                     \/ f = "DST" /\ "MPLSDST" \in wire
      IN  got <=> /\ "uncloned" \in wire
                  /\ "main" \in wire \/ "TABLE" \in asked
                  /\ \A f \in asked : same(f)
=============================================================================
