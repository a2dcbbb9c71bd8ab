--------------------------- MODULE TcSetupProofs ---------------------------
(***************************************************************************)
(* Proofs about TcSetup for the custom build, for any number of starts and *)
(* any filters that were there before.                                     *)
(***************************************************************************)
EXTENDS TcSetup, TLAPS

IfbDevs == [index : 0..MaxStarts, up : BOOLEAN, attached : SUBSET Attachments]

\* A device is created at most once per start.
IndexInv == pc \in {"egress", "createIfb"} => lastIndex < starts

\* The redirects are those alg-daemon has added, all to the device there is;
\* before the device is destroyed there is none.
RedirectInv ==
    /\ NoDeadRedirect
    /\ \A f \in filters : f.dev # 0 <=> f.priority = 2
    /\ \A f \in filters : f.dev # 0 => f.type = FilterType
    /\ pc = "destroyIfb" => \A f \in filters : f.dev = 0

\* What the calls made so far have set up is still there.
SetUpInv ==
    /\ pc \in {"createIfb", "redirect", "ifbQos", "open", "running"}
         => nic = Attachments
    /\ pc \in {"redirect", "ifbQos", "open", "running"} => ifb.index # 0 /\ ifb.up
    /\ pc \in {"ifbQos", "open", "running"} => Redirect \in filters
    /\ pc \in {"open", "running"} => ifb.attached = Attachments

\* What the deferred calls made so far have undone, when none has failed.
UndoneInv ==
    ~faulty =>
      /\ pc = "egressOff" => ifb = NoIfb /\ \A f \in filters : f.dev = 0
      /\ CleanStop

Inv == TypeOK /\ IndexInv /\ RedirectInv /\ SetUpInv /\ UndoneInv

-----------------------------------------------------------------------------
(* The initial state, and a step.                                          *)

LEMMA ConstantsTyped == MaxStarts \in Nat /\ \A p \in Foreign : p \in Nat \ {0, 2}
  BY TcSetupAssumption

LEMMA NoIfbTyped == NoIfb \in IfbDevs
  BY ConstantsTyped DEF NoIfb, IfbDevs

LEMMA InitInv == Init => Inv
  <1> SUFFICES ASSUME Init PROVE Inv
    OBVIOUS
  <1>1. PICK t \in {"matchall", FilterType} :
          filters = {[type |-> t, priority |-> p, dev |-> 0] : p \in Foreign}
    BY DEF Init
  <1>2. filters \subseteq Filters
    BY <1>1, ConstantsTyped DEF Filters, FilterType
  <1>3. \A f \in filters : f.dev = 0 /\ f.priority # 2
    BY <1>1, ConstantsTyped
  <1>4. ifb \in IfbDevs /\ nic \subseteq Attachments
    BY NoIfbTyped DEF Init
  <1>5. starts \in 0..MaxStarts /\ lastIndex \in 0..starts
    BY ConstantsTyped DEF Init
  <1>6. TypeOK
    BY <1>2, <1>4, <1>5 DEF Init, TypeOK, Calls, IfbDevs
  <1> QED
    BY <1>3, <1>6 DEF Init, Inv, IndexInv, RedirectInv, SetUpInv, UndoneInv,
                      NoDeadRedirect, CleanStop

\* Types, and the number of devices.
LEMMA StepTyped ==
  ASSUME TypeOK, IndexInv, [Next]_vars PROVE TypeOK' /\ IndexInv'
  <1>0. /\ nic \subseteq Attachments /\ ifb \in IfbDevs /\ filters \subseteq Filters
        /\ starts \in 0..MaxStarts /\ lastIndex \in 0..starts /\ MaxStarts \in Nat
        /\ pc \in Calls /\ faulty \in BOOLEAN
    BY ConstantsTyped DEF TypeOK, IfbDevs
  <1> SUFFICES /\ nic' \subseteq Attachments /\ ifb' \in IfbDevs
               /\ filters' \subseteq Filters
               /\ starts' \in 0..MaxStarts /\ lastIndex' \in 0..starts'
               /\ pc' \in Calls /\ faulty' \in BOOLEAN /\ IndexInv'
    BY DEF TypeOK, IfbDevs
  <1> USE DEF GoTo, FailTo, kernel, Calls
  <1>1. CASE Start
    <2>1. starts' = starts + 1 /\ lastIndex' = lastIndex /\ starts < MaxStarts
      BY <1>1 DEF Start
    <2>2. starts' \in 0..MaxStarts /\ lastIndex' \in 0..starts' /\ lastIndex' < starts'
      BY <1>0, <2>1
    <2> QED
      BY <1>0, <1>1, <2>2 DEF Start, IndexInv
  <1>2. CASE EnableEgressQos
    <2>1. nic' \subseteq Attachments
      BY <1>0, <1>2 DEF EnableEgressQos, EnableDevQos, EnableDevQosFails, Attachments
    <2> QED
      BY <1>0, <1>2, <2>1 DEF EnableEgressQos, IndexInv
  <1>3. CASE CreateIfbDev
    <2>1. lastIndex < starts /\ starts' = starts
      BY <1>3 DEF CreateIfbDev, IndexInv
    <2>2. lastIndex + 1 \in 0..starts /\ lastIndex + 1 \in 0..MaxStarts
      BY <1>0, <2>1
    <2>3. LinkByNameOrAdd(lastIndex + 1) \in IfbDevs
      BY <1>0, <2>2, NoIfbTyped DEF LinkByNameOrAdd, IfbDevs
    <2>4. ifb' \in IfbDevs
      BY <1>0, <1>3, <2>3 DEF CreateIfbDev, IfbDevs
    <2>5. lastIndex' \in {lastIndex, lastIndex + 1}
      BY <1>3 DEF CreateIfbDev
    <2> QED
      BY <1>0, <1>3, <2>1, <2>2, <2>4, <2>5 DEF CreateIfbDev, IndexInv
  <1>4. CASE NicIngressFilterToIfb
    <2>1. Redirect \in Filters
      BY <1>0 DEF Redirect, Filters, FilterType, IfbDevs
    <2>2. filters' \subseteq Filters
      BY <1>0, <1>4, <2>1 DEF NicIngressFilterToIfb
    <2> QED
      BY <1>0, <1>4, <2>2 DEF NicIngressFilterToIfb, IndexInv
  <1>5. CASE EnableIfbQos
    <2>1. \A a \in EnableDevQosFails(ifb.attached) \union {EnableDevQos(ifb.attached)} :
            a \in SUBSET Attachments
      BY <1>0 DEF EnableDevQos, EnableDevQosFails, Attachments, IfbDevs
    <2>2. ifb' \in IfbDevs
      BY <1>0, <1>5, <2>1 DEF EnableIfbQos, IfbDevs
    <2> QED
      BY <1>0, <1>5, <2>2 DEF EnableIfbQos, IndexInv
  <1>6. CASE Open \/ Cancel
    BY <1>0, <1>6 DEF Open, Cancel, IndexInv
  <1>7. CASE DisableIfbQos
    <2>1. ifb' \in IfbDevs
      BY <1>0, <1>7 DEF DisableIfbQos, IfbDevs
    <2> QED
      BY <1>0, <1>7, <2>1 DEF DisableIfbQos, IndexInv
  <1>8. CASE DisableNicIngressFilterToIfb
    <2>1. filters' \subseteq Filters
      BY <1>0, <1>8 DEF DisableNicIngressFilterToIfb
    <2> QED
      BY <1>0, <1>8, <2>1 DEF DisableNicIngressFilterToIfb, IndexInv
  <1>9. CASE DestroyIfbDev
    BY <1>0, <1>9, NoIfbTyped DEF DestroyIfbDev, IndexInv
  <1>10. CASE DisableEgressQos
    BY <1>0, <1>10 DEF DisableEgressQos, IndexInv
  <1>11. CASE Kill
    BY <1>0, <1>11 DEF Kill, IndexInv
  <1>12. CASE UNCHANGED vars
    BY <1>0, <1>12 DEF vars, IndexInv
  <1> QED
    BY <1>1, <1>2, <1>3, <1>4, <1>5, <1>6, <1>7, <1>8, <1>9, <1>10, <1>11, <1>12
    DEF Next

\* In the custom build the redirect leads to the ifb device of the moment.
LEMMA RedirectLeads ==
  ASSUME Custom = "DAHUA"
  PROVE  /\ FilterType = "dhcmatchall"
         /\ Redirect = [type |-> FilterType, priority |-> 2, dev |-> ifb.index]
         /\ (Redirect = [type |-> FilterType, priority |-> 2, dev |-> ifb.index])'
  BY DEF Redirect, FilterType

\* The redirects: only DestroyIfbDev takes the device away, when none is left.
LEMMA StepRedirect ==
  ASSUME Custom = "DAHUA", Inv, [Next]_vars PROVE RedirectInv'
  <1> USE DEF Inv, GoTo, FailTo, kernel, RedirectInv, NoDeadRedirect
  <1>1. CASE Start \/ EnableEgressQos \/ Open \/ Cancel \/ DisableEgressQos \/ Kill
    BY <1>1 DEF Start, EnableEgressQos, Open, Cancel, DisableEgressQos, Kill
  <1>2. CASE CreateIfbDev
    <2>1. ifb.index # 0 => ifb'.index = ifb.index
      BY <1>2 DEF CreateIfbDev, LinkByNameOrAdd, TypeOK
    <2> QED
      BY <1>2, <2>1 DEF CreateIfbDev
  <1>3. CASE NicIngressFilterToIfb
    <2>1. ifb.index # 0 /\ ifb' = ifb /\ pc' # "destroyIfb"
      BY <1>3 DEF NicIngressFilterToIfb, SetUpInv
    <2>2. \A f \in filters' : f \in filters \/ f = Redirect
      BY <1>3 DEF NicIngressFilterToIfb
    <2> QED
      BY <2>1, <2>2, RedirectLeads
  <1>4. CASE EnableIfbQos \/ DisableIfbQos
    <2>1. ifb'.index = ifb.index
      BY <1>4 DEF EnableIfbQos, DisableIfbQos, TypeOK
    <2> QED
      BY <1>4, <2>1 DEF EnableIfbQos, DisableIfbQos
  <1>5. CASE DisableNicIngressFilterToIfb
    <2>1. filters' \subseteq filters /\ ifb' = ifb
      BY <1>5 DEF DisableNicIngressFilterToIfb
    <2>2. pc' = "destroyIfb" => \A f \in filters' : f.type # FilterType
      BY <1>5 DEF DisableNicIngressFilterToIfb, Disabled, FilterType
    <2> QED
      BY <2>1, <2>2
  <1>6. CASE DestroyIfbDev
    BY <1>6 DEF DestroyIfbDev
  <1>7. CASE UNCHANGED vars
    BY <1>7 DEF vars
  <1> QED
    BY <1>1, <1>2, <1>3, <1>4, <1>5, <1>6, <1>7 DEF Next

\* What is set up: the redirect found in place leads to the device.
LEMMA StepSetUp ==
  ASSUME Custom = "DAHUA", Inv, [Next]_vars PROVE SetUpInv'
  <1> USE DEF Inv, GoTo, FailTo, kernel, SetUpInv
  <1>0. ifb'.index = ifb.index => Redirect' = Redirect
    BY RedirectLeads
  <1>1. CASE Start \/ Open \/ Cancel \/ Kill
    BY <1>0, <1>1 DEF Start, Open, Cancel, Kill
  <1>2. CASE EnableEgressQos
    BY <1>0, <1>2 DEF EnableEgressQos, EnableDevQos, TypeOK
  <1>3. CASE CreateIfbDev
    BY <1>0, <1>3 DEF CreateIfbDev, LinkByNameOrAdd, NoIfb, TypeOK, IndexInv
  <1>4. CASE NicIngressFilterToIfb
    <2>1. pc' = "ifbQos" => Redirect \in filters'
      <3>1. ASSUME NEW f \in Own, f.priority = 2
            PROVE f = Redirect
        <4>1. f \in Filters /\ f.type = FilterType /\ f.dev = ifb.index
          BY <3>1 DEF Own, RedirectInv, NoDeadRedirect, TypeOK
        <4>2. f = [type |-> f.type, priority |-> f.priority, dev |-> f.dev]
          BY <4>1 DEF Filters
        <4> QED
          BY <3>1, <4>1, <4>2, RedirectLeads
      <3> QED
        BY <1>4, <3>1 DEF NicIngressFilterToIfb, Own
    <2> QED
      BY <1>0, <1>4, <2>1 DEF NicIngressFilterToIfb
  <1>5. CASE EnableIfbQos
    BY <1>0, <1>5 DEF EnableIfbQos, EnableDevQos, TypeOK
  <1>6. CASE DisableIfbQos \/ DisableNicIngressFilterToIfb \/ DestroyIfbDev \/ DisableEgressQos
    BY <1>0, <1>6 DEF DisableIfbQos, DisableNicIngressFilterToIfb, DestroyIfbDev, DisableEgressQos
  <1>7. CASE UNCHANGED vars
    BY <1>0, <1>7 DEF vars
  <1> QED
    BY <1>1, <1>2, <1>3, <1>4, <1>5, <1>6, <1>7 DEF Next

\* What is undone: a step that does not fail leaves faulty as it is.
LEMMA StepUndone ==
  ASSUME Custom = "DAHUA", Inv, [Next]_vars PROVE UndoneInv'
  <1> USE DEF Inv, GoTo, FailTo, kernel, UndoneInv, CleanStop
  <1>1. CASE Start \/ Open \/ Cancel \/ Kill
    BY <1>1 DEF Start, Open, Cancel, Kill
  <1>2. CASE EnableEgressQos
    BY <1>2 DEF EnableEgressQos
  <1>3. CASE CreateIfbDev \/ NicIngressFilterToIfb \/ EnableIfbQos
    BY <1>3 DEF CreateIfbDev, NicIngressFilterToIfb, EnableIfbQos
  <1>4. CASE DisableIfbQos \/ DisableNicIngressFilterToIfb
    BY <1>4 DEF DisableIfbQos, DisableNicIngressFilterToIfb
  <1>5. CASE DestroyIfbDev
    BY <1>5 DEF DestroyIfbDev, RedirectInv
  <1>6. CASE DisableEgressQos
    BY <1>6 DEF DisableEgressQos
  <1>7. CASE UNCHANGED vars
    BY <1>7 DEF vars
  <1> QED
    BY <1>1, <1>2, <1>3, <1>4, <1>5, <1>6, <1>7 DEF Next

LEMMA CustomBuildInv == ASSUME Custom = "DAHUA" PROVE Spec => []Inv
  <1>1. Inv /\ [Next]_vars => Inv'
    BY StepTyped, StepRedirect, StepSetUp, StepUndone DEF Inv
  <1> QED
    BY <1>1, InitInv, PTL DEF Spec

-----------------------------------------------------------------------------
(* The theorems.                                                           *)

\* alg-daemon keeps the types of all state, in every build.
THEOREM SetupTypeCorrect == Spec => []TypeOK
  <1>1. Init => TypeOK /\ IndexInv
    BY InitInv DEF Inv
  <1>2. TypeOK /\ IndexInv /\ [Next]_vars => (TypeOK /\ IndexInv)'
    BY StepTyped
  <1> QED
    BY <1>1, <1>2, PTL DEF Spec

\* In the custom build, whenever alg-daemon has come to manage bandwidth, egress
\* and ingress pass through the program, however earlier runs have ended.
THEOREM SetupInForce == ASSUME Custom = "DAHUA" PROVE Spec => []InForce
  <1>1. Inv => InForce
    <2>1. Redirect.priority = 2 /\ Redirect.dev = ifb.index
      BY RedirectLeads
    <2> QED
      BY <2>1 DEF Inv, SetUpInv, InForce
  <1> QED
    BY <1>1, CustomBuildInv, PTL

\* In the custom build the NIC's ingress never leads to a device that is gone,
\* however earlier runs have ended.
THEOREM SetupUndone == ASSUME Custom = "DAHUA" PROVE Spec => []NoDeadRedirect
  <1>1. Inv => NoDeadRedirect
    BY DEF Inv, RedirectInv
  <1> QED
    BY <1>1, CustomBuildInv, PTL

\* In the custom build a run that ends without a failure leaves neither program nor
\* device nor redirect behind, those of earlier, killed runs included.
THEOREM CleanlyStopped == ASSUME Custom = "DAHUA" PROVE Spec => []CleanStop
  <1>1. Inv => CleanStop
    BY DEF Inv, RedirectInv, UndoneInv, CleanStop
  <1> QED
    BY <1>1, CustomBuildInv, PTL
=============================================================================
