------------------------------ MODULE TcSetup ------------------------------
(***************************************************************************)
(* What alg-daemon sets up in the kernel before it manages bandwidth and   *)
(* undoes when it ends (runAlg in cmd/alg-daemon/main.go, pkg/tc, and      *)
(* EnableDevQos and DisableDevQos of pkg/bpfgo/utils.go): the EDT program  *)
(* on the host NIC's egress, an ifb device with the program on it, and a   *)
(* filter that redirects the NIC's ingress to that device.                 *)
(*                                                                         *)
(* One action per deferred function or called function.  Each may fail     *)
(* after a part of its commands; a process killed in the middle of one is  *)
(* a failure followed by Kill.  The kernel's state outlives the process.   *)
(* A redirect refers to the device itself: a new device of the same name   *)
(* is another one, which its index tells.                                  *)
(***************************************************************************)
EXTENDS Naturals

CONSTANTS
    Custom,       \* the build: "DAHUA" or ""
    Foreign,      \* priorities of other matchall filters that are there before
    MaxStarts     \* bound on the starts of alg-daemon

ASSUME TcSetupAssumption ==
    /\ Custom \in {"DAHUA", ""}
    /\ Foreign \subseteq Nat \ {0, 2}
    /\ MaxStarts \in Nat

VARIABLES
    nic,       \* what is attached to the host NIC: fq, clsact, the program
    ifb,       \* the ifb device: index (0: there is none), up, attached
    lastIndex, \* index of the last ifb device
    filters,   \* of the NIC's ingress; dev is where a redirect leads, 0 nowhere
    pc,        \* next call of alg-daemon
    starts,
    faulty     \* has a call failed, or the process been killed, since its start?

kernel == <<nic, ifb, lastIndex, filters>>
vars == <<kernel, pc, starts, faulty>>

Attachments == {"fq", "clsact", "prog"}
FilterType == IF Custom = "DAHUA" THEN "dhcmatchall" ELSE "matchall"
Filters == [type : {"matchall", "dhcmatchall"}, priority : Foreign \union {2},
            dev : 0..MaxStarts]
NoIfb == [index |-> 0, up |-> FALSE, attached |-> {}]
Calls == {"egress", "createIfb", "redirect", "ifbQos", "open", "running",
          "ifbOff", "redirectOff", "destroyIfb", "egressOff", "exited"}

TypeOK ==
    /\ nic \subseteq Attachments
    /\ ifb \in [index : 0..MaxStarts, up : BOOLEAN, attached : SUBSET Attachments]
    /\ lastIndex \in 0..starts
    /\ filters \subseteq Filters
    /\ pc \in Calls
    /\ starts \in 0..MaxStarts
    /\ faulty \in BOOLEAN

Init ==
    /\ nic = {} /\ ifb = NoIfb /\ lastIndex = 0
    /\ \E t \in {"matchall", FilterType} :
         filters = {[type |-> t, priority |-> p, dev |-> 0] : p \in Foreign}
    /\ pc = "exited" /\ starts = 0 /\ faulty = FALSE

Start ==
    /\ pc = "exited" /\ starts < MaxStarts
    /\ pc' = "egress" /\ starts' = starts + 1 /\ faulty' = FALSE
    /\ UNCHANGED kernel

GoTo(next) == pc' = next /\ UNCHANGED <<starts, faulty>>
FailTo(next) == pc' = next /\ faulty' = TRUE /\ UNCHANGED starts

-----------------------------------------------------------------------------
(* Setting up.  A failure runs the functions deferred so far.              *)

\* EnableDevQos: three tc commands, the first that fails being the last.
EnableDevQos(before) == before \union Attachments
EnableDevQosFails(before) == {before, before \union {"fq"},
                              before \union {"fq", "clsact"}}

EnableEgressQos ==
    /\ pc = "egress"
    /\ \/ nic' = EnableDevQos(nic) /\ GoTo("createIfb")
       \/ nic' \in EnableDevQosFails(nic) /\ FailTo("exited")
    /\ UNCHANGED <<ifb, lastIndex, filters>>

\* The device of that name, or a new one.
LinkByNameOrAdd(new) ==
    IF ifb.index = 0 THEN [NoIfb EXCEPT !.index = new] ELSE ifb

CreateIfbDevUpWhenAdded ==
    /\ pc = "createIfb"
    /\ \/ /\ ifb' = IF ifb.index # 0 THEN ifb
                    ELSE [LinkByNameOrAdd(lastIndex + 1) EXCEPT !.up = TRUE]
          /\ lastIndex' = IF ifb.index = 0 THEN lastIndex + 1 ELSE lastIndex
          /\ GoTo("redirect")
       \/ /\ ifb' = LinkByNameOrAdd(lastIndex + 1)
          /\ lastIndex' = IF ifb.index = 0 THEN lastIndex + 1 ELSE lastIndex
          /\ FailTo("egressOff")
       \/ UNCHANGED <<ifb, lastIndex>> /\ FailTo("egressOff")
    /\ UNCHANGED <<nic, filters>>

\* LinkAdd unless the device is there, then LinkSetUp; either may fail.
CreateIfbDev ==
    /\ pc = "createIfb"
    /\ \/ /\ ifb' = [LinkByNameOrAdd(lastIndex + 1) EXCEPT !.up = TRUE]
          /\ lastIndex' = IF ifb.index = 0 THEN lastIndex + 1 ELSE lastIndex
          /\ GoTo("redirect")
       \/ /\ ifb' = LinkByNameOrAdd(lastIndex + 1)
          /\ lastIndex' = IF ifb.index = 0 THEN lastIndex + 1 ELSE lastIndex
          /\ FailTo("egressOff")
       \/ UNCHANGED <<ifb, lastIndex>> /\ FailTo("egressOff")
    /\ UNCHANGED <<nic, filters>>

Own == {f \in filters : f.type = FilterType}
RedirectOfAutomaticPriority ==
    [type |-> FilterType, priority |-> 49152, dev |-> ifb.index]

\* The filter that FilterReplace installs.  Of a MatchAll it sends neither action
\* nor class (the case of filterModify is empty): that filter leads nowhere.
Redirect == [type |-> FilterType, priority |-> 2,
             dev |-> IF FilterType = "dhcmatchall" THEN ifb.index ELSE 0]

\* The filters of the type are walked in the order of their priorities: one of
\* priority 2 is taken for the redirect and ends the walk, others are deleted.
NicIngressFilterToIfb ==
    /\ pc = "redirect"
    /\ \/ /\ \E f \in Own : f.priority = 2
          /\ filters' = filters \ {f \in Own : f.priority < 2}
          /\ GoTo("ifbQos")
       \/ /\ \A f \in Own : f.priority # 2
          /\ filters' = (filters \ Own) \union {Redirect}
          /\ GoTo("ifbQos")
       \/ /\ \E deleted \in SUBSET {f \in Own : f.priority # 2} :
               filters' = filters \ deleted
          /\ FailTo("egressOff")
    /\ UNCHANGED <<nic, ifb, lastIndex>>

EnableIfbQos ==
    /\ pc = "ifbQos"
    /\ \/ ifb' = [ifb EXCEPT !.attached = EnableDevQos(@)] /\ GoTo("open")
       \/ /\ \E a \in EnableDevQosFails(ifb.attached) :
               ifb' = [ifb EXCEPT !.attached = a]
          /\ FailTo("egressOff")
    /\ UNCHANGED <<nic, lastIndex, filters>>

\* NewTcbpf and the settings read from the environment.
Open ==
    /\ pc = "open"
    /\ GoTo("running") \/ FailTo("ifbOff")
    /\ UNCHANGED kernel

-----------------------------------------------------------------------------
(* Ending.  A signal only cancels the context, which runAlg looks at when  *)
(* it is set up; then the deferred functions run, the last one first.      *)

Cancel ==
    /\ pc = "running"
    /\ GoTo("ifbOff")
    /\ UNCHANGED kernel

\* DisableDevQos(ifb): that the program was not found, or the command failed,
\* is logged and no more.
DisableIfbQos ==
    /\ pc = "ifbOff"
    /\ \/ ifb' = [ifb EXCEPT !.attached = @ \ {"prog"}] /\ GoTo("redirectOff")
       \/ UNCHANGED ifb /\ FailTo("redirectOff")
    /\ UNCHANGED <<nic, lastIndex, filters>>

DisableOtherType == {f \in filters : f.type = "matchall"}

\* The filters that DisableNicIngressFilterToIfb deletes, in every build.
Disabled == {f \in filters : f.type = "dhcmatchall"}

DisableNicIngressFilterToIfb ==
    /\ pc = "redirectOff"
    /\ \/ filters' = filters \ Disabled /\ GoTo("destroyIfb")
       \/ /\ \E deleted \in SUBSET Disabled : filters' = filters \ deleted
          /\ FailTo("egressOff")
    /\ UNCHANGED <<nic, ifb, lastIndex>>

DestroyIfbDevNever ==
    /\ pc = "destroyIfb"
    /\ GoTo("egressOff")
    /\ UNCHANGED kernel

DestroyIfbDev ==
    /\ pc = "destroyIfb"
    /\ \/ ifb' = NoIfb /\ GoTo("egressOff")
       \/ UNCHANGED ifb /\ FailTo("egressOff")
    /\ UNCHANGED <<nic, lastIndex, filters>>

DisableEgressQos ==
    /\ pc = "egressOff"
    /\ \/ nic' = nic \ {"prog"} /\ GoTo("exited")
       \/ UNCHANGED nic /\ FailTo("exited")
    /\ UNCHANGED <<ifb, lastIndex, filters>>

Kill ==
    /\ pc # "exited"
    /\ FailTo("exited")
    /\ UNCHANGED kernel

Next ==
    \/ Start \/ EnableEgressQos \/ CreateIfbDev \/ NicIngressFilterToIfb
    \/ EnableIfbQos \/ Open \/ Cancel \/ DisableIfbQos
    \/ DisableNicIngressFilterToIfb \/ DestroyIfbDev \/ DisableEgressQos \/ Kill

Spec == Init /\ [][Next]_vars

-----------------------------------------------------------------------------
\* While alg-daemon manages bandwidth, whatever earlier runs of it left behind,
\* the program is on the NIC's egress, and the NIC's ingress is redirected to an
\* ifb device that exists, is up and has the program.
InForce ==
    pc = "running" =>
      /\ nic = Attachments
      /\ ifb.index # 0 /\ ifb.up /\ ifb.attached = Attachments
      /\ \E f \in filters : f.priority = 2 /\ f.dev = ifb.index

\* Running or not, the NIC's ingress never leads to a device that is gone.
NoDeadRedirect == \A f \in filters : f.dev # 0 => f.dev = ifb.index

\* A run that ends with no failure leaves neither program nor device nor
\* redirect behind, not even one that an earlier, killed run had left.
CleanStop ==
    pc = "exited" /\ starts > 0 /\ ~faulty =>
      "prog" \notin nic /\ ifb = NoIfb /\ \A f \in filters : f.dev = 0
=============================================================================
