------------------------------- MODULE Bwmcli -------------------------------
(***************************************************************************)
(* bwmcli (bwmcli/bwmcli.c): the command line tool that limits all offline *)
(* traffic of a host together, and the files of /proc/qos (bwmcli/ko/bwm.c)*)
(* that start it from the kernel.  Every command is a process of its own;  *)
(* nothing keeps two of them apart.                                        *)
(*                                                                         *)
(* A process takes one step per shell command (system()) and per access to *)
(* the pinned map throttle_cfg; the listings of DefaultTc are one step.    *)
(* What tc keeps of a device is the kind of its root qdisc, whether it has *)
(* a clsact qdisc, and the egress filters there.  Device names are numbers *)
(* in the order of /proc/net/dev.  Arguments are the parsed values.  The   *)
(* priorities of cgroups and what -p prints are left out.                  *)
(***************************************************************************)
EXTENDS Naturals, FiniteSets

CONSTANTS
    Processes,      \* the processes that run bwmcli
    NumDevices,     \* lines of /proc/net/dev
    DefaultQdisc,   \* /proc/sys/net/core/default_qdisc
    LOWEST_BANDWIDTH, DEFAULT_LOW_BANDWIDTH, DEFAULT_WATERLINE,
    DEFAULT_HIGH_BANDWIDTH, HIGHEST_BANDWIDTH,
    Bandwidths,     \* the values commands are given
    Hosts,          \* what devices may be used for before the first command
    MaxCommands,    \* bound on the number of commands
    MaxFaults       \* bound on the number of interruptions, failed forks and refusals

ASSUME BwmcliAssumption ==
    /\ NumDevices \in Nat \ {0} /\ MaxCommands \in Nat /\ MaxFaults \in Nat
    /\ Bandwidths \subseteq Nat /\ DefaultQdisc \notin {"other", "similar", "noqueue"}
    /\ LOWEST_BANDWIDTH \in Nat \ {0} /\ DEFAULT_LOW_BANDWIDTH \in Nat
    /\ DEFAULT_WATERLINE \in Nat /\ DEFAULT_HIGH_BANDWIDTH \in Nat
    /\ HIGHEST_BANDWIDTH \in Nat
    /\ LOWEST_BANDWIDTH <= DEFAULT_LOW_BANDWIDTH
    /\ DEFAULT_LOW_BANDWIDTH <= DEFAULT_HIGH_BANDWIDTH
    /\ DEFAULT_HIGH_BANDWIDTH <= HIGHEST_BANDWIDTH
    /\ DEFAULT_WATERLINE <= HIGHEST_BANDWIDTH

Devices == 1..NumDevices

\* "default" is the qdisc the kernel attaches by itself, noqueue to a virtual device.
\* An administrator's is "other", "mixed" with default qdiscs below it, or "similar"
\* when the default's name is a part of its own, as fq is of sfq and fq_codel.
Roots == {"none", "default", "fq", "other", "similar", "mixed"}
TcStates == [root : Roots, clsact : BOOLEAN, filters : SUBSET {"bwm_tc.o", "other"},
             virtual : BOOLEAN]

Configs == [water_line : Nat, interval : Nat, low_rate : Nat, high_rate : Nat]

\* A host bwmcli has not been used on.
ASSUME HostsAssumption ==
    Hosts \subseteq {s \in [Devices -> TcStates] :
                      \A d \in Devices : /\ s[d].root # "fq"
                                         /\ "bwm_tc.o" \notin s[d].filters
                                         /\ ~s[d].clsact => s[d].filters = {}}

ZeroConfig == [water_line |-> 0, interval |-> 0, low_rate |-> 0, high_rate |-> 0]
DefaultConfig ==
    [water_line |-> DEFAULT_WATERLINE, interval |-> 1,
     low_rate |-> DEFAULT_LOW_BANDWIDTH, high_rate |-> DEFAULT_HIGH_BANDWIDTH]

\* -e and -d with a device, or with 0 for all; -s bandwidth low,high; -s waterline
\* high.  A file of /proc/qos that starts a setting keeps what it has set.
Commands ==
    [op : {"enable", "disable"}, dev : {0} \union Devices, low : {0}, high : {0}, via : {"shell"}]
    \union
    [op : {"bandwidth"}, dev : {0}, low : Bandwidths, high : Bandwidths, via : {"shell", "proc"}]
    \union
    [op : {"waterline"}, dev : {0}, low : {0}, high : Bandwidths, via : {"shell", "proc"}]
NoCommand == [op |-> "none", dev |-> 0, low |-> 0, high |-> 0, via |-> "none"]

VARIABLES
    tc,         \* device -> its qdiscs and filters
    pinned,     \* throttle_cfg is pinned
    cfg,        \* its one entry
    proc,       \* process -> its next step, command and locals
    shown,      \* net_qos_bandwidth and net_qos_waterline
    commands,   \* number of commands so far
    faults,     \* number of interruptions, failed forks and refusals so far
    told,       \* history: what was last printed about a device
    given,      \* history: tc as the first command found it
    upset       \* history: what went on that the tool cannot cope with

hostVars == <<tc, pinned, cfg>>
vars == <<hostVars, proc, shown, commands, faults, told, given, upset>>

Pcs == {"idle", "filter?", "fq?", "default?", "delRoot", "delClsact", "addFq",
        "addClsact", "addFilter", "readCfg", "initCfg", "offFilter", "offClsact",
        "offRoot", "readSet", "update", "proc"}

\* The stage is "run", or "clear" and "rollback" after an enable has failed; at is
\* the device the process is at, copy its local cfg.
ProcStates ==
    [pc : Pcs, cmd : Commands \union {NoCommand}, stage : {"run", "clear", "rollback"},
     at : Devices, copy : Configs]
Ended == [pc |-> "idle", cmd |-> NoCommand, stage |-> "run", at |-> 1, copy |-> ZeroConfig]

TypeOK ==
    /\ tc \in [Devices -> TcStates] /\ given \in [Devices -> TcStates]
    /\ pinned \in BOOLEAN
    /\ cfg \in Configs
    /\ proc \in [Processes -> ProcStates]
    /\ shown \in [bandwidth : (Nat \X Nat) \union {<<>>}, waterline : Nat]
    /\ commands \in 0..MaxCommands /\ faults \in 0..MaxFaults
    /\ told \in [Devices -> {"nothing", "enabled", "disabled", "other TC"}]
    /\ upset \subseteq {"overlap", "kill", "fork", "refused", "early", "shell"}

Init ==
    /\ tc \in Hosts
    /\ given = tc
    /\ pinned = FALSE /\ cfg = ZeroConfig
    /\ proc = [p \in Processes |-> Ended]
    /\ shown = [bandwidth |-> <<>>, waterline |-> 0]
    /\ commands = 0 /\ faults = 0
    /\ told = [d \in Devices |-> "nothing"]
    /\ upset = {}

-----------------------------------------------------------------------------
\* What "tc qdisc ls" lists of a device besides clsact.
Names(s) ==
    CASE s.root = "none" -> {}
      [] s.root = "default" -> IF s.virtual THEN {"noqueue"} ELSE {DefaultQdisc}
      [] s.root = "mixed" -> {"other", DefaultQdisc}
      [] s.root \in {"fq", "other", "similar"} -> {s.root}

HasFilter(s) == "bwm_tc.o" \in s.filters
NetdevEnabled(s) == HasFilter(s) /\ "fq" \in Names(s)

\* The default's name is looked for with grep, also within other names.
GrepsDefault(s) == DefaultQdisc \in Names(s) \/ "similar" \in Names(s)

\* Only devices configured with default qdisc or no qdisc can be enabled.
DefaultTcIgnoresClsact(s) == GrepsDefault(s) \/ "noqueue" \in Names(s) \/ Names(s) = {}
DefaultTc(s) ==
    ~s.clsact /\ (GrepsDefault(s) \/ "noqueue" \in Names(s) \/ Names(s) = {})

DelRoot(s) ==
    [s EXCEPT !.root = IF @ \in {"fq", "other", "similar", "mixed"} THEN "default" ELSE @]
DelClsact(s) == [s EXCEPT !.clsact = FALSE, !.filters = {}]
DelFilters(s) == [s EXCEPT !.filters = {}]

\* "add" is refused by what is there already.
CanAddFq(s) == s.root \in {"none", "default"}
CanAddClsact(s) == ~s.clsact
CanAddFilter(s) == s.clsact

-----------------------------------------------------------------------------
Becomes(p, r) == proc' = [proc EXCEPT ![p] = r]

Running == {p \in Processes : proc[p].pc # "idle"}

Start(p, c) ==
    /\ proc[p].pc = "idle" /\ commands < MaxCommands
    /\ commands' = commands + 1
    /\ Becomes(p, [pc |-> IF c.op \in {"enable", "disable"} THEN "filter?" ELSE "readSet",
                   cmd |-> c, stage |-> "run",
                   at |-> IF c.dev = 0 THEN 1 ELSE c.dev, copy |-> ZeroConfig])
    /\ upset' = IF Running # {} THEN upset \union {"overlap"} ELSE upset
    /\ UNCHANGED <<hostVars, shown, faults, told, given>>

At(p, pc) == proc[p].pc = pc
Device(p) == tc[proc[p].at]
Goto(p, pc) == Becomes(p, [proc[p] EXCEPT !.pc = pc])

Fault(kinds) ==
    /\ faults < MaxFaults
    /\ faults' = faults + 1
    /\ upset' = upset \union kinds
Ran == UNCHANGED <<faults, upset>>
ForkFailed == Fault({"fork"})     \* system() could not start a shell

\* The process is interrupted.
Kill(p) ==
    /\ proc[p].pc # "idle"
    /\ Becomes(p, Ended)
    /\ Fault({"kill"})
    /\ UNCHANGED <<hostVars, shown, commands, told, given>>

-----------------------------------------------------------------------------
\* The callback of ForeachEthdev returns: on to the next device, or the end.
\* A failed EnableAllNetdevice goes over all devices again and disables them.
ForAll(p) == proc[p].cmd.dev = 0

DevicePastEnd(p, ok) ==
    IF proc[p].stage = "clear" /\ ForAll(p)
    THEN Becomes(p, [proc[p] EXCEPT !.stage = "rollback", !.at = 1, !.pc = "filter?"])
    ELSE IF ok /\ proc[p].stage # "clear" /\ ForAll(p)
    THEN Becomes(p, [proc[p] EXCEPT !.at = @ + 1, !.pc = "filter?"])
    ELSE Becomes(p, Ended)

RollbackFromHere(p, ok) ==
    IF proc[p].stage = "clear" /\ ForAll(p)
    THEN Becomes(p, [proc[p] EXCEPT !.stage = "rollback", !.pc = "filter?"])
    ELSE IF ok /\ proc[p].stage # "clear" /\ ForAll(p) /\ proc[p].at < NumDevices
    THEN Becomes(p, [proc[p] EXCEPT !.at = @ + 1, !.pc = "filter?"])
    ELSE Becomes(p, Ended)

DeviceDone(p, ok) ==
    IF proc[p].stage = "clear" /\ ForAll(p)
    THEN Becomes(p, [proc[p] EXCEPT !.stage = "rollback", !.at = 1, !.pc = "filter?"])
    ELSE IF ok /\ proc[p].stage # "clear" /\ ForAll(p) /\ proc[p].at < NumDevices
    THEN Becomes(p, [proc[p] EXCEPT !.at = @ + 1, !.pc = "filter?"])
    ELSE Becomes(p, Ended)

DoneSaying(p, what) ==
    /\ DeviceDone(p, TRUE)
    /\ told' = [told EXCEPT ![proc[p].at] = what]
GoOn(p, pc) == Goto(p, pc) /\ UNCHANGED told

Enabling(p) == proc[p].cmd.op = "enable" /\ proc[p].stage = "run"

\* NetdevEnabled says no.
NotEnabled(p) ==
    IF Enabling(p) THEN GoOn(p, "default?") ELSE DoneSaying(p, "disabled")

LooksOnly == UNCHANGED <<hostVars, shown, commands, given>>

\* A listing that cannot be made counts as one without the word.
NetdevEnabledFilter(p) ==
    /\ At(p, "filter?")
    /\ \/ HasFilter(Device(p)) /\ GoOn(p, "fq?") /\ Ran
       \/ ~HasFilter(Device(p)) /\ NotEnabled(p) /\ Ran
       \/ NotEnabled(p) /\ ForkFailed
    /\ LooksOnly

NetdevEnabledFq(p) ==
    /\ At(p, "fq?")
    /\ \/ /\ "fq" \in Names(Device(p))
          /\ IF Enabling(p) THEN DoneSaying(p, "enabled") ELSE GoOn(p, "offFilter")
          /\ Ran
       \/ "fq" \notin Names(Device(p)) /\ NotEnabled(p) /\ Ran
       \/ NotEnabled(p) /\ ForkFailed
    /\ LooksOnly

CheckDefaultTc(p) ==
    /\ At(p, "default?")
    /\ \/ DefaultTc(Device(p)) /\ GoOn(p, "delRoot") /\ Ran
       \/ ~DefaultTc(Device(p)) /\ DoneSaying(p, "other TC") /\ Ran
       \/ (GoOn(p, "delRoot") \/ DoneSaying(p, "other TC")) /\ ForkFailed
    /\ LooksOnly

-----------------------------------------------------------------------------
\* A tc command that changes the device, and the next step.
Tc(p, s, pc) ==
    /\ tc' = [tc EXCEPT ![proc[p].at] = s]
    /\ GoOn(p, pc)
    /\ UNCHANGED <<pinned, cfg>> /\ Ran

\* The enable sequence.  What a failure leaves is for DisableSpecificNetdevice to
\* clear, which first looks whether the device is enabled.
NoClear(p) == Becomes(p, Ended) /\ UNCHANGED told
Clear(p) ==
    /\ Becomes(p, [proc[p] EXCEPT !.pc = "filter?", !.stage = "clear"])
    /\ UNCHANGED told

ClearUnchanged(p) == Clear(p) /\ UNCHANGED hostVars

TcOnly == UNCHANGED <<shown, commands, given>>

\* tc may refuse to delete; nobody looks.
EnableDelRoot(p) ==
    /\ At(p, "delRoot")
    /\ \/ \E s \in {Device(p), DelRoot(Device(p))} : Tc(p, s, "delClsact")
       \/ ClearUnchanged(p) /\ ForkFailed
    /\ TcOnly

EnableDelClsact(p) ==
    /\ At(p, "delClsact")
    /\ \/ \E s \in {Device(p), DelClsact(Device(p))} : Tc(p, s, "addFq")
       \/ ClearUnchanged(p) /\ ForkFailed
    /\ TcOnly

\* fq and clsact may be refused, or missing in the kernel.
EnableAddFq(p) ==
    /\ At(p, "addFq")
    /\ \/ CanAddFq(Device(p)) /\ Tc(p, [Device(p) EXCEPT !.root = "fq"], "addClsact")
       \/ ClearUnchanged(p) /\ (Ran \/ ForkFailed)
    /\ TcOnly

EnableAddClsact(p) ==
    /\ At(p, "addClsact")
    /\ \/ CanAddClsact(Device(p)) /\ Tc(p, [Device(p) EXCEPT !.clsact = TRUE], "addFilter")
       \/ ClearUnchanged(p) /\ (Ran \/ ForkFailed)
    /\ TcOnly

\* tc creates and pins the maps of bwm_tc.o before it loads the program.
EnableAddFilter(p) ==
    /\ At(p, "addFilter")
    /\ \/ /\ CanAddFilter(Device(p))
          /\ tc' = [tc EXCEPT ![proc[p].at].filters = @ \union {"bwm_tc.o"}]
          /\ pinned' = TRUE /\ UNCHANGED cfg
          /\ GoOn(p, "readCfg") /\ Ran
       \/ Clear(p) /\ pinned' \in {pinned, TRUE} /\ UNCHANGED <<tc, cfg>> /\ Ran
       \/ ClearUnchanged(p) /\ ForkFailed
    /\ TcOnly

InitCfgMapAlways(p) ==
    /\ At(p, "readCfg")
    /\ \/ /\ pinned
          /\ Becomes(p, [proc[p] EXCEPT !.copy = DefaultConfig, !.pc = "initCfg"])
          /\ UNCHANGED told
       \/ Clear(p)
    /\ Ran /\ LooksOnly

InitCfgMapReadCfg(p) ==
    /\ At(p, "readCfg")
    /\ \/ /\ pinned /\ cfg.interval = 0
          /\ Becomes(p, [proc[p] EXCEPT !.copy = DefaultConfig, !.pc = "initCfg"])
          /\ UNCHANGED told
       \/ pinned /\ cfg.interval # 0 /\ DoneSaying(p, "enabled")
       \/ Clear(p)
    /\ Ran /\ LooksOnly

InitCfgMapUpdateCfg(p) ==
    /\ At(p, "initCfg")
    /\ \/ cfg' = proc[p].copy /\ UNCHANGED <<tc, pinned>> /\ DoneSaying(p, "enabled")
       \/ ClearUnchanged(p)
    /\ Ran /\ TcOnly

\* The disable sequence; only a shell that cannot be started ends it.  What tc
\* refuses to delete stays, and "disable success" is printed all the same.  A filter
\* goes with its clsact qdisc: it stays when both are refused.
DisableFails(p) ==
    DeviceDone(p, FALSE) /\ UNCHANGED <<hostVars, told>> /\ ForkFailed

DisableDelFilter(p) ==
    /\ At(p, "offFilter")
    /\ \/ \E s \in {Device(p), DelFilters(Device(p))} : Tc(p, s, "offClsact")
       \/ DisableFails(p)
    /\ TcOnly

Refused(lost) == UNCHANGED hostVars /\ Fault(IF lost THEN {"refused"} ELSE {})

DisableDelClsact(p) ==
    /\ At(p, "offClsact")
    /\ \/ Tc(p, DelClsact(Device(p)), "offRoot")
       \/ GoOn(p, "offRoot") /\ Refused(HasFilter(Device(p)))
       \/ DisableFails(p)
    /\ TcOnly

DisableDelRoot(p) ==
    /\ At(p, "offRoot")
    /\ \/ /\ tc' = [tc EXCEPT ![proc[p].at] = DelRoot(@)] /\ UNCHANGED <<pinned, cfg>>
          /\ DoneSaying(p, "disabled") /\ Ran
       \/ DoneSaying(p, "disabled") /\ Refused(FALSE)
       \/ DisableFails(p)
    /\ TcOnly

-----------------------------------------------------------------------------
\* -s bandwidth and -s waterline: read the entry, test the values, write it back.
ValidAnyOrder(c) ==
    IF c.op = "bandwidth"
    THEN LOWEST_BANDWIDTH <= c.low /\ c.high <= HIGHEST_BANDWIDTH
    ELSE DEFAULT_WATERLINE <= c.high /\ c.high <= HIGHEST_BANDWIDTH
Valid(c) ==
    IF c.op = "bandwidth"
    THEN LOWEST_BANDWIDTH <= c.low /\ c.low <= c.high /\ c.high <= HIGHEST_BANDWIDTH
    ELSE DEFAULT_WATERLINE <= c.high /\ c.high <= HIGHEST_BANDWIDTH

Changed(entry, c) ==
    IF c.op = "bandwidth"
    THEN [entry EXCEPT !.low_rate = c.low, !.high_rate = c.high]
    ELSE [entry EXCEPT !.water_line = c.high]

\* bwmcli has ended well: the shell's user is told, or the kernel goes on.
SetDone(p) ==
    IF proc[p].cmd.via = "proc" THEN Goto(p, "proc") ELSE Becomes(p, Ended)

SetRead(p) ==
    /\ At(p, "readSet")
    /\ LET c == proc[p].cmd
       IN \/ /\ pinned /\ Valid(c)
             /\ IF Changed(cfg, c) = cfg THEN SetDone(p)
                ELSE Becomes(p, [proc[p] EXCEPT !.copy = Changed(cfg, c), !.pc = "update"])
          \/ ~(pinned /\ Valid(c)) /\ Becomes(p, Ended)
    /\ Ran /\ LooksOnly /\ UNCHANGED told

SetUpdate(p) ==
    /\ At(p, "update")
    /\ \/ /\ cfg' = proc[p].copy
          /\ SetDone(p)
          /\ upset' = upset \union (IF cfg'.interval = 0 THEN {"early"} ELSE {})
                            \union (IF proc[p].cmd.via = "shell" THEN {"shell"} ELSE {})
       \/ Becomes(p, Ended) /\ UNCHANGED <<cfg, upset>>
    /\ UNCHANGED <<tc, pinned, told, faults>> /\ TcOnly

\* The file of /proc/qos keeps what it was given when bwmcli has ended well.
ProcKeeps(p) ==
    /\ At(p, "proc")
    /\ Becomes(p, Ended)
    /\ LET c == proc[p].cmd
       IN shown' = IF c.op = "bandwidth" THEN [shown EXCEPT !.bandwidth = <<c.low, c.high>>]
                   ELSE [shown EXCEPT !.waterline = c.high]
    /\ Ran /\ UNCHANGED <<hostVars, commands, told, given>>

-----------------------------------------------------------------------------
NetdevEnabledCalls(p) == NetdevEnabledFilter(p) \/ NetdevEnabledFq(p)
Enable(p) ==
    \/ CheckDefaultTc(p) \/ EnableDelRoot(p) \/ EnableDelClsact(p) \/ EnableAddFq(p)
    \/ EnableAddClsact(p) \/ EnableAddFilter(p)
    \/ InitCfgMapReadCfg(p) \/ InitCfgMapUpdateCfg(p)
Disable(p) == DisableDelFilter(p) \/ DisableDelClsact(p) \/ DisableDelRoot(p)
Set(p) == SetRead(p) \/ SetUpdate(p) \/ ProcKeeps(p)

Next ==
    \E p \in Processes :
      \/ \E c \in Commands : Start(p, c)
      \/ NetdevEnabledCalls(p) \/ Enable(p) \/ Disable(p) \/ Set(p)
      \/ Kill(p)

Spec == Init /\ [][Next]_vars

-----------------------------------------------------------------------------
\* However commands overlap, fail or are interrupted, a configuration with an
\* interval has rates and a waterline within the limits the tool states: every write
\* is a whole entry, made from one that was read earlier, of which one part is new.
SoundConfig(c) ==
    c.interval # 0 =>
      /\ LOWEST_BANDWIDTH <= c.low_rate /\ c.low_rate <= c.high_rate
      /\ c.high_rate <= HIGHEST_BANDWIDTH
      /\ DEFAULT_WATERLINE <= c.water_line /\ c.water_line <= HIGHEST_BANDWIDTH
ConfigSound == SoundConfig(cfg)

\* A device that somebody else has configured, with a clsact qdisc or with qdiscs
\* whose listing does not have the default's name in it, is left as it is by every
\* command: also by a disable, by the rollback of an enable of all devices, and by
\* what is undone after a failure (as long as a shell can be started for each
\* listing).  Where the listing has the name, in a longer name or below the root,
\* DefaultTc takes the device for an unused one and an enable deletes what is there.
Foreign(s) == s.clsact \/ s.root = "other"
ForeignKept ==
    \A d \in Devices : Foreign(given[d]) /\ "fork" \notin upset => tc[d] = given[d]

\* What the tool printed last about a device is so when nothing runs and no command
\* overlapped another or was cut off: an enabled device carries filter and qdisc and
\* the limits are configured; after a disable, and after an enable that failed half
\* way on this or on another device, no filter is left.  The exception is a disable
\* that tc refused both the filter and the clsact qdisc to: it says success.
AsTold ==
    upset \subseteq {"early", "shell"} /\ Running = {} =>
      \A d \in Devices :
        /\ told[d] = "enabled" => NetdevEnabled(tc[d]) /\ cfg.interval # 0
        /\ told[d] # "enabled" => ~HasFilter(tc[d])

\* When an enable of all devices has failed on one of them, none is left enabled,
\* not even one that an earlier command had enabled: EnableAllNetdevice rolls back
\* by DisableAllNetdevice (with the same exception).
RollbackComplete ==
    [][\A p \in Processes :
         proc[p].stage = "rollback" /\ proc'[p] = Ended /\ upset' \subseteq {"early", "shell"}
           => \A d \in Devices : ~HasFilter(tc'[d])]_vars

\* What the files of /proc/qos show is what is configured, as long as commands come
\* one at a time, settings through these files, and none is interrupted; tc and shells
\* may fail.  One exception: a setting made before the first enable has succeeded
\* (possible once a failed one has pinned the map) may have been replaced by the
\* default, which InitCfgMap then writes.
InForce(value, default, entry) == entry = value \/ ("early" \in upset /\ entry = default)
ShownInForce ==
    upset \subseteq {"early", "refused", "fork"} /\ Running = {} =>
      /\ shown.bandwidth # <<>> =>
           InForce(shown.bandwidth, <<DEFAULT_LOW_BANDWIDTH, DEFAULT_HIGH_BANDWIDTH>>,
                   <<cfg.low_rate, cfg.high_rate>>)
      /\ shown.waterline # 0 => InForce(shown.waterline, DEFAULT_WATERLINE, cfg.water_line)
=============================================================================
