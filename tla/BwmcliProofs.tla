---------------------------- MODULE BwmcliProofs ----------------------------
(***************************************************************************)
(* What bwmcli keeps for any number of devices, processes and commands, in *)
(* whatever order they overlap, fail and are interrupted: the types of its *)
(* state, a sound configuration, and the devices of others.                *)
(***************************************************************************)
EXTENDS Bwmcli, TLAPS

Step(p) == NetdevEnabledCalls(p) \/ Enable(p) \/ Disable(p) \/ Set(p) \/ Kill(p)

Tolds == {"nothing", "enabled", "disabled", "other TC"}
Upsets == {"overlap", "kill", "fork", "refused", "early", "shell"}

\* The steps before which a process has made sure that the device is no other's.
Touching == {"fq?", "delRoot", "delClsact", "addFq", "addClsact", "addFilter",
             "readCfg", "initCfg", "offFilter", "offClsact", "offRoot"}
Writing == {"initCfg", "update"}

\* What is known of a process: a copy about to be written is sound, and a device
\* about to be changed is not somebody else's.
CopySound(r) == r.pc \in Writing => SoundConfig(r.copy)
DeviceOwn(r, g, u) == r.pc \in Touching /\ "fork" \notin u => ~Foreign(g[r.at])

\* A process that reads the entry to change it was started to do so.
SettingPcs == {"readSet", "update", "proc"}
Setting(r) ==
    r.pc \in SettingPcs =>
      r.cmd \in Commands /\ r.cmd.op \in {"bandwidth", "waterline"}

GivenClean == \A d \in Devices : ~HasFilter(given[d])

Inv ==
    /\ TypeOK
    /\ ConfigSound
    /\ ForeignKept
    /\ GivenClean
    /\ \A p \in Processes :
         CopySound(proc[p]) /\ DeviceOwn(proc[p], given, upset) /\ Setting(proc[p])

-----------------------------------------------------------------------------
\* Where a process is after a step, in the two ways it can get there.
Settles(p) ==
    \E r \in ProcStates : Becomes(p, r) /\ r.pc \notin Touching \union Writing /\ Setting(r)
Moves(p) ==
    \E r \in ProcStates : Becomes(p, r) /\ CopySound(r) /\ DeviceOwn(r, given, upset') /\ Setting(r)

\* A process that has ended is a process.
LEMMA EndedTyped == Ended \in ProcStates /\ Ended.pc = "idle"
BY BwmcliAssumption DEF Ended, ProcStates, NoCommand, ZeroConfig, Configs, Devices, Pcs
\* /proc/net/dev has a first line.
LEMMA FirstDevice == 1 \in Devices
BY BwmcliAssumption DEF Devices
\* Nothing has to be known of a process that has ended.
LEMMA EndSettles ==
    ASSUME NEW p \in Processes, Becomes(p, Ended)
    PROVE  Settles(p)
BY EndedTyped DEF Settles, Setting, SettingPcs, Touching, Writing

\* The default configuration is sound.
LEMMA DefaultSound == DefaultConfig \in Configs /\ SoundConfig(DefaultConfig)
BY BwmcliAssumption DEF DefaultConfig, Configs, SoundConfig
\* The values of a command are numbers.
LEMMA CommandTyped ==
    ASSUME NEW c \in Commands, c.op \in {"bandwidth", "waterline"}
    PROVE  c.low \in Nat /\ c.high \in Nat
<1>1. Bandwidths \subseteq Nat
  BY BwmcliAssumption
<1>2. CASE c \in [op : {"bandwidth"}, dev : {0}, low : Bandwidths, high : Bandwidths,
                  via : {"shell", "proc"}]
  <2>1. c.low \in Bandwidths /\ c.high \in Bandwidths
    BY <1>2
  <2> QED
    BY <1>1, <2>1
<1>3. CASE c \in [op : {"waterline"}, dev : {0}, low : {0}, high : Bandwidths,
                  via : {"shell", "proc"}]
  <2>1. c.low = 0 /\ c.high \in Bandwidths
    BY <1>3
  <2>2. c.high \in Nat
    BY <1>1, <2>1
  <2> QED
    BY <2>1, <2>2
<1> QED
  BY <1>2, <1>3 DEF Commands

\* An entry with a part exchanged for values that have been tested is sound.
LEMMA ChangedSound ==
    ASSUME NEW e \in Configs, NEW c \in Commands, SoundConfig(e), Valid(c),
           c.op \in {"bandwidth", "waterline"}
    PROVE  Changed(e, c) \in Configs /\ SoundConfig(Changed(e, c))
<1>1. c.low \in Nat /\ c.high \in Nat
  BY CommandTyped
<1>4. /\ LOWEST_BANDWIDTH \in Nat /\ HIGHEST_BANDWIDTH \in Nat /\ DEFAULT_WATERLINE \in Nat
      /\ e.low_rate \in Nat /\ e.high_rate \in Nat /\ e.water_line \in Nat
  BY BwmcliAssumption DEF Configs
<1>2. CASE c.op = "bandwidth"
  BY <1>1, <1>2 DEF Changed, Valid, SoundConfig, Configs
<1>3. CASE c.op = "waterline"
  BY <1>1, <1>3 DEF Changed, Valid, SoundConfig, Configs
<1> QED
  BY <1>2, <1>3

\* After a device a process is at the next one or has ended.
LEMMA DeviceDoneSettles ==
    ASSUME TypeOK, NEW p \in Processes, NEW ok \in BOOLEAN, DeviceDone(p, ok)
    PROVE  Settles(p)
<1>1. proc[p] \in ProcStates
  BY DEF TypeOK
<1>2. CASE Becomes(p, Ended)
  BY <1>2, EndSettles
<1>3. CASE Becomes(p, [proc[p] EXCEPT !.stage = "rollback", !.at = 1, !.pc = "filter?"])
  <2>1. [proc[p] EXCEPT !.stage = "rollback", !.at = 1, !.pc = "filter?"] \in ProcStates
    BY <1>1, FirstDevice DEF ProcStates, Pcs
  <2>2. [proc[p] EXCEPT !.stage = "rollback", !.at = 1, !.pc = "filter?"].pc = "filter?"
    BY <1>1 DEF ProcStates
  <2> QED
    BY <1>3, <2>1, <2>2 DEF Settles, Setting, SettingPcs, Touching, Writing
<1>4. CASE /\ Becomes(p, [proc[p] EXCEPT !.at = @ + 1, !.pc = "filter?"])
           /\ proc[p].at < NumDevices
  <2>1. [proc[p] EXCEPT !.at = @ + 1, !.pc = "filter?"] \in ProcStates
    <3>1. proc[p].at + 1 \in Devices
      <4>1. proc[p].at \in 1..NumDevices
        BY <1>1 DEF ProcStates, Devices
      <4> QED
        BY <4>1, <1>4, BwmcliAssumption DEF Devices
    <3> QED
      BY <1>1, <3>1 DEF ProcStates, Pcs
  <2>2. [proc[p] EXCEPT !.at = @ + 1, !.pc = "filter?"].pc = "filter?"
    BY <1>1 DEF ProcStates
  <2> QED
    BY <1>4, <2>1, <2>2 DEF Settles, Setting, SettingPcs, Touching, Writing
<1> QED
  BY <1>2, <1>3, <1>4 DEF DeviceDone
\* The same when something is printed about the device first.
LEMMA SayingSettles ==
    ASSUME TypeOK, NEW p \in Processes, NEW what \in Tolds, DoneSaying(p, what)
    PROVE  Settles(p) /\ told' \in [Devices -> Tolds]
<1>1. DeviceDone(p, TRUE)
  BY DEF DoneSaying
<1> QED
  BY <1>1, DeviceDoneSettles DEF DoneSaying, TypeOK, Tolds
\* What is left of a failed enable is cleared by looking at the device afresh.
LEMMA ClearSettles ==
    ASSUME TypeOK, NEW p \in Processes, Clear(p)
    PROVE  Settles(p) /\ told' \in [Devices -> Tolds]
<1> DEFINE r == [proc[p] EXCEPT !.pc = "filter?", !.stage = "clear"]
<1>1. r \in ProcStates /\ r.pc = "filter?"
  BY DEF TypeOK, ProcStates, Pcs
<1>2. Becomes(p, r)
  BY DEF Clear
<1> QED
  BY <1>1, <1>2 DEF Clear, Settles, Setting, SettingPcs, Touching, Writing, TypeOK, Tolds

\* A step to a place before which nothing has to be known.
LEMMA GotoSettles ==
    ASSUME TypeOK, NEW p \in Processes, NEW pc \in Pcs, Goto(p, pc),
           pc \notin Touching \union Writing,
           pc \in SettingPcs => proc[p].pc \in SettingPcs /\ Setting(proc[p])
    PROVE  Settles(p)
<1> DEFINE r == [proc[p] EXCEPT !.pc = pc]
<1>1. r \in ProcStates /\ r.pc = pc /\ r.cmd = proc[p].cmd
  BY DEF TypeOK, ProcStates
<1>2. Setting(r)
  BY <1>1 DEF Setting
<1> QED
  BY <1>1, <1>2 DEF Goto, Settles

\* A step to the next change of a device that is not somebody else's.
LEMMA GotoMoves ==
    ASSUME TypeOK, NEW p \in Processes, NEW pc \in Pcs \ Writing, Goto(p, pc),
           pc \notin SettingPcs,
           "fork" \notin upset' => ~Foreign(given[proc[p].at])
    PROVE  Moves(p)
<1> DEFINE r == [proc[p] EXCEPT !.pc = pc]
<1>1. r \in ProcStates /\ r.pc = pc /\ r.at = proc[p].at
  BY DEF TypeOK, ProcStates
<1> QED
  BY <1>1 DEF Goto, Moves, CopySound, DeviceOwn, Setting
\* To settle is one way to move.
LEMMA SettlesMoves ==
    ASSUME NEW p \in Processes, Settles(p)
    PROVE  Moves(p)
BY DEF Settles, Moves, CopySound, DeviceOwn

\* History of faults.
LEMMA FaultsTyped ==
    ASSUME TypeOK, NEW kinds \in SUBSET Upsets, Ran \/ ForkFailed \/ Fault(kinds)
    PROVE  faults' \in 0..MaxFaults /\ upset' \subseteq Upsets /\ upset \subseteq upset'
<1>1. faults' \in 0..MaxFaults
  <2>1. faults \in 0..MaxFaults /\ MaxFaults \in Nat
    BY BwmcliAssumption DEF TypeOK
  <2>2. faults' = faults \/ (faults < MaxFaults /\ faults' = faults + 1)
    BY DEF Ran, ForkFailed, Fault
  <2> QED
    BY <2>1, <2>2
<1>2. upset \subseteq Upsets
  BY DEF TypeOK, Upsets
<1>3. upset' = upset \/ upset' = upset \union {"fork"} \/ upset' = upset \union kinds
  BY DEF Ran, ForkFailed, Fault
<1> QED
  BY <1>1, <1>2, <1>3 DEF Upsets

\* A command starts with nothing known.
LEMMA StartMoves ==
    ASSUME TypeOK, NEW p \in Processes, NEW c \in Commands, Start(p, c)
    PROVE  Moves(p) /\ upset' \subseteq Upsets /\ upset \subseteq upset'
<1> DEFINE first == IF c.op \in {"enable", "disable"} THEN "filter?" ELSE "readSet"
           dev == IF c.dev = 0 THEN 1 ELSE c.dev
           r == [pc |-> first, cmd |-> c, stage |-> "run", at |-> dev, copy |-> ZeroConfig]
<1>1. first \in Pcs /\ first \notin Touching \union Writing
  BY DEF Pcs, Touching, Writing
<1>2. dev \in Devices
  <2>1. c.dev \in {0} \union Devices
    BY DEF Commands
  <2> QED
    BY <2>1, FirstDevice
<1>3. ZeroConfig \in Configs
  BY DEF ZeroConfig, Configs
<1>4. r \in ProcStates /\ r.pc = first
  BY <1>1, <1>2, <1>3 DEF ProcStates
<1>5. Becomes(p, r)
  BY DEF Start
<1>8. Setting(r)
  <2>1. c.op \in {"enable", "disable", "bandwidth", "waterline"}
    BY DEF Commands
  <2> QED
    BY <1>4, <2>1 DEF Setting, SettingPcs
<1>6. Settles(p)
  BY <1>1, <1>4, <1>5, <1>8 DEF Settles
<1>7. upset' = upset \/ upset' = upset \union {"overlap"}
  BY DEF Start
<1> QED
  BY <1>6, <1>7, SettlesMoves DEF TypeOK, Upsets

\* NetdevEnabled says no: a device without the filter is looked at further.
LEMMA NotEnabledSettles ==
    ASSUME TypeOK, NEW p \in Processes, NotEnabled(p)
    PROVE  Settles(p) /\ told' \in [Devices -> Tolds]
<1>1. CASE GoOn(p, "default?")
  <2>1. Goto(p, "default?") /\ "default?" \in Pcs /\ "default?" \notin Touching \union Writing
        /\ "default?" \notin SettingPcs
    BY <1>1 DEF GoOn, Pcs, Touching, Writing, SettingPcs
  <2> QED
    BY <1>1, <2>1, GotoSettles DEF GoOn, TypeOK, Tolds
<1>2. CASE DoneSaying(p, "disabled")
  BY <1>2, SayingSettles DEF Tolds
<1> QED
  BY <1>1, <1>2 DEF NotEnabled

\* A process that may change a device still may after a step.
LEMMA OwnStays ==
    ASSUME Inv, NEW p \in Processes, proc[p].pc \in Touching, upset \subseteq upset'
    PROVE  "fork" \notin upset' => ~Foreign(given[proc[p].at])
BY DEF Inv, DeviceOwn
\* From one change of a device to the next.
LEMMA TouchMoves ==
    ASSUME Inv, NEW p \in Processes, NEW pc \in Pcs \ Writing, GoOn(p, pc),
           pc \notin SettingPcs, proc[p].pc \in Touching, upset \subseteq upset'
    PROVE  Moves(p) /\ told' \in [Devices -> Tolds]
<1>1. TypeOK
  BY DEF Inv
<1>2. Goto(p, pc)
  BY DEF GoOn
<1>3. Moves(p)
  BY <1>1, <1>2, OwnStays, GotoMoves
<1> QED
  BY <1>1, <1>3 DEF GoOn, TypeOK, Tolds
\* A disable that is given up leaves its device for the next one.
LEMMA DisableFailsMoves ==
    ASSUME Inv, NEW p \in Processes, DisableFails(p)
    PROVE  /\ Moves(p) /\ told' \in [Devices -> Tolds]
           /\ faults' \in 0..MaxFaults /\ upset' \subseteq Upsets /\ upset \subseteq upset'
<1>1. TypeOK
  BY DEF Inv
<1>2. DeviceDone(p, FALSE) /\ ForkFailed /\ told' = told
  BY DEF DisableFails
<1>3. Settles(p)
  BY <1>1, <1>2, DeviceDoneSettles
<1> QED
  BY <1>1, <1>2, <1>3, SettlesMoves, FaultsTyped DEF TypeOK, Tolds

\* Every step of a process leads to a place whose knowledge it has.
LEMMA StepMoves ==
    ASSUME Inv, NEW p \in Processes, Step(p)
    PROVE  /\ Moves(p) /\ told' \in [Devices -> Tolds]
           /\ upset' \subseteq Upsets /\ upset \subseteq upset' /\ faults' \in 0..MaxFaults
<1> DEFINE Goal == /\ Moves(p) /\ told' \in [Devices -> Tolds]
                   /\ upset' \subseteq Upsets /\ upset \subseteq upset' /\ faults' \in 0..MaxFaults
<1>t. TypeOK /\ proc[p] \in ProcStates /\ proc[p].at \in Devices
  BY DEF Inv, TypeOK, ProcStates
<1>told. told' = told => told' \in [Devices -> Tolds]
  BY <1>t DEF TypeOK, Tolds
<1>r. {"refused"} \in SUBSET Upsets /\ {"kill"} \in SUBSET Upsets /\ {} \in SUBSET Upsets
  BY DEF Upsets
<1>k. ASSUME "fork" \notin upset', upset \subseteq upset', Foreign(given[proc[p].at])
      PROVE  Device(p) = given[proc[p].at]
  BY <1>k, <1>t DEF Inv, ForeignKept, Device
<1>1. CASE NetdevEnabledFilter(p)
  <2>1. CASE HasFilter(Device(p)) /\ GoOn(p, "fq?") /\ Ran
    <3>1. faults' \in 0..MaxFaults /\ upset' \subseteq Upsets /\ upset \subseteq upset'
      BY <2>1, <1>t, FaultsTyped
    <3>2. "fork" \notin upset' => ~Foreign(given[proc[p].at])
      BY <2>1, <3>1, <1>k, <1>t DEF Inv, GivenClean
    <3>3. Goto(p, "fq?") /\ "fq?" \in Pcs \ Writing /\ "fq?" \notin SettingPcs /\ told' = told
      BY <2>1 DEF GoOn, Pcs, Writing, SettingPcs
    <3> QED
      BY <1>t, <1>told, <3>1, <3>2, <3>3, GotoMoves
  <2>2. CASE NotEnabled(p) /\ (Ran \/ ForkFailed)
    BY <2>2, <1>t, NotEnabledSettles, SettlesMoves, FaultsTyped
  <2> QED
    BY <1>1, <2>1, <2>2 DEF NetdevEnabledFilter
<1>2. CASE NetdevEnabledFq(p)
  <2>1. CASE DoneSaying(p, "enabled") /\ Ran
    BY <2>1, <1>t, SayingSettles, SettlesMoves, FaultsTyped DEF Tolds
  <2>2. CASE GoOn(p, "offFilter") /\ Ran
    <3>1. faults' \in 0..MaxFaults /\ upset' \subseteq Upsets /\ upset \subseteq upset'
      BY <2>2, <1>t, FaultsTyped
    <3>2. proc[p].pc \in Touching /\ "offFilter" \in Pcs \ Writing /\ "offFilter" \notin SettingPcs
      BY <1>2 DEF NetdevEnabledFq, At, Touching, Pcs, Writing, SettingPcs
    <3> QED
      BY <2>2, <3>1, <3>2, TouchMoves
  <2>3. CASE NotEnabled(p) /\ (Ran \/ ForkFailed)
    BY <2>3, <1>t, NotEnabledSettles, SettlesMoves, FaultsTyped
  <2> QED
    BY <1>2, <2>1, <2>2, <2>3 DEF NetdevEnabledFq
<1>3. CASE CheckDefaultTc(p)
  <2>1. CASE DefaultTc(Device(p)) /\ GoOn(p, "delRoot") /\ Ran
    <3>1. faults' \in 0..MaxFaults /\ upset' \subseteq Upsets /\ upset \subseteq upset'
      BY <2>1, <1>t, FaultsTyped
    <3>2. "fork" \notin upset' => ~Foreign(given[proc[p].at])
      <4> SUFFICES ASSUME "fork" \notin upset', Foreign(given[proc[p].at])
                   PROVE  FALSE
        OBVIOUS
      <4>1. DefaultTc(given[proc[p].at])
        BY <2>1, <3>1, <1>k
      <4>2. given[proc[p].at].root = "other"
        BY <4>1 DEF DefaultTc, Foreign
      <4>3. Names(given[proc[p].at]) = {"other"}
        BY <4>2 DEF Names
      <4> QED
        BY <4>1, <4>3, BwmcliAssumption DEF DefaultTc, GrepsDefault
    <3>3. Goto(p, "delRoot") /\ "delRoot" \in Pcs \ Writing /\ "delRoot" \notin SettingPcs /\ told' = told
      BY <2>1 DEF GoOn, Pcs, Writing, SettingPcs
    <3> QED
      BY <1>t, <1>told, <3>1, <3>2, <3>3, GotoMoves
  <2>2. CASE DoneSaying(p, "other TC") /\ (Ran \/ ForkFailed)
    BY <2>2, <1>t, SayingSettles, SettlesMoves, FaultsTyped DEF Tolds
  <2>3. CASE GoOn(p, "delRoot") /\ ForkFailed
    <3>1. faults' \in 0..MaxFaults /\ upset' \subseteq Upsets /\ upset \subseteq upset'
      BY <2>3, <1>t, FaultsTyped
    <3>2. "fork" \in upset'
      BY <2>3 DEF ForkFailed, Fault
    <3>3. Goto(p, "delRoot") /\ "delRoot" \in Pcs \ Writing /\ "delRoot" \notin SettingPcs /\ told' = told
      BY <2>3 DEF GoOn, Pcs, Writing, SettingPcs
    <3> QED
      BY <1>t, <1>told, <3>1, <3>2, <3>3, GotoMoves
  <2> QED
    BY <1>3, <2>1, <2>2, <2>3 DEF CheckDefaultTc
<1>4. CASE EnableDelRoot(p)
  <2>1. CASE GoOn(p, "delClsact") /\ Ran
    <3>1. faults' \in 0..MaxFaults /\ upset' \subseteq Upsets /\ upset \subseteq upset'
      BY <2>1, <1>t, FaultsTyped
    <3>2. proc[p].pc \in Touching /\ "delClsact" \in Pcs \ Writing /\ "delClsact" \notin SettingPcs
      BY <1>4 DEF EnableDelRoot, At, Touching, Pcs, Writing, SettingPcs
    <3> QED
      BY <2>1, <3>1, <3>2, TouchMoves
  <2>2. CASE Clear(p) /\ (Ran \/ ForkFailed)
    BY <2>2, <1>t, ClearSettles, SettlesMoves, FaultsTyped
  <2> QED
    BY <1>4, <2>1, <2>2 DEF EnableDelRoot, Tc, ClearUnchanged
<1>5. CASE EnableDelClsact(p)
  <2>1. CASE GoOn(p, "addFq") /\ Ran
    <3>1. faults' \in 0..MaxFaults /\ upset' \subseteq Upsets /\ upset \subseteq upset'
      BY <2>1, <1>t, FaultsTyped
    <3>2. proc[p].pc \in Touching /\ "addFq" \in Pcs \ Writing /\ "addFq" \notin SettingPcs
      BY <1>5 DEF EnableDelClsact, At, Touching, Pcs, Writing, SettingPcs
    <3> QED
      BY <2>1, <3>1, <3>2, TouchMoves
  <2>2. CASE Clear(p) /\ (Ran \/ ForkFailed)
    BY <2>2, <1>t, ClearSettles, SettlesMoves, FaultsTyped
  <2> QED
    BY <1>5, <2>1, <2>2 DEF EnableDelClsact, Tc, ClearUnchanged
<1>6. CASE EnableAddFq(p)
  <2>1. CASE GoOn(p, "addClsact") /\ Ran
    <3>1. faults' \in 0..MaxFaults /\ upset' \subseteq Upsets /\ upset \subseteq upset'
      BY <2>1, <1>t, FaultsTyped
    <3>2. proc[p].pc \in Touching /\ "addClsact" \in Pcs \ Writing /\ "addClsact" \notin SettingPcs
      BY <1>6 DEF EnableAddFq, At, Touching, Pcs, Writing, SettingPcs
    <3> QED
      BY <2>1, <3>1, <3>2, TouchMoves
  <2>2. CASE Clear(p) /\ (Ran \/ ForkFailed)
    BY <2>2, <1>t, ClearSettles, SettlesMoves, FaultsTyped
  <2> QED
    BY <1>6, <2>1, <2>2 DEF EnableAddFq, Tc, ClearUnchanged
<1>7. CASE EnableAddClsact(p)
  <2>1. CASE GoOn(p, "addFilter") /\ Ran
    <3>1. faults' \in 0..MaxFaults /\ upset' \subseteq Upsets /\ upset \subseteq upset'
      BY <2>1, <1>t, FaultsTyped
    <3>2. proc[p].pc \in Touching /\ "addFilter" \in Pcs \ Writing /\ "addFilter" \notin SettingPcs
      BY <1>7 DEF EnableAddClsact, At, Touching, Pcs, Writing, SettingPcs
    <3> QED
      BY <2>1, <3>1, <3>2, TouchMoves
  <2>2. CASE Clear(p) /\ (Ran \/ ForkFailed)
    BY <2>2, <1>t, ClearSettles, SettlesMoves, FaultsTyped
  <2> QED
    BY <1>7, <2>1, <2>2 DEF EnableAddClsact, Tc, ClearUnchanged
<1>8. CASE EnableAddFilter(p)
  <2>1. CASE GoOn(p, "readCfg") /\ Ran
    <3>1. faults' \in 0..MaxFaults /\ upset' \subseteq Upsets /\ upset \subseteq upset'
      BY <2>1, <1>t, FaultsTyped
    <3>2. proc[p].pc \in Touching /\ "readCfg" \in Pcs \ Writing /\ "readCfg" \notin SettingPcs
      BY <1>8 DEF EnableAddFilter, At, Touching, Pcs, Writing, SettingPcs
    <3> QED
      BY <2>1, <3>1, <3>2, TouchMoves
  <2>2. CASE Clear(p) /\ (Ran \/ ForkFailed)
    BY <2>2, <1>t, ClearSettles, SettlesMoves, FaultsTyped
  <2> QED
    BY <1>8, <2>1, <2>2 DEF EnableAddFilter, ClearUnchanged
<1>9. CASE InitCfgMapReadCfg(p)
  <2>0. Ran /\ faults' \in 0..MaxFaults /\ upset' \subseteq Upsets /\ upset \subseteq upset'
    BY <1>9, <1>t, FaultsTyped DEF InitCfgMapReadCfg
  <2>1. CASE /\ Becomes(p, [proc[p] EXCEPT !.copy = DefaultConfig, !.pc = "initCfg"])
             /\ told' = told
    <3> DEFINE r == [proc[p] EXCEPT !.copy = DefaultConfig, !.pc = "initCfg"]
    <3>1. r \in ProcStates /\ r.copy = DefaultConfig /\ r.at = proc[p].at /\ r.pc = "initCfg"
      BY <1>t, DefaultSound DEF ProcStates, Pcs
    <3>2. proc[p].pc \in Touching
      BY <1>9 DEF InitCfgMapReadCfg, At, Touching
    <3>3. DeviceOwn(r, given, upset')
      BY <3>1, <3>2, <2>0, OwnStays DEF DeviceOwn
    <3>4. CopySound(r) /\ Setting(r)
      BY <3>1, DefaultSound DEF CopySound, Setting, SettingPcs
    <3> QED
      BY <2>0, <2>1, <3>1, <3>3, <3>4, <1>told DEF Moves
  <2>2. CASE DoneSaying(p, "enabled")
    BY <2>0, <2>2, <1>t, SayingSettles, SettlesMoves DEF Tolds
  <2>3. CASE Clear(p)
    BY <2>0, <2>3, <1>t, ClearSettles, SettlesMoves
  <2> QED
    BY <1>9, <2>1, <2>2, <2>3 DEF InitCfgMapReadCfg
<1>10. CASE InitCfgMapUpdateCfg(p)
  <2>0. Ran /\ faults' \in 0..MaxFaults /\ upset' \subseteq Upsets /\ upset \subseteq upset'
    BY <1>10, <1>t, FaultsTyped DEF InitCfgMapUpdateCfg
  <2>2. CASE DoneSaying(p, "enabled")
    BY <2>0, <2>2, <1>t, SayingSettles, SettlesMoves DEF Tolds
  <2>3. CASE Clear(p)
    BY <2>0, <2>3, <1>t, ClearSettles, SettlesMoves
  <2> QED
    BY <1>10, <2>2, <2>3 DEF InitCfgMapUpdateCfg, ClearUnchanged
<1>11. CASE DisableDelFilter(p)
  <2>1. CASE GoOn(p, "offClsact") /\ Ran
    <3>1. faults' \in 0..MaxFaults /\ upset' \subseteq Upsets /\ upset \subseteq upset'
      BY <2>1, <1>t, FaultsTyped
    <3>2. proc[p].pc \in Touching /\ "offClsact" \in Pcs \ Writing /\ "offClsact" \notin SettingPcs
      BY <1>11 DEF DisableDelFilter, At, Touching, Pcs, Writing, SettingPcs
    <3> QED
      BY <2>1, <3>1, <3>2, TouchMoves
  <2>2. CASE DisableFails(p)
    BY <2>2, DisableFailsMoves
  <2> QED
    BY <1>11, <2>1, <2>2 DEF DisableDelFilter, Tc
<1>12. CASE DisableDelClsact(p)
  <2>1. CASE GoOn(p, "offRoot") /\ (Ran \/ Fault({"refused"}) \/ Fault({}))
    <3>1. faults' \in 0..MaxFaults /\ upset' \subseteq Upsets /\ upset \subseteq upset'
      BY <2>1, <1>t, <1>r, FaultsTyped
    <3>2. proc[p].pc \in Touching /\ "offRoot" \in Pcs \ Writing /\ "offRoot" \notin SettingPcs
      BY <1>12 DEF DisableDelClsact, At, Touching, Pcs, Writing, SettingPcs
    <3> QED
      BY <2>1, <3>1, <3>2, TouchMoves
  <2>2. CASE DisableFails(p)
    BY <2>2, DisableFailsMoves
  <2> QED
    BY <1>12, <2>1, <2>2 DEF DisableDelClsact, Tc, Refused
<1>13. CASE DisableDelRoot(p)
  <2>1. CASE DoneSaying(p, "disabled") /\ (Ran \/ Fault({}))
    <3>1. faults' \in 0..MaxFaults /\ upset' \subseteq Upsets /\ upset \subseteq upset'
      BY <2>1, <1>t, <1>r, FaultsTyped
    <3> QED
      BY <2>1, <3>1, <1>t, SayingSettles, SettlesMoves DEF Tolds
  <2>2. CASE DisableFails(p)
    BY <2>2, DisableFailsMoves
  <2> QED
    BY <1>13, <2>1, <2>2 DEF DisableDelRoot, Refused
<1>s. ASSUME SetDone(p), proc[p].pc \in SettingPcs PROVE Settles(p)
  <2>1. CASE Goto(p, "proc")
    <3>1. Setting(proc[p])
      BY DEF Inv
    <3> QED
      BY <1>s, <2>1, <3>1, <1>t, GotoSettles DEF Pcs, Touching, Writing
  <2> QED
    BY <1>s, <2>1, EndSettles DEF SetDone
<1>14. CASE SetRead(p)
  <2>0. told' = told /\ Ran /\ faults' \in 0..MaxFaults /\ upset' \subseteq Upsets /\ upset \subseteq upset'
    BY <1>14, <1>t, FaultsTyped DEF SetRead
  <2>p. proc[p].pc \in SettingPcs
    BY <1>14 DEF SetRead, At, SettingPcs
  <2>1. CASE SetDone(p) \/ Becomes(p, Ended)
    BY <2>0, <2>p, <2>1, <1>s, <1>told, EndSettles, SettlesMoves
  <2>2. CASE /\ Valid(proc[p].cmd)
             /\ Becomes(p, [proc[p] EXCEPT !.copy = Changed(cfg, proc[p].cmd), !.pc = "update"])
    <3> DEFINE r == [proc[p] EXCEPT !.copy = Changed(cfg, proc[p].cmd), !.pc = "update"]
    <3>1. proc[p].cmd \in Commands /\ proc[p].cmd.op \in {"bandwidth", "waterline"}
      BY <2>p DEF Inv, Setting
    <3>2. Changed(cfg, proc[p].cmd) \in Configs /\ SoundConfig(Changed(cfg, proc[p].cmd))
      BY <2>2, <3>1, <1>t, ChangedSound DEF Inv, TypeOK, ConfigSound
    <3>3. /\ r \in ProcStates /\ r.copy = Changed(cfg, proc[p].cmd)
          /\ r.pc = "update" /\ r.cmd = proc[p].cmd
      BY <1>t, <3>2 DEF ProcStates, Pcs
    <3>4. CopySound(r) /\ DeviceOwn(r, given, upset') /\ Setting(r)
      BY <3>1, <3>2, <3>3 DEF CopySound, DeviceOwn, Setting, Touching
    <3> QED
      BY <2>0, <2>2, <3>3, <3>4, <1>told DEF Moves
  <2> QED
    BY <1>14, <2>1, <2>2 DEF SetRead
<1>15. CASE SetUpdate(p)
  <2>p. proc[p].pc \in SettingPcs
    BY <1>15 DEF SetUpdate, At, SettingPcs
  <2>1. Settles(p)
    BY <1>15, <1>s, <2>p, EndSettles DEF SetUpdate
  <2>2. told' = told /\ faults' \in 0..MaxFaults
    BY <1>15, <1>t DEF SetUpdate, TypeOK
  <2>3. upset' \subseteq Upsets /\ upset \subseteq upset'
    BY <1>15, <1>t DEF SetUpdate, TypeOK, Upsets
  <2> QED
    BY <2>1, <2>2, <2>3, <1>told, SettlesMoves
<1>16. CASE ProcKeeps(p)
  <2>1. Becomes(p, Ended) /\ Ran /\ told' = told
    BY <1>16 DEF ProcKeeps
  <2> QED
    BY <2>1, <1>t, <1>told, EndSettles, SettlesMoves, FaultsTyped
<1>17. CASE Kill(p)
  <2>1. Becomes(p, Ended) /\ Fault({"kill"}) /\ told' = told
    BY <1>17 DEF Kill
  <2> QED
    BY <2>1, <1>t, <1>told, <1>r, EndSettles, SettlesMoves, FaultsTyped
<1> QED
  BY <1>1, <1>2, <1>3, <1>4, <1>5, <1>6, <1>7, <1>8, <1>9, <1>10, <1>11, <1>12, <1>13,
     <1>14, <1>15, <1>16, <1>17 DEF Step, NetdevEnabledCalls, Enable, Disable, Set

-----------------------------------------------------------------------------
\* The rest of the state after a step: only an entry that is about to be written is
\* written, and only a device before whose change a process stands is changed.
HostKept(p) ==
    /\ tc' \in [Devices -> TcStates]
    /\ tc' = tc \/ (/\ proc[p].pc \in Touching
                    /\ \A d \in Devices : d # proc[p].at => tc'[d] = tc[d])
    /\ pinned' \in BOOLEAN
    /\ cfg' = cfg \/ (cfg' = proc[p].copy /\ proc[p].pc \in Writing)
    /\ shown' \in [bandwidth : (Nat \X Nat) \union {<<>>}, waterline : Nat]
    /\ commands' \in 0..MaxCommands
    /\ given' = given

\* A step that leaves the host alone.
LEMMA QuietKept ==
    ASSUME TypeOK, NEW p \in Processes, LooksOnly
    PROVE  HostKept(p)
BY DEF TypeOK, LooksOnly, hostVars, HostKept

\* A step that changes one device.
LEMMA TcKept ==
    ASSUME TypeOK, NEW p \in Processes, NEW s \in TcStates, proc[p].pc \in Touching,
           tc' = [tc EXCEPT ![proc[p].at] = s], pinned' \in BOOLEAN, cfg' = cfg, TcOnly
    PROVE  HostKept(p)
BY DEF TypeOK, TcOnly, HostKept

\* What tc makes of a device is a state of a device.
LEMMA TcTyped ==
    ASSUME NEW s \in TcStates
    PROVE  /\ DelRoot(s) \in TcStates /\ DelClsact(s) \in TcStates /\ DelFilters(s) \in TcStates
           /\ [s EXCEPT !.root = "fq"] \in TcStates /\ [s EXCEPT !.clsact = TRUE] \in TcStates
           /\ [s EXCEPT !.filters = @ \union {"bwm_tc.o"}] \in TcStates
<1>1. s.root \in Roots /\ s.clsact \in BOOLEAN /\ s.filters \subseteq {"bwm_tc.o", "other"}
  BY DEF TcStates
<1>2. DelRoot(s) \in TcStates
  BY <1>1 DEF DelRoot, TcStates, Roots
<1>3. DelClsact(s) \in TcStates /\ DelFilters(s) \in TcStates
  BY <1>1 DEF DelClsact, DelFilters, TcStates
<1>4. [s EXCEPT !.root = "fq"] \in TcStates /\ [s EXCEPT !.clsact = TRUE] \in TcStates
  BY <1>1 DEF TcStates, Roots
<1>5. [s EXCEPT !.filters = @ \union {"bwm_tc.o"}] \in TcStates
  <2>1. s.filters \union {"bwm_tc.o"} \in SUBSET {"bwm_tc.o", "other"}
    BY <1>1
  <2> QED
    BY <2>1 DEF TcStates
<1> QED
  BY <1>2, <1>3, <1>4, <1>5

\* Every step of a process is one of these.
LEMMA StepHost ==
    ASSUME Inv, NEW p \in Processes, Step(p)
    PROVE  HostKept(p)
<1>t. TypeOK /\ proc[p].at \in Devices /\ Device(p) \in TcStates /\ tc \in [Devices -> TcStates]
  BY DEF Inv, TypeOK, ProcStates, Device
<1>q. ASSUME UNCHANGED hostVars, TcOnly
      PROVE  HostKept(p)
  BY <1>q, <1>t, QuietKept DEF TcOnly, LooksOnly, hostVars
<1>1. CASE NetdevEnabledCalls(p) \/ CheckDefaultTc(p) \/ InitCfgMapReadCfg(p) \/ SetRead(p)
  <2>1. LooksOnly
    BY <1>1 DEF NetdevEnabledCalls, NetdevEnabledFilter, NetdevEnabledFq, CheckDefaultTc,
                InitCfgMapReadCfg, SetRead
  <2> QED
    BY <2>1, <1>t, QuietKept
<1>tc. ASSUME NEW s \in TcStates, NEW pc \in Pcs, Tc(p, s, pc), TcOnly, proc[p].pc \in Touching
       PROVE  HostKept(p)
  BY <1>tc, <1>t, TcKept DEF Tc, TypeOK
<1>2. CASE EnableDelRoot(p)
  <2>1. TcOnly /\ proc[p].pc \in Touching /\ "delClsact" \in Pcs
    BY <1>2 DEF EnableDelRoot, At, Touching, Pcs
  <2>2. ASSUME NEW s \in {Device(p), DelRoot(Device(p))}, Tc(p, s, "delClsact") PROVE HostKept(p)
    BY <2>1, <2>2, <1>t, <1>tc, TcTyped
  <2> QED
    BY <1>2, <2>1, <2>2, <1>q DEF EnableDelRoot, ClearUnchanged
<1>3. CASE EnableDelClsact(p)
  <2>1. TcOnly /\ proc[p].pc \in Touching /\ "addFq" \in Pcs
    BY <1>3 DEF EnableDelClsact, At, Touching, Pcs
  <2>2. ASSUME NEW s \in {Device(p), DelClsact(Device(p))}, Tc(p, s, "addFq") PROVE HostKept(p)
    BY <2>1, <2>2, <1>t, <1>tc, TcTyped
  <2> QED
    BY <1>3, <2>1, <2>2, <1>q DEF EnableDelClsact, ClearUnchanged
<1>4. CASE EnableAddFq(p)
  <2>1. TcOnly /\ proc[p].pc \in Touching /\ "addClsact" \in Pcs
    BY <1>4 DEF EnableAddFq, At, Touching, Pcs
  <2>2. CASE Tc(p, [Device(p) EXCEPT !.root = "fq"], "addClsact")
    BY <2>1, <2>2, <1>t, <1>tc, TcTyped
  <2> QED
    BY <1>4, <2>1, <2>2, <1>q DEF EnableAddFq, ClearUnchanged
<1>5. CASE EnableAddClsact(p)
  <2>1. TcOnly /\ proc[p].pc \in Touching /\ "addFilter" \in Pcs
    BY <1>5 DEF EnableAddClsact, At, Touching, Pcs
  <2>2. CASE Tc(p, [Device(p) EXCEPT !.clsact = TRUE], "addFilter")
    BY <2>1, <2>2, <1>t, <1>tc, TcTyped
  <2> QED
    BY <1>5, <2>1, <2>2, <1>q DEF EnableAddClsact, ClearUnchanged
<1>6. CASE EnableAddFilter(p)
  <2>1. TcOnly /\ proc[p].pc \in Touching
    BY <1>6 DEF EnableAddFilter, At, Touching
  <2>2. CASE /\ tc' = [tc EXCEPT ![proc[p].at].filters = @ \union {"bwm_tc.o"}]
             /\ pinned' = TRUE /\ cfg' = cfg
    <3>1. tc' = [tc EXCEPT ![proc[p].at] = [Device(p) EXCEPT !.filters = @ \union {"bwm_tc.o"}]]
      BY <2>2 DEF Device
    <3> QED
      BY <2>1, <2>2, <3>1, <1>t, TcKept, TcTyped
  <2>3. CASE pinned' \in {pinned, TRUE} /\ tc' = tc /\ cfg' = cfg
    BY <2>1, <2>3, <1>t DEF HostKept, TcOnly, TypeOK
  <2> QED
    BY <1>6, <2>1, <2>2, <2>3, <1>q DEF EnableAddFilter, ClearUnchanged
<1>7. CASE InitCfgMapUpdateCfg(p)
  <2>1. TcOnly /\ proc[p].pc \in Writing
    BY <1>7 DEF InitCfgMapUpdateCfg, At, Writing
  <2>2. CASE cfg' = proc[p].copy /\ tc' = tc /\ pinned' = pinned
    BY <2>1, <2>2, <1>t DEF HostKept, TcOnly, TypeOK
  <2> QED
    BY <1>7, <2>1, <2>2, <1>q DEF InitCfgMapUpdateCfg, ClearUnchanged
<1>8. CASE DisableDelFilter(p)
  <2>1. TcOnly /\ proc[p].pc \in Touching /\ "offClsact" \in Pcs
    BY <1>8 DEF DisableDelFilter, At, Touching, Pcs
  <2>2. ASSUME NEW s \in {Device(p), DelFilters(Device(p))}, Tc(p, s, "offClsact") PROVE HostKept(p)
    BY <2>1, <2>2, <1>t, <1>tc, TcTyped
  <2> QED
    BY <1>8, <2>1, <2>2, <1>q DEF DisableDelFilter, DisableFails, hostVars
<1>9. CASE DisableDelClsact(p)
  <2>1. TcOnly /\ proc[p].pc \in Touching /\ "offRoot" \in Pcs
    BY <1>9 DEF DisableDelClsact, At, Touching, Pcs
  <2>2. CASE Tc(p, DelClsact(Device(p)), "offRoot")
    BY <2>1, <2>2, <1>t, <1>tc, TcTyped
  <2> QED
    BY <1>9, <2>1, <2>2, <1>q DEF DisableDelClsact, DisableFails, Refused, hostVars
<1>10. CASE DisableDelRoot(p)
  <2>1. TcOnly /\ proc[p].pc \in Touching
    BY <1>10 DEF DisableDelRoot, At, Touching
  <2>2. CASE tc' = [tc EXCEPT ![proc[p].at] = DelRoot(@)] /\ pinned' = pinned /\ cfg' = cfg
    <3>1. tc' = [tc EXCEPT ![proc[p].at] = DelRoot(Device(p))]
      BY <2>2 DEF Device
    <3> QED
      BY <2>1, <2>2, <3>1, <1>t, TcKept, TcTyped DEF TypeOK
  <2> QED
    BY <1>10, <2>1, <2>2, <1>q DEF DisableDelRoot, DisableFails, Refused, hostVars
<1>11. CASE SetUpdate(p)
  <2>1. TcOnly /\ proc[p].pc \in Writing /\ tc' = tc /\ pinned' = pinned
    BY <1>11 DEF SetUpdate, At, Writing
  <2>2. cfg' = cfg \/ cfg' = proc[p].copy
    BY <1>11 DEF SetUpdate
  <2> QED
    BY <2>1, <2>2, <1>t DEF HostKept, TcOnly, TypeOK
<1>12. CASE ProcKeeps(p)
  <2> DEFINE c == proc[p].cmd
  <2>1. c \in Commands /\ c.op \in {"bandwidth", "waterline"}
    BY <1>12 DEF ProcKeeps, At, Inv, Setting, SettingPcs
  <2>2. c.low \in Nat /\ c.high \in Nat
    BY <2>1, CommandTyped
  <2>3. shown' = [shown EXCEPT !.bandwidth = <<c.low, c.high>>]
        \/ shown' = [shown EXCEPT !.waterline = c.high]
    BY <1>12 DEF ProcKeeps
  <2> DEFINE Pairs == (Nat \X Nat) \union {<<>>}
  <2>5. shown \in [bandwidth : Pairs, waterline : Nat]
    BY <1>t DEF TypeOK
  <2>6. <<c.low, c.high>> \in Pairs
    BY <2>2
  <2>4. shown' \in [bandwidth : Pairs, waterline : Nat]
    <3> HIDE DEF Pairs
    <3> QED
      BY <2>2, <2>3, <2>5, <2>6
  <2> QED
    BY <1>12, <2>4, <1>t DEF ProcKeeps, hostVars, HostKept, TypeOK
<1>13. CASE Kill(p)
  BY <1>13, <1>t DEF Kill, hostVars, HostKept, TypeOK
<1> QED
  BY <1>1, <1>2, <1>3, <1>4, <1>5, <1>6, <1>7, <1>8, <1>9, <1>10, <1>11, <1>12, <1>13
     DEF Step, Enable, Disable, Set

-----------------------------------------------------------------------------
\* A process that moves knows what it has to, and the others still do.
LEMMA MovesKnow ==
    ASSUME Inv, NEW p \in Processes, Moves(p), given' = given, upset \subseteq upset'
    PROVE  /\ proc' \in [Processes -> ProcStates]
           /\ \A q \in Processes :
                CopySound(proc'[q]) /\ DeviceOwn(proc'[q], given', upset') /\ Setting(proc'[q])
<1>1. PICK r \in ProcStates : /\ Becomes(p, r) /\ CopySound(r)
                              /\ DeviceOwn(r, given, upset') /\ Setting(r)
  BY DEF Moves
<1>2. proc \in [Processes -> ProcStates] /\ proc' = [proc EXCEPT ![p] = r]
  BY <1>1 DEF Inv, TypeOK, Becomes
<1>3. proc'[p] = r /\ \A q \in Processes : q # p => proc'[q] = proc[q]
  BY <1>2
<1>4. ASSUME NEW q \in Processes, q # p
      PROVE  CopySound(proc'[q]) /\ DeviceOwn(proc'[q], given', upset') /\ Setting(proc'[q])
  BY <1>3, <1>4 DEF Inv, DeviceOwn
<1> QED
  BY <1>1, <1>2, <1>3, <1>4

\* A host on which bwmcli has not been used.
LEMMA InitInv == Init => Inv
<1> SUFFICES ASSUME Init PROVE Inv
  OBVIOUS
<1>1. tc \in [Devices -> TcStates] /\ \A d \in Devices : "bwm_tc.o" \notin tc[d].filters
  BY HostsAssumption DEF Init
<1>2. ZeroConfig \in Configs /\ SoundConfig(ZeroConfig)
  BY DEF ZeroConfig, Configs, SoundConfig
<1>3. commands \in 0..MaxCommands /\ faults \in 0..MaxFaults
  BY BwmcliAssumption DEF Init
<1>4. shown \in [bandwidth : (Nat \X Nat) \union {<<>>}, waterline : Nat]
  BY DEF Init
<1>5. TypeOK
  BY <1>1, <1>2, <1>3, <1>4, EndedTyped DEF Init, TypeOK
<1>6. ConfigSound /\ ForeignKept /\ GivenClean
  BY <1>1, <1>2 DEF Init, ConfigSound, ForeignKept, GivenClean, HasFilter
<1>7. ASSUME NEW p \in Processes
      PROVE  CopySound(proc[p]) /\ DeviceOwn(proc[p], given, upset) /\ Setting(proc[p])
  BY EndedTyped DEF Init, CopySound, DeviceOwn, Setting, Writing, Touching, SettingPcs
<1> QED
  BY <1>5, <1>6, <1>7 DEF Inv

\* A new command keeps the invariant.
LEMMA StartInv ==
    ASSUME Inv, NEW p \in Processes, NEW c \in Commands, Start(p, c)
    PROVE  Inv'
<1>t. TypeOK
  BY DEF Inv
<1>1. Moves(p) /\ upset' \subseteq Upsets /\ upset \subseteq upset'
  BY <1>t, StartMoves
<1>2. /\ tc' = tc /\ pinned' = pinned /\ cfg' = cfg /\ shown' = shown
      /\ faults' = faults /\ told' = told /\ given' = given
  BY DEF Start, hostVars
<1>3. commands' \in 0..MaxCommands
  <2>1. commands \in 0..MaxCommands /\ MaxCommands \in Nat
    BY <1>t, BwmcliAssumption DEF TypeOK
  <2>2. commands < MaxCommands /\ commands' = commands + 1
    BY DEF Start
  <2> QED
    BY <2>1, <2>2
<1>4. /\ proc' \in [Processes -> ProcStates]
      /\ \A q \in Processes :
           CopySound(proc'[q]) /\ DeviceOwn(proc'[q], given', upset') /\ Setting(proc'[q])
  BY <1>1, <1>2, MovesKnow
<1>5. TypeOK'
  BY <1>t, <1>1, <1>2, <1>3, <1>4 DEF TypeOK, Upsets
<1>6. ConfigSound' /\ ForeignKept' /\ GivenClean'
  BY <1>1, <1>2 DEF Inv, ConfigSound, ForeignKept, GivenClean
<1> QED
  BY <1>4, <1>5, <1>6 DEF Inv

\* So does a step of a running one: what it writes is sound and the device it
\* changes is not somebody else's.
LEMMA StepInv ==
    ASSUME Inv, NEW p \in Processes, Step(p)
    PROVE  Inv'
<1>t. TypeOK /\ proc[p] \in ProcStates
  BY DEF Inv, TypeOK
<1>1. /\ Moves(p) /\ told' \in [Devices -> Tolds]
      /\ upset' \subseteq Upsets /\ upset \subseteq upset' /\ faults' \in 0..MaxFaults
  BY StepMoves
<1>2. HostKept(p)
  BY StepHost
<1>g. given' = given
  BY <1>2 DEF HostKept
<1>3. /\ proc' \in [Processes -> ProcStates]
      /\ \A q \in Processes :
           CopySound(proc'[q]) /\ DeviceOwn(proc'[q], given', upset') /\ Setting(proc'[q])
  BY <1>1, <1>g, MovesKnow
<1>4. cfg' \in Configs
  BY <1>2, <1>t DEF HostKept, TypeOK, ProcStates
<1>5. TypeOK'
  BY <1>t, <1>1, <1>2, <1>3, <1>4 DEF TypeOK, Upsets, Tolds, HostKept
<1>6. ConfigSound'
  BY <1>2 DEF HostKept, Inv, ConfigSound, CopySound
<1>7. ForeignKept'
  <2> SUFFICES ASSUME NEW d \in Devices, Foreign(given[d]), "fork" \notin upset'
               PROVE  tc'[d] = given[d]
    BY <1>g DEF ForeignKept
  <2>1. tc[d] = given[d]
    BY <1>1 DEF Inv, ForeignKept
  <2>2. CASE proc[p].pc \in Touching /\ \A e \in Devices : e # proc[p].at => tc'[e] = tc[e]
    BY <1>1, <2>1, <2>2 DEF Inv, DeviceOwn
  <2> QED
    BY <1>2, <2>1, <2>2 DEF HostKept
<1>8. GivenClean'
  BY <1>g DEF Inv, GivenClean
<1> QED
  BY <1>3, <1>5, <1>6, <1>7, <1>8 DEF Inv

\* Nothing happens.
LEMMA StutterInv == Inv /\ UNCHANGED vars => Inv'
<1> SUFFICES ASSUME Inv, UNCHANGED vars PROVE Inv'
  OBVIOUS
<1>1. /\ tc' = tc /\ pinned' = pinned /\ cfg' = cfg /\ proc' = proc /\ shown' = shown
      /\ commands' = commands /\ faults' = faults /\ told' = told /\ given' = given
      /\ upset' = upset
  BY DEF vars, hostVars
<1>2. TypeOK'
  BY <1>1 DEF Inv, TypeOK
<1>3. ConfigSound' /\ ForeignKept' /\ GivenClean'
  BY <1>1 DEF Inv, ConfigSound, ForeignKept, GivenClean
<1> QED
  BY <1>1, <1>2, <1>3 DEF Inv

\* The invariant holds in every reachable state.
LEMMA InvHolds == Spec => []Inv
<1>1. Init => Inv
  BY InitInv
<1>2. Inv /\ [Next]_vars => Inv'
  <2> SUFFICES ASSUME Inv, Next PROVE Inv'
    BY StutterInv
  <2>1. PICK p \in Processes : (\E c \in Commands : Start(p, c)) \/ Step(p)
    BY DEF Next, Step
  <2> QED
    BY <2>1, StartInv, StepInv
<1> QED
  BY <1>1, <1>2, PTL DEF Spec

\* The state of bwmcli, of the devices and of the files of /proc/qos is well formed;
\* above all, ForeachEthdev never goes past the last device.
THEOREM BwmcliTypeCorrect == Spec => []TypeOK
<1>1. Inv => TypeOK
  BY DEF Inv
<1> QED
  BY <1>1, InvHolds, PTL

\* However many commands overlap, fail or are interrupted between reading and writing
\* throttle_cfg, its entry is within the tool's limits once it has an interval.
THEOREM ConfigStaysSound == Spec => []ConfigSound
<1>1. Inv => ConfigSound
  BY DEF Inv
<1> QED
  BY <1>1, InvHolds, PTL

\* No command changes a device that somebody else has configured with a clsact qdisc,
\* or with qdiscs whose listing does not have the default's name in it, as long as
\* shells can be started; whatever tc refuses and whoever runs beside it.
THEOREM ForeignStaysKept == Spec => []ForeignKept
<1>1. Inv => ForeignKept
  BY DEF Inv
<1> QED
  BY <1>1, InvHolds, PTL

-----------------------------------------------------------------------------
(* Commands that come one at a time and are not cut off: what is printed.  *)

Calm == upset \subseteq {"early", "shell"}

DevicePcs == Pcs \ {"idle", "readSet", "update", "proc"}
EnablePcs == {"default?", "delRoot", "delClsact", "addFq", "addClsact", "addFilter"}
LookPcs == {"filter?", "fq?"}
DisablePcs == {"offFilter", "offClsact", "offRoot"}

\* What was printed last about a device is so.
ToldTrue(s, what, c) ==
    /\ what = "enabled" => NetdevEnabled(s) /\ c.interval # 0
    /\ what # "enabled" => ~HasFilter(s)

\* What the look at a device begins with; after a failure the filter may be left of
\* an enable that has printed nothing, but then fq is there too, so that
\* NetdevEnabled does not miss it.
Looked(r, s, what, c) ==
    IF r.stage = "clear" THEN what # "enabled" /\ (HasFilter(s) => NetdevEnabled(s))
    ELSE ToldTrue(s, what, c)

\* The device that a process is at.
Seen(r, s, what, c) ==
    /\ r.pc \in LookPcs => Looked(r, s, what, c)
    /\ r.pc = "fq?" => HasFilter(s)
    /\ r.pc \in EnablePcs => ~HasFilter(s) /\ what # "enabled"
    /\ r.pc \in {"addClsact", "addFilter"} => "fq" \in Names(s)
    /\ r.pc \in {"readCfg", "initCfg"} => NetdevEnabled(s) /\ what # "enabled"
    /\ r.pc = "initCfg" => r.copy = DefaultConfig /\ c.interval = 0
    /\ r.pc = "offRoot" => ~HasFilter(s)
    /\ r.pc \notin LookPcs \union DisablePcs => r.stage = "run"

\* The entry is still the one that a setting has read, or it has been written.
Fresh(r, c) ==
    /\ r.pc = "update" => r.copy = Changed(c, r.cmd) /\ Valid(r.cmd)
    /\ r.pc = "proc" => Changed(c, r.cmd) = c /\ Valid(r.cmd)

\* A rollback goes over all devices and has disabled those behind it.
RolledBack(r, t) ==
    r.stage = "rollback" =>
      r.cmd.dev = 0 /\ \A d \in Devices : d < r.at => ~HasFilter(t[d])

OneAtATime == \A p, q \in Processes : proc[p].pc # "idle" /\ proc[q].pc # "idle" => p = q
Knows(p) ==
    /\ Seen(proc[p], tc[proc[p].at], told[proc[p].at], cfg)
    /\ Fresh(proc[p], cfg) /\ RolledBack(proc[p], tc)
Untouched(d) == \A p \in Processes : proc[p].pc \in DevicePcs => proc[p].at # d

CalmInv ==
    Calm =>
      /\ OneAtATime
      /\ \A p \in Processes : Knows(p)
      /\ \A d \in Devices : Untouched(d) => ToldTrue(tc[d], told[d], cfg)

\* Nothing has to be known of a process that does not run.
LEMMA IdleKnows ==
    ASSUME NEW r, r.pc = "idle", r.stage = "run", NEW s, NEW what, NEW c, NEW t
    PROVE  Seen(r, s, what, c) /\ Fresh(r, c) /\ RolledBack(r, t)
BY DEF Seen, Fresh, RolledBack, LookPcs, EnablePcs, DisablePcs

\* The only process that runs moves, and everything else is as it was told.
LEMMA OneMoves ==
    ASSUME Inv, CalmInv, Calm, NEW p \in Processes, proc[p].pc # "idle",
           NEW r \in ProcStates, Becomes(p, r),
           Seen(r, tc'[r.at], told'[r.at], cfg'), Fresh(r, cfg'), RolledBack(r, tc'),
           \A d \in Devices : (r.pc \in DevicePcs => r.at # d) => ToldTrue(tc'[d], told'[d], cfg')
    PROVE  CalmInv'
<1>1. proc' = [proc EXCEPT ![p] = r] /\ proc \in [Processes -> ProcStates]
  BY DEF Becomes, Inv, TypeOK
<1>2. proc'[p] = r /\ \A q \in Processes : q # p => proc'[q] = proc[q]
  BY <1>1
<1>3. \A q \in Processes : q # p => proc[q].pc = "idle" /\ proc[q].stage = "run"
  BY DEF CalmInv, OneAtATime, Knows, Seen, LookPcs, DisablePcs
<1>4. OneAtATime'
  BY <1>2, <1>3 DEF OneAtATime
<1>5. ASSUME NEW q \in Processes PROVE Knows(q)'
  <2>1. CASE q = p
    BY <1>2, <2>1 DEF Knows
  <2>2. CASE q # p
    <3>1. proc'[q].pc = "idle" /\ proc'[q].stage = "run"
      BY <1>2, <1>3, <2>2
    <3> QED
      BY <3>1, IdleKnows DEF Knows
  <2> QED
    BY <2>1, <2>2
<1>6. ASSUME NEW d \in Devices, Untouched(d)' PROVE ToldTrue(tc'[d], told'[d], cfg')
  BY <1>2, <1>6 DEF Untouched
<1> QED
  BY <1>4, <1>5, <1>6 DEF CalmInv

\* Only the device that the process is at is changed or printed about.
Only(p) == \A d \in Devices : d # proc[p].at => tc'[d] = tc[d] /\ told'[d] = told[d]

\* While one process is at a device, what was told of the others is so.
LEMMA OthersTold ==
    ASSUME CalmInv, Calm, NEW p \in Processes, proc[p].pc \in DevicePcs,
           NEW d \in Devices, d # proc[p].at
    PROVE  ToldTrue(tc[d], told[d], cfg)
<1>1. proc[p].pc # "idle"
  BY DEF DevicePcs
<1>2. ASSUME NEW q \in Processes, proc[q].pc \in DevicePcs PROVE proc[q].at # d
  <2>1. proc[q].pc # "idle"
    BY <1>2 DEF DevicePcs
  <2>2. q = p
    BY <1>1, <2>1 DEF CalmInv, OneAtATime
  <2> QED
    BY <2>2
<1> QED
  BY <1>2 DEF CalmInv, Untouched

\* A rollback ends when no device is enabled.
RollbackEnds(p) ==
    proc[p].stage = "rollback" /\ proc'[p] = Ended => \A d \in Devices : ~HasFilter(tc'[d])

\* The process goes on with the device that it is at.
LEMMA StayAt ==
    ASSUME Inv, CalmInv, Calm, NEW p \in Processes, proc[p].pc \in DevicePcs,
           NEW r \in ProcStates, Becomes(p, r), r.at = proc[p].at, r.pc \in DevicePcs,
           Only(p), cfg' = cfg, Seen(r, tc'[r.at], told'[r.at], cfg),
           r.stage = "rollback" => proc[p].stage = "rollback" /\ r.cmd = proc[p].cmd
    PROVE  CalmInv' /\ RollbackEnds(p)
<1>1. proc[p].pc # "idle" /\ r.pc # "update" /\ r.pc # "proc"
  BY DEF DevicePcs
<1>2. Fresh(r, cfg')
  BY <1>1 DEF Fresh
<1>3. RolledBack(r, tc')
  <2> SUFFICES ASSUME r.stage = "rollback"
               PROVE  r.cmd.dev = 0 /\ \A d \in Devices : d < r.at => ~HasFilter(tc'[d])
    BY DEF RolledBack
  <2>1. proc[p].cmd.dev = 0 /\ \A d \in Devices : d < proc[p].at => ~HasFilter(tc[d])
    BY DEF CalmInv, Knows, RolledBack
  <2>2. ASSUME NEW d \in Devices, d < r.at PROVE d # proc[p].at
    <3>1. d \in Nat /\ r.at \in Nat
      BY BwmcliAssumption DEF Devices, ProcStates
    <3> QED
      BY <2>2, <3>1
  <2> QED
    BY <2>1, <2>2 DEF Only
<1>4. ASSUME NEW d \in Devices, r.pc \in DevicePcs => r.at # d
      PROVE  ToldTrue(tc'[d], told'[d], cfg')
  BY <1>4, OthersTold DEF Only
<1>5. CalmInv'
  BY <1>1, <1>2, <1>3, <1>4, OneMoves
<1>6. proc'[p] = r /\ r # Ended
  BY EndedTyped DEF Becomes, Inv, TypeOK, DevicePcs
<1> QED
  BY <1>5, <1>6 DEF RollbackEnds

-----------------------------------------------------------------------------
\* A process that has done with a device leaves it as told, and ends a rollback only
\* behind the last device.
LEMMA DoneAt ==
    ASSUME Inv, CalmInv, Calm, NEW p \in Processes, proc[p].pc \in DevicePcs,
           DeviceDone(p, TRUE), Only(p), cfg' = cfg \/ cfg'.interval # 0,
           ToldTrue(tc'[proc[p].at], told'[proc[p].at], cfg'),
           proc[p].stage = "rollback" => ~HasFilter(tc'[proc[p].at])
    PROVE  CalmInv' /\ RollbackEnds(p)
<1>t. /\ proc[p] \in ProcStates /\ proc[p].at \in Devices /\ proc[p].pc # "idle"
      /\ proc \in [Processes -> ProcStates]
      /\ Ended \in ProcStates /\ Ended.pc = "idle" /\ Ended.stage = "run" /\ Ended.at = 1
  BY EndedTyped DEF Inv, TypeOK, ProcStates, DevicePcs, Ended
<1>n. proc[p].at \in Nat /\ NumDevices \in Nat /\ Devices = 1..NumDevices
  BY <1>t, BwmcliAssumption DEF Devices
<1>1. ASSUME NEW d \in Devices PROVE ToldTrue(tc'[d], told'[d], cfg')
  <2>1. CASE d # proc[p].at
    <3>1. ToldTrue(tc[d], told[d], cfg)
      BY <2>1, OthersTold
    <3> QED
      BY <2>1, <3>1 DEF Only, ToldTrue
  <2> QED
    BY <2>1
<1>r. ASSUME proc[p].stage = "rollback"
      PROVE  /\ proc[p].cmd.dev = 0
             /\ \A d \in Devices : d < proc[p].at + 1 => ~HasFilter(tc'[d])
  <2>1. proc[p].cmd.dev = 0 /\ \A d \in Devices : d < proc[p].at => ~HasFilter(tc[d])
    BY <1>r DEF CalmInv, Knows, RolledBack
  <2>2. ASSUME NEW d \in Devices, d < proc[p].at + 1
        PROVE  d = proc[p].at \/ (d < proc[p].at /\ d # proc[p].at)
    BY <1>n, <2>2
  <2> QED
    BY <1>r, <2>1, <2>2 DEF Only
<1>2. ASSUME Becomes(p, Ended)
      PROVE  CalmInv'
  <2>1. Seen(Ended, tc'[Ended.at], told'[Ended.at], cfg') /\ Fresh(Ended, cfg')
        /\ RolledBack(Ended, tc')
    BY <1>t, IdleKnows
  <2> QED
    BY <1>2, <1>t, <1>1, <2>1, OneMoves
<1>3. ASSUME Becomes(p, [proc[p] EXCEPT !.stage = "rollback", !.at = 1, !.pc = "filter?"]),
             ForAll(p)
      PROVE  CalmInv'
  <2> DEFINE r == [proc[p] EXCEPT !.stage = "rollback", !.at = 1, !.pc = "filter?"]
  <2>1. /\ r \in ProcStates /\ r.pc = "filter?" /\ r.stage = "rollback" /\ r.at = 1
        /\ r.cmd = proc[p].cmd
    BY <1>t, FirstDevice DEF ProcStates, Pcs
  <2>2. Becomes(p, r)
    BY <1>3
  <2>3. RolledBack(r, tc')
    <3>1. \A d \in Devices : ~(d < 1)
      BY <1>n
    <3> QED
      BY <1>3, <2>1, <3>1 DEF ForAll, RolledBack
  <2> HIDE DEF r
  <2>4. Seen(r, tc'[r.at], told'[r.at], cfg') /\ Fresh(r, cfg')
    BY <1>1, <2>1, FirstDevice DEF Seen, Looked, Fresh, LookPcs, EnablePcs, DisablePcs
  <2> QED
    BY <1>1, <1>t, <2>1, <2>2, <2>3, <2>4, OneMoves
<1>4. ASSUME Becomes(p, [proc[p] EXCEPT !.at = @ + 1, !.pc = "filter?"]),
             proc[p].at < NumDevices, proc[p].stage # "clear"
      PROVE  CalmInv'
  <2> DEFINE r == [proc[p] EXCEPT !.at = @ + 1, !.pc = "filter?"]
  <2>0. proc[p].at + 1 \in Devices
    BY <1>n, <1>4
  <2>1. /\ r \in ProcStates /\ r.pc = "filter?" /\ r.stage = proc[p].stage
        /\ r.at = proc[p].at + 1 /\ r.cmd = proc[p].cmd
    BY <1>t, <2>0 DEF ProcStates, Pcs
  <2>2. Becomes(p, r)
    BY <1>4
  <2> HIDE DEF r
  <2>3. RolledBack(r, tc')
    BY <1>r, <2>1 DEF RolledBack
  <2>4. Seen(r, tc'[r.at], told'[r.at], cfg') /\ Fresh(r, cfg')
    BY <1>1, <1>4, <2>0, <2>1 DEF Seen, Looked, Fresh, LookPcs, EnablePcs, DisablePcs
  <2> QED
    BY <1>1, <1>t, <2>1, <2>2, <2>3, <2>4, OneMoves
<1>5. CalmInv'
  BY <1>2, <1>3, <1>4 DEF DeviceDone
<1>6. RollbackEnds(p)
  <2> SUFFICES ASSUME proc[p].stage = "rollback", proc'[p] = Ended
               PROVE  \A d \in Devices : ~HasFilter(tc'[d])
    BY DEF RollbackEnds
  <2>1. ~(proc[p].at < NumDevices)
    <3> SUFFICES ASSUME proc[p].at < NumDevices PROVE FALSE
      OBVIOUS
    <3>1. Becomes(p, [proc[p] EXCEPT !.at = @ + 1, !.pc = "filter?"])
      BY <1>r DEF DeviceDone, ForAll
    <3>2. proc'[p].pc = "filter?"
      BY <3>1, <1>t DEF Becomes, ProcStates
    <3> QED
      BY <3>2, <1>t
  <2>2. \A d \in Devices : d < proc[p].at + 1
    BY <1>n, <2>1
  <2> QED
    BY <1>r, <2>2
<1> QED
  BY <1>5, <1>6
\* To the next step at the device.
LEMMA StayGoto ==
    ASSUME Inv, CalmInv, Calm, NEW p \in Processes, proc[p].pc \in DevicePcs,
           NEW pc \in DevicePcs, GoOn(p, pc), Only(p), cfg' = cfg,
           \A r \in ProcStates : r.pc = pc /\ r.stage = proc[p].stage =>
                                   Seen(r, tc'[proc[p].at], told[proc[p].at], cfg)
    PROVE  CalmInv' /\ RollbackEnds(p)
<1> DEFINE r == [proc[p] EXCEPT !.pc = pc]
<1>0. proc[p] \in ProcStates /\ pc \in Pcs
  BY DEF Inv, TypeOK, DevicePcs
<1>1. /\ r \in ProcStates /\ r.pc = pc /\ r.stage = proc[p].stage /\ r.cmd = proc[p].cmd
      /\ r.at = proc[p].at
  BY <1>0 DEF ProcStates
<1>2. Becomes(p, r) /\ told' = told
  BY DEF GoOn, Goto
<1> HIDE DEF r
<1>3. Seen(r, tc'[r.at], told'[r.at], cfg)
  BY <1>1, <1>2
<1> QED
  BY <1>1, <1>2, <1>3, StayAt

\* To the look at what a failed enable has left.
LEMMA StayClear ==
    ASSUME Inv, CalmInv, Calm, NEW p \in Processes, proc[p].pc \in DevicePcs, Clear(p),
           tc' = tc, cfg' = cfg, told[proc[p].at] # "enabled",
           HasFilter(Device(p)) => NetdevEnabled(Device(p))
    PROVE  CalmInv' /\ RollbackEnds(p)
<1> DEFINE r == [proc[p] EXCEPT !.pc = "filter?", !.stage = "clear"]
<1>1. /\ r \in ProcStates /\ r.pc = "filter?" /\ r.stage = "clear" /\ r.at = proc[p].at
      /\ r.pc \in DevicePcs
  BY DEF Inv, TypeOK, ProcStates, DevicePcs, Pcs
<1>2. Becomes(p, r) /\ told' = told
  BY DEF Clear
<1> HIDE DEF r
<1>3. Seen(r, tc'[r.at], told'[r.at], cfg)
  BY <1>1, <1>2 DEF Seen, Looked, Device, LookPcs, EnablePcs, DisablePcs
<1>4. Only(p)
  BY <1>2 DEF Only
<1> QED
  BY <1>1, <1>2, <1>3, <1>4, StayAt

\* Something is printed that is so, and the process is done with the device.
LEMMA DoneSayingAt ==
    ASSUME Inv, CalmInv, Calm, NEW p \in Processes, proc[p].pc \in DevicePcs,
           NEW what, DoneSaying(p, what),
           \A d \in Devices : d # proc[p].at => tc'[d] = tc[d],
           cfg' = cfg \/ cfg'.interval # 0, ToldTrue(tc'[proc[p].at], what, cfg'),
           proc[p].stage = "rollback" => what # "enabled"
    PROVE  CalmInv' /\ RollbackEnds(p)
<1>1. proc[p].at \in Devices /\ told \in [Devices -> Tolds]
  BY DEF Inv, TypeOK, ProcStates, Tolds
<1>2. told' = [told EXCEPT ![proc[p].at] = what] /\ DeviceDone(p, TRUE)
  BY DEF DoneSaying
<1>3. told'[proc[p].at] = what /\ \A d \in Devices : d # proc[p].at => told'[d] = told[d]
  BY <1>1, <1>2
<1>4. proc[p].stage = "rollback" => ~HasFilter(tc'[proc[p].at])
  BY DEF ToldTrue
<1> QED
  BY <1>2, <1>3, <1>4, DoneAt DEF Only

\* What tc makes of the filter and of fq.
LEMMA TcShows ==
    ASSUME NEW s \in TcStates
    PROVE  /\ ~HasFilter(DelClsact(s)) /\ ~HasFilter(DelFilters(s))
           /\ HasFilter(DelRoot(s)) <=> HasFilter(s)
           /\ HasFilter([s EXCEPT !.root = "fq"]) <=> HasFilter(s)
           /\ "fq" \in Names([s EXCEPT !.root = "fq"])
           /\ HasFilter([s EXCEPT !.clsact = TRUE]) <=> HasFilter(s)
           /\ Names([s EXCEPT !.clsact = TRUE]) = Names(s)
           /\ HasFilter([s EXCEPT !.filters = @ \union {"bwm_tc.o"}])
           /\ Names([s EXCEPT !.filters = @ \union {"bwm_tc.o"}]) = Names(s)
<1>1. ~HasFilter(DelClsact(s)) /\ ~HasFilter(DelFilters(s))
  BY DEF HasFilter, DelClsact, DelFilters, TcStates
<1>2. HasFilter(DelRoot(s)) <=> HasFilter(s)
  BY DEF HasFilter, DelRoot, TcStates
<1>3. /\ HasFilter([s EXCEPT !.root = "fq"]) <=> HasFilter(s)
      /\ HasFilter([s EXCEPT !.clsact = TRUE]) <=> HasFilter(s)
      /\ HasFilter([s EXCEPT !.filters = @ \union {"bwm_tc.o"}])
  BY DEF HasFilter, TcStates
<1>4. "fq" \in Names([s EXCEPT !.root = "fq"])
  <2>1. [s EXCEPT !.root = "fq"].root = "fq"
    BY DEF TcStates
  <2> QED
    BY <2>1 DEF Names
<1>5. ASSUME NEW t, t.root = s.root PROVE Names(t) = Names(s)
  BY <1>5 DEF Names
<1>6. /\ [s EXCEPT !.clsact = TRUE].root = s.root
      /\ [s EXCEPT !.filters = @ \union {"bwm_tc.o"}].root = s.root
  BY DEF TcStates
<1> QED
  BY <1>1, <1>2, <1>3, <1>4, <1>5, <1>6

\* NetdevEnabled says no, and there is no filter.
LEMMA NotEnabledCalm ==
    ASSUME Inv, CalmInv, Calm, NEW p \in Processes, proc[p].pc \in LookPcs, NotEnabled(p),
           tc' = tc, cfg' = cfg, ~HasFilter(Device(p))
    PROVE  CalmInv' /\ RollbackEnds(p)
<1>0. proc[p].pc \in DevicePcs
  BY DEF LookPcs, DevicePcs, Pcs
<1>1. CASE Enabling(p) /\ GoOn(p, "default?")
  <2>1. told[proc[p].at] # "enabled"
    BY <1>1 DEF CalmInv, Knows, Seen, Looked, ToldTrue, NetdevEnabled, Device, Enabling
  <2>2. proc[p].stage = "run" /\ Only(p) /\ "default?" \in DevicePcs
    BY <1>1 DEF Enabling, Only, GoOn, DevicePcs, Pcs
  <2>3. ASSUME NEW r \in ProcStates, r.pc = "default?", r.stage = proc[p].stage
        PROVE  Seen(r, tc'[proc[p].at], told[proc[p].at], cfg)
    BY <2>1, <2>2, <2>3 DEF Seen, Device, LookPcs, EnablePcs
  <2> QED
    BY <1>0, <1>1, <2>2, <2>3, StayGoto
<1>2. CASE DoneSaying(p, "disabled")
  <2>1. ToldTrue(tc'[proc[p].at], "disabled", cfg')
    BY DEF ToldTrue, Device
  <2> QED
    BY <1>0, <1>2, <2>1, DoneSayingAt
<1> QED
  BY <1>1, <1>2 DEF NotEnabled
\* A process that sets something leaves the devices alone.
LEMMA SetMoves ==
    ASSUME Inv, CalmInv, Calm, NEW p \in Processes, proc[p].pc \in SettingPcs,
           NEW r \in ProcStates, Becomes(p, r), r.stage = "run", r.pc \in SettingPcs \union {"idle"},
           tc' = tc, told' = told, cfg'.interval = cfg.interval, Fresh(r, cfg')
    PROVE  CalmInv' /\ RollbackEnds(p)
<1>0. proc[p].pc # "idle" /\ proc[p].pc \notin DevicePcs /\ r.pc \notin DevicePcs
  BY DEF SettingPcs, DevicePcs
<1>1. Seen(r, tc'[r.at], told'[r.at], cfg') /\ RolledBack(r, tc')
  BY DEF Seen, RolledBack, SettingPcs, LookPcs, EnablePcs, DisablePcs
<1>2. ASSUME NEW d \in Devices PROVE ToldTrue(tc'[d], told'[d], cfg')
  <2>1. ASSUME NEW q \in Processes PROVE proc[q].pc \notin DevicePcs
    <3>1. proc[q].pc = "idle" \/ q = p
      BY <1>0 DEF CalmInv, OneAtATime
    <3> QED
      BY <1>0, <3>1 DEF DevicePcs
  <2>2. ToldTrue(tc[d], told[d], cfg)
    BY <2>1 DEF CalmInv, Untouched
  <2> QED
    BY <2>2 DEF ToldTrue
<1>3. CalmInv'
  BY <1>0, <1>1, <1>2, OneMoves
<1>4. proc[p].stage = "run"
  BY DEF CalmInv, Knows, Seen, SettingPcs, LookPcs, DisablePcs
<1> QED
  BY <1>3, <1>4 DEF RollbackEnds

\* A change of the rates or of the waterline leaves the interval.
LEMMA ChangedInterval ==
    ASSUME NEW e \in Configs, NEW c
    PROVE  Changed(e, c).interval = e.interval
BY DEF Changed, Configs

\* To set again what has just been set changes nothing.
LEMMA ChangedTwice ==
    ASSUME NEW e \in Configs, NEW c
    PROVE  Changed(Changed(e, c), c) = Changed(e, c)
BY DEF Changed, Configs

\* What a setting has read is still there when it writes, and what it has written
\* when the file of /proc/qos takes it.
LEMMA SetCalm ==
    ASSUME Inv, CalmInv, Calm, NEW p \in Processes, Set(p)
    PROVE  CalmInv' /\ RollbackEnds(p)
<1> DEFINE c == proc[p].cmd
<1>0. proc[p].pc \in SettingPcs
  BY DEF Set, SetRead, SetUpdate, ProcKeeps, At, SettingPcs
<1>t. proc[p] \in ProcStates /\ cfg \in Configs /\ Ended \in ProcStates
  BY EndedTyped DEF Inv, TypeOK
<1>s. proc[p].stage = "run" /\ Fresh(proc[p], cfg)
  BY <1>0 DEF CalmInv, Knows, Seen, SettingPcs, LookPcs, DisablePcs
<1>e. ASSUME Becomes(p, Ended), tc' = tc, told' = told, cfg'.interval = cfg.interval
      PROVE  CalmInv' /\ RollbackEnds(p)
  <2>1. Ended.stage = "run" /\ Ended.pc = "idle" /\ Fresh(Ended, cfg')
    BY DEF Ended, Fresh
  <2> QED
    BY <1>0, <1>t, <1>e, <2>1, SetMoves
<1>d. ASSUME SetDone(p), tc' = tc, told' = told, cfg'.interval = cfg.interval,
             Changed(cfg', c) = cfg', Valid(c)
      PROVE  CalmInv' /\ RollbackEnds(p)
  <2>1. CASE Becomes(p, [proc[p] EXCEPT !.pc = "proc"])
    <3> DEFINE r == [proc[p] EXCEPT !.pc = "proc"]
    <3>1. /\ r \in ProcStates /\ r.pc = "proc" /\ r.stage = proc[p].stage /\ r.cmd = c
          /\ Becomes(p, r)
      BY <1>t, <2>1 DEF ProcStates, Pcs
    <3> HIDE DEF r
    <3>2. Fresh(r, cfg') /\ r.pc \in SettingPcs
      BY <1>d, <3>1 DEF Fresh, SettingPcs
    <3> QED
      BY <1>0, <1>s, <1>d, <3>1, <3>2, SetMoves
  <2> QED
    BY <1>d, <1>e, <2>1 DEF SetDone, Goto
<1>1. CASE SetRead(p)
  <2>0. tc' = tc /\ told' = told /\ cfg' = cfg
    BY <1>1 DEF SetRead, LooksOnly, hostVars
  <2>1. CASE Valid(c) /\ Changed(cfg, c) = cfg /\ SetDone(p)
    BY <1>d, <2>0, <2>1
  <2>2. CASE Valid(c) /\ Becomes(p, [proc[p] EXCEPT !.copy = Changed(cfg, c), !.pc = "update"])
    <3> DEFINE r == [proc[p] EXCEPT !.copy = Changed(cfg, c), !.pc = "update"]
    <3>0. Changed(cfg, c) \in Configs
      <4>1. c \in Commands /\ c.op \in {"bandwidth", "waterline"} /\ SoundConfig(cfg)
        BY <1>0 DEF Inv, Setting, ConfigSound
      <4> QED
        BY <1>t, <2>2, <4>1, ChangedSound
    <3>1. /\ r \in ProcStates /\ r.pc = "update" /\ r.stage = proc[p].stage /\ r.cmd = c
          /\ r.copy = Changed(cfg, c) /\ Becomes(p, r)
      BY <1>t, <2>2, <3>0 DEF ProcStates, Pcs
    <3> HIDE DEF r
    <3>2. Fresh(r, cfg') /\ r.pc \in SettingPcs
      BY <2>0, <2>2, <3>1 DEF Fresh, SettingPcs
    <3> QED
      BY <1>0, <1>s, <2>0, <3>1, <3>2, SetMoves
  <2> QED
    BY <1>1, <1>e, <2>0, <2>1, <2>2 DEF SetRead
<1>2. CASE SetUpdate(p)
  <2>0. tc' = tc /\ told' = told /\ proc[p].pc = "update"
    BY <1>2 DEF SetUpdate, At
  <2>1. CASE cfg' = proc[p].copy /\ SetDone(p)
    <3>1. cfg' = Changed(cfg, c) /\ Valid(c)
      BY <1>s, <2>0, <2>1 DEF Fresh
    <3>2. cfg'.interval = cfg.interval /\ Changed(cfg', c) = cfg'
      BY <1>t, <3>1, ChangedInterval, ChangedTwice
    <3> QED
      BY <1>d, <2>0, <2>1, <3>1, <3>2
  <2> QED
    BY <1>2, <1>e, <2>0, <2>1 DEF SetUpdate
<1>3. CASE ProcKeeps(p)
  BY <1>3, <1>e DEF ProcKeeps, hostVars
<1> QED
  BY <1>1, <1>2, <1>3 DEF Set

\* A tc command changes the device and the process goes on with it.
LEMMA StayTc ==
    ASSUME Inv, CalmInv, Calm, NEW p \in Processes, proc[p].pc \in DevicePcs,
           NEW pc \in DevicePcs, NEW s \in TcStates, Tc(p, s, pc),
           \A r \in ProcStates : r.pc = pc /\ r.stage = proc[p].stage =>
                                   Seen(r, s, told[proc[p].at], cfg)
    PROVE  CalmInv' /\ RollbackEnds(p)
<1>1. tc \in [Devices -> TcStates] /\ proc[p].at \in Devices
  BY DEF Inv, TypeOK, ProcStates
<1>2. tc' = [tc EXCEPT ![proc[p].at] = s] /\ GoOn(p, pc) /\ cfg' = cfg /\ told' = told
  BY DEF Tc, GoOn
<1>3. tc'[proc[p].at] = s /\ Only(p)
  BY <1>1, <1>2 DEF Only
<1> QED
  BY <1>2, <1>3, StayGoto

\* Every step of the one command that runs.
LEMMA StepCalm ==
    ASSUME Inv, CalmInv, Calm, Calm', NEW p \in Processes, Step(p)
    PROVE  CalmInv' /\ RollbackEnds(p)
<1> DEFINE a == proc[p].at
<1>t. /\ proc[p] \in ProcStates /\ a \in Devices /\ Device(p) \in TcStates
      /\ tc \in [Devices -> TcStates] /\ Device(p) = tc[a]
  BY DEF Inv, TypeOK, ProcStates, Device
<1>k. Seen(proc[p], Device(p), told[a], cfg) /\ Fresh(proc[p], cfg)
  BY DEF CalmInv, Knows, Device
<1>f. ~ForkFailed /\ ~Fault({"kill"}) /\ ~Fault({"refused"})
  BY DEF ForkFailed, Fault, Calm
<1>0. ASSUME proc[p].pc \in EnablePcs \union {"readCfg", "initCfg"}
      PROVE  /\ proc[p].pc \in DevicePcs /\ proc[p].stage = "run" /\ told[a] # "enabled"
             /\ HasFilter(Device(p)) => NetdevEnabled(Device(p))
  <2>1. proc[p].pc \in DevicePcs /\ proc[p].pc \notin LookPcs \union DisablePcs
    BY <1>0 DEF DevicePcs, EnablePcs, Pcs, LookPcs, DisablePcs
  <2> QED
    BY <1>0, <1>k, <2>1 DEF Seen
<1>c. ASSUME proc[p].pc \in EnablePcs \union {"readCfg", "initCfg"}, Clear(p), tc' = tc, cfg' = cfg
      PROVE  CalmInv' /\ RollbackEnds(p)
  BY <1>0, <1>c, StayClear
<1>u. ASSUME proc[p].pc \in EnablePcs \union {"readCfg", "initCfg"}, ClearUnchanged(p)
      PROVE  CalmInv' /\ RollbackEnds(p)
  BY <1>c, <1>u DEF ClearUnchanged, hostVars
<1>1. CASE NetdevEnabledFilter(p)
  <2>0. proc[p].pc = "filter?" /\ tc' = tc /\ cfg' = cfg
    BY <1>1 DEF NetdevEnabledFilter, At, LooksOnly, hostVars
  <2>1. proc[p].pc \in LookPcs /\ proc[p].pc \in DevicePcs /\ "fq?" \in DevicePcs
    BY <2>0 DEF LookPcs, DevicePcs, Pcs
  <2>2. CASE HasFilter(Device(p)) /\ GoOn(p, "fq?")
    <3>1. Only(p)
      BY <2>0, <2>2 DEF Only, GoOn
    <3>2. ASSUME NEW r \in ProcStates, r.pc = "fq?", r.stage = proc[p].stage
          PROVE  Seen(r, tc'[a], told[a], cfg)
      BY <1>k, <1>t, <2>0, <2>1, <2>2, <3>2 DEF Seen, Looked, LookPcs, EnablePcs
    <3> QED
      BY <2>0, <2>1, <2>2, <3>1, <3>2, StayGoto
  <2>3. CASE ~HasFilter(Device(p)) /\ NotEnabled(p)
    BY <2>0, <2>1, <2>3, NotEnabledCalm
  <2> QED
    BY <1>1, <1>f, <2>2, <2>3 DEF NetdevEnabledFilter
<1>2. CASE NetdevEnabledFq(p)
  <2>0. proc[p].pc = "fq?" /\ tc' = tc /\ cfg' = cfg
    BY <1>2 DEF NetdevEnabledFq, At, LooksOnly, hostVars
  <2>1. proc[p].pc \in LookPcs /\ proc[p].pc \in DevicePcs /\ "offFilter" \in DevicePcs
    BY <2>0 DEF LookPcs, DevicePcs, Pcs
  <2>e. NetdevEnabled(Device(p))
    BY <1>k, <2>0, <2>1 DEF Seen, Looked, ToldTrue
  <2>2. CASE Enabling(p) /\ DoneSaying(p, "enabled")
    <3>1. proc[p].stage = "run"
      BY <2>2 DEF Enabling
    <3>2. cfg.interval # 0
      BY <1>k, <2>0, <2>1, <3>1 DEF Seen, Looked, ToldTrue
    <3>3. ToldTrue(tc'[a], "enabled", cfg')
      BY <1>t, <2>0, <2>e, <3>2 DEF ToldTrue
    <3> QED
      BY <2>0, <2>1, <2>2, <3>1, <3>3, DoneSayingAt
  <2>3. CASE GoOn(p, "offFilter")
    <3>1. Only(p)
      BY <2>0, <2>3 DEF Only, GoOn
    <3>2. ASSUME NEW r \in ProcStates, r.pc = "offFilter", r.stage = proc[p].stage
          PROVE  Seen(r, tc'[a], told[a], cfg)
      BY <3>2 DEF Seen, LookPcs, EnablePcs, DisablePcs
    <3> QED
      BY <2>0, <2>1, <2>3, <3>1, <3>2, StayGoto
  <2> QED
    BY <1>2, <1>f, <2>e, <2>2, <2>3 DEF NetdevEnabledFq, NetdevEnabled
<1>3. CASE CheckDefaultTc(p)
  <2>0. proc[p].pc = "default?" /\ tc' = tc /\ cfg' = cfg
    BY <1>3 DEF CheckDefaultTc, At, LooksOnly, hostVars
  <2>1. proc[p].pc \in EnablePcs /\ proc[p].pc \in DevicePcs /\ "delRoot" \in DevicePcs
    BY <2>0 DEF EnablePcs, DevicePcs, Pcs
  <2>2. CASE GoOn(p, "delRoot")
    <3>1. Only(p)
      BY <2>0, <2>2 DEF Only, GoOn
    <3>2. ASSUME NEW r \in ProcStates, r.pc = "delRoot", r.stage = proc[p].stage
          PROVE  Seen(r, tc'[a], told[a], cfg)
      BY <1>k, <1>t, <1>0, <2>0, <2>1, <3>2 DEF Seen, LookPcs
    <3> QED
      BY <2>0, <2>1, <2>2, <3>1, <3>2, StayGoto
  <2>3. CASE DoneSaying(p, "other TC")
    <3>1. ToldTrue(tc'[a], "other TC", cfg')
      BY <1>k, <1>t, <2>0, <2>1 DEF Seen, ToldTrue
    <3> QED
      BY <2>0, <2>1, <2>3, <3>1, DoneSayingAt
  <2> QED
    BY <1>3, <1>f, <2>2, <2>3 DEF CheckDefaultTc
<1>4. CASE EnableDelRoot(p)
  <2>0. proc[p].pc = "delRoot"
    BY <1>4 DEF EnableDelRoot, At
  <2>1. proc[p].pc \in EnablePcs /\ proc[p].pc \in DevicePcs /\ "delClsact" \in DevicePcs
    BY <2>0 DEF EnablePcs, DevicePcs, Pcs
  <2>2. ASSUME NEW s \in {Device(p), DelRoot(Device(p))}, Tc(p, s, "delClsact")
        PROVE  CalmInv' /\ RollbackEnds(p)
    <3>1. s \in TcStates /\ ~HasFilter(s)
      <4>1. ~HasFilter(Device(p)) /\ Device(p) \in TcStates
        BY <1>k, <1>t, <2>1 DEF Seen
      <4>2. ~HasFilter(DelRoot(Device(p))) /\ DelRoot(Device(p)) \in TcStates
        BY <4>1, TcTyped, TcShows
      <4> QED
        BY <4>1, <4>2
    <3>2. ASSUME NEW r \in ProcStates, r.pc = "delClsact", r.stage = proc[p].stage
          PROVE  Seen(r, s, told[a], cfg)
      BY <1>0, <2>0, <2>1, <3>1, <3>2 DEF Seen, LookPcs
    <3> QED
      BY <2>1, <2>2, <3>1, <3>2, StayTc
  <2> QED
    BY <1>4, <1>f, <1>u, <2>1, <2>2 DEF EnableDelRoot
<1>5. CASE EnableDelClsact(p)
  <2>0. proc[p].pc = "delClsact"
    BY <1>5 DEF EnableDelClsact, At
  <2>1. proc[p].pc \in EnablePcs /\ proc[p].pc \in DevicePcs /\ "addFq" \in DevicePcs
    BY <2>0 DEF EnablePcs, DevicePcs, Pcs
  <2>2. ASSUME NEW s \in {Device(p), DelClsact(Device(p))}, Tc(p, s, "addFq")
        PROVE  CalmInv' /\ RollbackEnds(p)
    <3>1. s \in TcStates /\ ~HasFilter(s)
      <4>1. ~HasFilter(Device(p)) /\ Device(p) \in TcStates
        BY <1>k, <1>t, <2>1 DEF Seen
      <4>2. ~HasFilter(DelClsact(Device(p))) /\ DelClsact(Device(p)) \in TcStates
        BY <4>1, TcTyped, TcShows
      <4> QED
        BY <4>1, <4>2
    <3>2. ASSUME NEW r \in ProcStates, r.pc = "addFq", r.stage = proc[p].stage
          PROVE  Seen(r, s, told[a], cfg)
      BY <1>0, <2>0, <2>1, <3>1, <3>2 DEF Seen, LookPcs
    <3> QED
      BY <2>1, <2>2, <3>1, <3>2, StayTc
  <2> QED
    BY <1>5, <1>f, <1>u, <2>1, <2>2 DEF EnableDelClsact
<1>6. CASE EnableAddFq(p)
  <2>0. proc[p].pc = "addFq"
    BY <1>6 DEF EnableAddFq, At
  <2>1. proc[p].pc \in EnablePcs /\ proc[p].pc \in DevicePcs /\ "addClsact" \in DevicePcs
    BY <2>0 DEF EnablePcs, DevicePcs, Pcs
  <2>2. CASE Tc(p, [Device(p) EXCEPT !.root = "fq"], "addClsact")
    <3>1. [Device(p) EXCEPT !.root = "fq"] \in TcStates
      BY <1>t, TcTyped
    <3>2. ASSUME NEW r \in ProcStates, r.pc = "addClsact", r.stage = proc[p].stage
          PROVE  Seen(r, [Device(p) EXCEPT !.root = "fq"], told[a], cfg)
      BY <1>k, <1>t, <1>0, <2>0, <2>1, <3>2, TcShows DEF Seen, LookPcs
    <3> QED
      BY <2>1, <2>2, <3>1, <3>2, StayTc
  <2> QED
    BY <1>6, <1>f, <1>u, <2>1, <2>2 DEF EnableAddFq
<1>7. CASE EnableAddClsact(p)
  <2>0. proc[p].pc = "addClsact"
    BY <1>7 DEF EnableAddClsact, At
  <2>1. proc[p].pc \in EnablePcs /\ proc[p].pc \in DevicePcs /\ "addFilter" \in DevicePcs
    BY <2>0 DEF EnablePcs, DevicePcs, Pcs
  <2>2. CASE Tc(p, [Device(p) EXCEPT !.clsact = TRUE], "addFilter")
    <3>1. [Device(p) EXCEPT !.clsact = TRUE] \in TcStates
      BY <1>t, TcTyped
    <3>2. ASSUME NEW r \in ProcStates, r.pc = "addFilter", r.stage = proc[p].stage
          PROVE  Seen(r, [Device(p) EXCEPT !.clsact = TRUE], told[a], cfg)
      BY <1>k, <1>t, <1>0, <2>0, <2>1, <3>2, TcShows DEF Seen, LookPcs
    <3> QED
      BY <2>1, <2>2, <3>1, <3>2, StayTc
  <2> QED
    BY <1>7, <1>f, <1>u, <2>1, <2>2 DEF EnableAddClsact
<1>8. CASE EnableAddFilter(p)
  <2>0. proc[p].pc = "addFilter"
    BY <1>8 DEF EnableAddFilter, At
  <2>1. proc[p].pc \in EnablePcs /\ proc[p].pc \in DevicePcs /\ "readCfg" \in DevicePcs
    BY <2>0 DEF EnablePcs, DevicePcs, Pcs
  <2> DEFINE s == [Device(p) EXCEPT !.filters = @ \union {"bwm_tc.o"}]
  <2>2. CASE /\ tc' = [tc EXCEPT ![proc[p].at].filters = @ \union {"bwm_tc.o"}]
             /\ cfg' = cfg /\ GoOn(p, "readCfg")
    <3>1. tc'[a] = s /\ Only(p)
      BY <1>t, <2>2 DEF Only, GoOn
    <3>2. NetdevEnabled(s)
      <4>1. HasFilter(s) /\ Names(s) = Names(Device(p))
        BY <1>t, TcShows
      <4> QED
        BY <1>k, <2>0, <4>1 DEF Seen, NetdevEnabled
    <3>3. ASSUME NEW r \in ProcStates, r.pc = "readCfg", r.stage = proc[p].stage
          PROVE  Seen(r, tc'[a], told[a], cfg)
      <4> HIDE DEF s
      <4> QED
        BY <1>0, <2>1, <3>1, <3>2, <3>3 DEF Seen, LookPcs, EnablePcs
    <3> QED
      BY <2>1, <2>2, <3>1, <3>3, StayGoto
  <2> QED
    BY <1>8, <1>f, <1>u, <1>c, <2>1, <2>2 DEF EnableAddFilter
<1>9. CASE InitCfgMapReadCfg(p)
  <2>0. proc[p].pc = "readCfg" /\ tc' = tc /\ cfg' = cfg
    BY <1>9 DEF InitCfgMapReadCfg, At, LooksOnly, hostVars
  <2>1. proc[p].pc \in DevicePcs
    BY <2>0 DEF DevicePcs, Pcs
  <2>2. CASE /\ cfg.interval = 0 /\ told' = told
             /\ Becomes(p, [proc[p] EXCEPT !.copy = DefaultConfig, !.pc = "initCfg"])
    <3> DEFINE r == [proc[p] EXCEPT !.copy = DefaultConfig, !.pc = "initCfg"]
    <3>1. /\ r \in ProcStates /\ r.pc = "initCfg" /\ r.stage = proc[p].stage /\ r.at = a
          /\ r.copy = DefaultConfig /\ r.pc \in DevicePcs
      BY <1>t, DefaultSound DEF ProcStates, Pcs, DevicePcs
    <3>2. Becomes(p, r) /\ Only(p)
      BY <2>0, <2>2 DEF Only
    <3> HIDE DEF r
    <3>3. Seen(r, tc'[r.at], told'[r.at], cfg)
      BY <1>0, <1>k, <1>t, <2>0, <2>2, <3>1 DEF Seen, LookPcs, EnablePcs
    <3>4. r.stage # "rollback"
      BY <1>0, <2>0, <3>1
    <3> QED
      BY <2>0, <2>1, <3>1, <3>2, <3>3, <3>4, StayAt
  <2>3. CASE cfg.interval # 0 /\ DoneSaying(p, "enabled")
    <3>1. ToldTrue(tc'[a], "enabled", cfg')
      BY <1>k, <1>t, <2>0, <2>3 DEF Seen, ToldTrue
    <3>2. proc[p].stage # "rollback"
      BY <1>0, <2>0
    <3> QED
      BY <2>0, <2>1, <2>3, <3>1, <3>2, DoneSayingAt
  <2> QED
    BY <1>9, <1>c, <2>0, <2>2, <2>3 DEF InitCfgMapReadCfg
<1>10. CASE InitCfgMapUpdateCfg(p)
  <2>0. proc[p].pc = "initCfg"
    BY <1>10 DEF InitCfgMapUpdateCfg, At
  <2>1. proc[p].pc \in DevicePcs
    BY <2>0 DEF DevicePcs, Pcs
  <2>2. CASE cfg' = proc[p].copy /\ tc' = tc /\ DoneSaying(p, "enabled")
    <3>1. cfg'.interval # 0
      <4>1. cfg' = DefaultConfig
        BY <1>k, <2>0, <2>2 DEF Seen
      <4> QED
        BY <4>1 DEF DefaultConfig
    <3>2. ToldTrue(tc'[a], "enabled", cfg')
      BY <1>k, <1>t, <2>0, <2>2, <3>1 DEF Seen, ToldTrue
    <3>3. proc[p].stage # "rollback"
      BY <1>0, <2>0
    <3> QED
      BY <2>1, <2>2, <3>1, <3>2, <3>3, DoneSayingAt
  <2> QED
    BY <1>10, <1>u, <2>0, <2>2 DEF InitCfgMapUpdateCfg
<1>11. CASE DisableDelFilter(p)
  <2>0. proc[p].pc = "offFilter" /\ proc[p].pc \in DevicePcs /\ "offClsact" \in DevicePcs
    BY <1>11 DEF DisableDelFilter, At, DevicePcs, Pcs
  <2>1. PICK s \in {Device(p), DelFilters(Device(p))} : Tc(p, s, "offClsact")
    BY <1>11, <1>f DEF DisableDelFilter, DisableFails
  <2>2. s \in TcStates
    BY <1>t, TcTyped
  <2>3. ASSUME NEW r \in ProcStates, r.pc = "offClsact", r.stage = proc[p].stage
        PROVE  Seen(r, s, told[a], cfg)
    BY <2>3 DEF Seen, LookPcs, EnablePcs, DisablePcs
  <2> QED
    BY <2>0, <2>1, <2>2, <2>3, StayTc
<1>12. CASE DisableDelClsact(p)
  <2>0. proc[p].pc = "offClsact" /\ proc[p].pc \in DevicePcs /\ "offRoot" \in DevicePcs
    BY <1>12 DEF DisableDelClsact, At, DevicePcs, Pcs
  <2>1. CASE Tc(p, DelClsact(Device(p)), "offRoot")
    <3>2. DelClsact(Device(p)) \in TcStates /\ ~HasFilter(DelClsact(Device(p)))
      BY <1>t, TcTyped, TcShows
    <3>3. ASSUME NEW r \in ProcStates, r.pc = "offRoot", r.stage = proc[p].stage
          PROVE  Seen(r, DelClsact(Device(p)), told[a], cfg)
      BY <3>2, <3>3 DEF Seen, LookPcs, EnablePcs, DisablePcs
    <3> QED
      BY <2>0, <2>1, <3>2, <3>3, StayTc
  <2>2. CASE GoOn(p, "offRoot") /\ Refused(HasFilter(Device(p)))
    <3>1. tc' = tc /\ cfg' = cfg /\ Only(p) /\ ~HasFilter(Device(p))
      BY <1>f, <2>2 DEF Refused, hostVars, GoOn, Only
    <3>2. ASSUME NEW r \in ProcStates, r.pc = "offRoot", r.stage = proc[p].stage
          PROVE  Seen(r, tc'[a], told[a], cfg)
      BY <1>t, <3>1, <3>2 DEF Seen, LookPcs, EnablePcs, DisablePcs
    <3> QED
      BY <2>0, <2>2, <3>1, <3>2, StayGoto
  <2> QED
    BY <1>12, <1>f, <2>1, <2>2 DEF DisableDelClsact, DisableFails
<1>13. CASE DisableDelRoot(p)
  <2>0. proc[p].pc = "offRoot" /\ proc[p].pc \in DevicePcs
    BY <1>13 DEF DisableDelRoot, At, DevicePcs, Pcs
  <2>1. tc' = tc \/ tc' = [tc EXCEPT ![a] = DelRoot(@)]
    BY <1>13, <1>f DEF DisableDelRoot, DisableFails, Refused, hostVars
  <2>5. DoneSaying(p, "disabled") /\ cfg' = cfg
    BY <1>13, <1>f DEF DisableDelRoot, DisableFails, Refused, hostVars
  <2>2. /\ tc'[a] \in {Device(p), DelRoot(Device(p))}
        /\ \A d \in Devices : d # a => tc'[d] = tc[d]
    BY <1>t, <2>1
  <2>3. ~HasFilter(tc'[a])
    <3>1. ~HasFilter(Device(p))
      BY <1>k, <2>0 DEF Seen
    <3>2. HasFilter(DelRoot(Device(p))) <=> HasFilter(Device(p))
      BY <1>t, TcShows
    <3> QED
      BY <2>2, <3>1, <3>2
  <2>4. ToldTrue(tc'[a], "disabled", cfg')
    BY <2>3 DEF ToldTrue
  <2> QED
    BY <2>0, <2>5, <2>2, <2>4, DoneSayingAt
<1>14. CASE Set(p)
  BY <1>14, SetCalm
<1>15. CASE Kill(p)
  BY <1>15, <1>f DEF Kill
<1> QED
  BY <1>1, <1>2, <1>3, <1>4, <1>5, <1>6, <1>7, <1>8, <1>9, <1>10, <1>11, <1>12, <1>13,
     <1>14, <1>15 DEF Step, NetdevEnabledCalls, Enable, Disable

\* A command that starts while none runs is the only one.
LEMMA StartCalm ==
    ASSUME Inv, CalmInv, NEW p \in Processes, NEW c \in Commands, Start(p, c)
    PROVE  CalmInv'
<1> SUFFICES ASSUME Calm' PROVE CalmInv'
  BY DEF CalmInv
<1>1. Running = {} /\ Calm
  BY DEF Start, Calm
<1> DEFINE first == IF c.op \in {"enable", "disable"} THEN "filter?" ELSE "readSet"
           dev == IF c.dev = 0 THEN 1 ELSE c.dev
           r == [pc |-> first, cmd |-> c, stage |-> "run", at |-> dev, copy |-> ZeroConfig]
<1>2. /\ proc' = [proc EXCEPT ![p] = r] /\ proc \in [Processes -> ProcStates]
      /\ tc' = tc /\ told' = told /\ cfg' = cfg
  BY DEF Start, Becomes, hostVars, Inv, TypeOK
<1>3. r.pc \in {"filter?", "readSet"} /\ r.stage = "run" /\ r.at \in Devices
  <2>1. c.dev \in {0} \union Devices
    BY DEF Commands
  <2> QED
    BY <2>1, FirstDevice
<1> HIDE DEF r
<1>4. /\ proc'[p] = r
      /\ \A q \in Processes : q # p => proc'[q].pc = "idle" /\ proc'[q].stage = "run"
  <2>1. \A q \in Processes : proc[q].pc = "idle" /\ proc[q].stage = "run"
    BY <1>1 DEF Running, CalmInv, Knows, Seen, LookPcs, DisablePcs
  <2> QED
    BY <1>2, <2>1
<1>5. \A d \in Devices : ToldTrue(tc[d], told[d], cfg)
  BY <1>1 DEF CalmInv, Untouched, Running, DevicePcs
<1>6. OneAtATime'
  BY <1>4 DEF OneAtATime
<1>7. ASSUME NEW q \in Processes PROVE Knows(q)'
  <2>1. CASE q = p
    <3>1. Seen(r, tc[r.at], told[r.at], cfg)
      BY <1>3, <1>5 DEF Seen, Looked, LookPcs, EnablePcs, DisablePcs
    <3>2. Fresh(r, cfg) /\ RolledBack(r, tc)
      BY <1>3 DEF Fresh, RolledBack
    <3> QED
      BY <1>2, <1>4, <2>1, <3>1, <3>2 DEF Knows
  <2>2. CASE q # p
    BY <1>4, <2>2, IdleKnows DEF Knows
  <2> QED
    BY <2>1, <2>2
<1> QED
  BY <1>2, <1>5, <1>6, <1>7 DEF CalmInv

\* Before the first command nothing was printed and there is no filter.
LEMMA InitCalm == Init => CalmInv
<1> SUFFICES ASSUME Init PROVE CalmInv
  OBVIOUS
<1>1. \A d \in Devices : "bwm_tc.o" \notin tc[d].filters /\ told[d] = "nothing"
  BY HostsAssumption DEF Init
<1>2. \A p \in Processes : proc[p].pc = "idle" /\ proc[p].stage = "run"
  BY DEF Init, Ended
<1>3. \A p \in Processes : Knows(p)
  BY <1>2, IdleKnows DEF Knows
<1>4. \A d \in Devices : ToldTrue(tc[d], told[d], cfg)
  BY <1>1 DEF ToldTrue, HasFilter
<1>5. OneAtATime
  BY <1>2 DEF OneAtATime
<1> QED
  BY <1>3, <1>4, <1>5 DEF CalmInv

\* Disturbances are not forgotten.
LEMMA UpsetGrows ==
    ASSUME Inv, [Next]_vars
    PROVE  upset \subseteq upset'
<1>1. CASE UNCHANGED vars
  BY <1>1 DEF vars
<1>2. ASSUME NEW p \in Processes, NEW c \in Commands, Start(p, c) PROVE upset \subseteq upset'
  BY <1>2, StartMoves DEF Inv
<1>3. ASSUME NEW p \in Processes, Step(p) PROVE upset \subseteq upset'
  BY <1>3, StepMoves
<1> QED
  BY <1>1, <1>2, <1>3 DEF Next, Step

\* Every step of the tool keeps the invariant of calm runs, and its rollbacks end well.
LEMMA CalmStep ==
    ASSUME Inv, CalmInv, [Next]_vars
    PROVE  /\ CalmInv'
           /\ Calm' => \A p \in Processes : RollbackEnds(p)
<1>1. CASE UNCHANGED vars
  <2>1. /\ tc' = tc /\ cfg' = cfg /\ proc' = proc /\ told' = told /\ upset' = upset
    BY <1>1 DEF vars, hostVars
  <2>2. CalmInv'
    BY <2>1 DEF CalmInv, Calm, OneAtATime, Knows, Untouched
  <2> QED
    BY <2>1, <2>2 DEF RollbackEnds, Ended
<1>2. ASSUME NEW p \in Processes, (\E c \in Commands : Start(p, c)) \/ Step(p)
      PROVE  CalmInv' /\ (Calm' => RollbackEnds(p))
  <2>1. CASE \E c \in Commands : Start(p, c)
    <3>0. PICK c \in Commands : Start(p, c)
      BY <2>1
    <3>1. proc'[p].pc # "idle"
      <4> DEFINE first == IF c.op \in {"enable", "disable"} THEN "filter?" ELSE "readSet"
                 r == [pc |-> first, cmd |-> c, stage |-> "run",
                       at |-> IF c.dev = 0 THEN 1 ELSE c.dev, copy |-> ZeroConfig]
      <4>1. proc' = [proc EXCEPT ![p] = r] /\ proc \in [Processes -> ProcStates]
        BY <3>0 DEF Start, Becomes, Inv, TypeOK
      <4>2. r.pc # "idle"
        OBVIOUS
      <4> HIDE DEF r
      <4> QED
        BY <4>1, <4>2
    <3>2. CalmInv'
      BY <3>0, StartCalm
    <3> QED
      BY <3>1, <3>2, EndedTyped DEF RollbackEnds
  <2>2. CASE Step(p) /\ Calm'
    <3>1. Calm
      BY <2>2, UpsetGrows DEF Calm
    <3> QED
      BY <2>2, <3>1, StepCalm
  <2> QED
    BY <1>2, <2>1, <2>2 DEF CalmInv
<1>3. ASSUME NEW p \in Processes, (\E c \in Commands : Start(p, c)) \/ Step(p),
             NEW q \in Processes, q # p
      PROVE  RollbackEnds(q)
  <2>1. \E r : Becomes(p, r)
    <3>1. CASE \E c \in Commands : Start(p, c)
      BY <3>1 DEF Start
    <3>2. CASE Step(p)
      BY <3>2, StepMoves DEF Moves
    <3> QED
      BY <1>3, <3>1, <3>2
  <2>2. proc'[q] = proc[q]
    BY <1>3, <2>1 DEF Becomes, Inv, TypeOK
  <2> QED
    BY <2>2 DEF RollbackEnds, Ended
<1> QED
  BY <1>1, <1>2, <1>3 DEF Next, Step

\* Both invariants hold in every reachable state.
LEMMA CalmInvHolds == Spec => [](Inv /\ CalmInv)
<1>1. Init => CalmInv
  BY InitCalm
<1>2. Inv /\ CalmInv /\ [Next]_vars => CalmInv'
  BY CalmStep
<1> QED
  BY <1>1, <1>2, InvHolds, PTL DEF Spec

\* When commands come one at a time, none is cut off and no disable is refused both
\* the filter and the clsact qdisc, what the tool has printed last about a device is
\* so, for any number of devices and commands: also after enables that failed half way
\* and were cleared or rolled back, and after deletions that tc refused.
THEOREM StateAsTold == Spec => []AsTold
<1>1. CalmInv => AsTold
  <2> SUFFICES ASSUME CalmInv, Calm, Running = {}, NEW d \in Devices
               PROVE  ToldTrue(tc[d], told[d], cfg)
    BY DEF AsTold, Calm, ToldTrue
  <2>1. Untouched(d)
    BY DEF Untouched, Running, DevicePcs
  <2> QED
    BY <2>1 DEF CalmInv
<1> QED
  BY <1>1, CalmInvHolds, PTL

\* An enable of all devices that fails on one leaves none of them enabled, however
\* many there are and whichever had been enabled before, unless tc refuses the
\* rollback a device's filter and its clsact qdisc.
THEOREM RollbackLeavesNone == Spec => RollbackComplete
<1>1. Inv /\ CalmInv /\ [Next]_vars =>
        [\A p \in Processes :
           proc[p].stage = "rollback" /\ proc'[p] = Ended /\ upset' \subseteq {"early", "shell"}
             => \A d \in Devices : ~HasFilter(tc'[d])]_vars
  BY CalmStep DEF Calm, RollbackEnds
<1> QED
  BY <1>1, CalmInvHolds, PTL DEF Spec, RollbackComplete

-----------------------------------------------------------------------------
(* Settings that come one at a time, whatever tc refuses and shells fail.  *)

\* The places where a process knows something of the entry.
KnowingPcs == {"update", "proc", "initCfg"}
Knowing(r, c) ==
    Fresh(r, c) /\ (r.pc = "initCfg" => r.copy = DefaultConfig /\ c.interval = 0)

SeqInv ==
    "overlap" \notin upset => OneAtATime /\ \A p \in Processes : Knowing(proc[p], cfg)

\* A process goes where nothing of the entry has to be known.
Elsewhere(p) == \E r : Becomes(p, r) /\ r.pc \notin KnowingPcs

\* The ways from one step to the next.
LEMMA GoesElsewhere ==
    ASSUME Inv, NEW p \in Processes
    PROVE  /\ \A pc : Goto(p, pc) /\ pc \notin KnowingPcs => Elsewhere(p)
           /\ \A ok : DeviceDone(p, ok) => Elsewhere(p)
           /\ Clear(p) => Elsewhere(p)
           /\ Becomes(p, Ended) => Elsewhere(p)
<1>1. proc[p] \in ProcStates
  BY DEF Inv, TypeOK
<1>2. Ended.pc \notin KnowingPcs
  BY EndedTyped DEF KnowingPcs
<1>3. ASSUME NEW pc, Goto(p, pc), pc \notin KnowingPcs PROVE Elsewhere(p)
  <2>1. [proc[p] EXCEPT !.pc = pc].pc = pc
    BY <1>1 DEF ProcStates
  <2> QED
    BY <1>3, <2>1 DEF Goto, Elsewhere
<1>4. ASSUME NEW ok, DeviceDone(p, ok) PROVE Elsewhere(p)
  <2>1. /\ [proc[p] EXCEPT !.stage = "rollback", !.at = 1, !.pc = "filter?"].pc = "filter?"
        /\ [proc[p] EXCEPT !.at = @ + 1, !.pc = "filter?"].pc = "filter?"
    BY <1>1 DEF ProcStates
  <2>2. \/ Becomes(p, [proc[p] EXCEPT !.stage = "rollback", !.at = 1, !.pc = "filter?"])
        \/ Becomes(p, [proc[p] EXCEPT !.at = @ + 1, !.pc = "filter?"])
        \/ Becomes(p, Ended)
    BY <1>4 DEF DeviceDone
  <2>3. "filter?" \notin KnowingPcs
    BY DEF KnowingPcs
  <2> QED
    BY <1>2, <2>1, <2>2, <2>3 DEF Elsewhere
<1>5. ASSUME Clear(p) PROVE Elsewhere(p)
  <2>1. [proc[p] EXCEPT !.pc = "filter?", !.stage = "clear"].pc = "filter?"
    BY <1>1 DEF ProcStates
  <2> QED
    BY <1>5, <2>1 DEF Clear, Elsewhere, KnowingPcs
<1> QED
  BY <1>2, <1>3, <1>4, <1>5 DEF Elsewhere

\* The only process that runs moves.
LEMMA SeqMoves ==
    ASSUME Inv, SeqInv, "overlap" \notin upset, NEW p \in Processes, proc[p].pc # "idle",
           NEW r, Becomes(p, r), Knowing(r, cfg')
    PROVE  SeqInv'
<1>1. proc'[p] = r /\ \A q \in Processes \ {p} : proc'[q] = proc[q]
  BY DEF Becomes, Inv, TypeOK
<1>2. ASSUME NEW q \in Processes \ {p} PROVE proc[q].pc = "idle"
  BY DEF SeqInv, OneAtATime
<1>3. ASSUME NEW q \in Processes \ {p} PROVE Knowing(proc'[q], cfg')
  BY <1>1, <1>2 DEF Knowing, Fresh
<1>4. OneAtATime'
  BY <1>1, <1>2 DEF OneAtATime
<1> QED
  BY <1>1, <1>3, <1>4 DEF SeqInv

\* Only the steps that read or write the entry lead to places where it is known.
LEMMA MostGoElsewhere ==
    ASSUME Inv, NEW p \in Processes, Step(p),
           ~InitCfgMapReadCfg(p), ~SetRead(p), ~SetUpdate(p)
    PROVE  Elsewhere(p)
<1>0. /\ \A pc : GoOn(p, pc) /\ pc \notin KnowingPcs => Elsewhere(p)
      /\ \A what : DoneSaying(p, what) => Elsewhere(p)
  BY GoesElsewhere DEF GoOn, DoneSaying
<1>n. NotEnabled(p) => Elsewhere(p)
  BY <1>0 DEF NotEnabled, KnowingPcs
<1>t. \A s, pc : Tc(p, s, pc) /\ pc \notin KnowingPcs => Elsewhere(p)
  BY <1>0 DEF Tc
<1>c. ClearUnchanged(p) \/ DisableFails(p) => Elsewhere(p)
  BY GoesElsewhere DEF ClearUnchanged, DisableFails
<1>1. NetdevEnabledCalls(p) => Elsewhere(p)
  BY <1>0, <1>n DEF NetdevEnabledCalls, NetdevEnabledFilter, NetdevEnabledFq, KnowingPcs
<1>2. CheckDefaultTc(p) => Elsewhere(p)
  BY <1>0 DEF CheckDefaultTc, KnowingPcs
<1>3. EnableDelRoot(p) \/ EnableDelClsact(p) => Elsewhere(p)
  BY <1>t, <1>c DEF EnableDelRoot, EnableDelClsact, KnowingPcs
<1>4. EnableAddFq(p) \/ EnableAddClsact(p) => Elsewhere(p)
  BY <1>t, <1>c DEF EnableAddFq, EnableAddClsact, KnowingPcs
<1>5. EnableAddFilter(p) => Elsewhere(p)
  BY <1>0, <1>c, GoesElsewhere DEF EnableAddFilter, KnowingPcs
<1>6. InitCfgMapUpdateCfg(p) => Elsewhere(p)
  BY <1>0, <1>c DEF InitCfgMapUpdateCfg
<1>7. Disable(p) => Elsewhere(p)
  BY <1>0, <1>t, <1>c DEF Disable, DisableDelFilter, DisableDelClsact, DisableDelRoot, KnowingPcs
<1>8. ProcKeeps(p) \/ Kill(p) => Elsewhere(p)
  BY GoesElsewhere DEF ProcKeeps, Kill
<1> QED
  BY <1>1, <1>2, <1>3, <1>4, <1>5, <1>6, <1>7, <1>8 DEF Step, Enable, Set

\* What a process knows of the entry is so after its own steps.
LEMMA StepSeq ==
    ASSUME Inv, SeqInv, "overlap" \notin upset, NEW p \in Processes, Step(p)
    PROVE  SeqInv'
<1> DEFINE c == proc[p].cmd
<1>i. proc[p].pc # "idle"
  BY DEF Step, NetdevEnabledCalls, NetdevEnabledFilter, NetdevEnabledFq, Enable, CheckDefaultTc,
         EnableDelRoot, EnableDelClsact, EnableAddFq, EnableAddClsact, EnableAddFilter,
         InitCfgMapReadCfg, InitCfgMapUpdateCfg, Disable, DisableDelFilter, DisableDelClsact,
         DisableDelRoot, Set, SetRead, SetUpdate, ProcKeeps, Kill, At
<1>t. proc[p] \in ProcStates /\ cfg \in Configs
  BY DEF Inv, TypeOK
<1>k. Knowing(proc[p], cfg)
  BY DEF SeqInv
<1>e. ASSUME Elsewhere(p) PROVE SeqInv'
  <2>1. PICK r : Becomes(p, r) /\ r.pc \notin KnowingPcs
    BY <1>e DEF Elsewhere
  <2>2. Knowing(r, cfg')
    BY <2>1 DEF Knowing, Fresh, KnowingPcs
  <2> QED
    BY <1>i, <2>1, <2>2, SeqMoves
<1>d. ASSUME SetDone(p), Changed(cfg', c) = cfg', Valid(c) PROVE SeqInv'
  <2>1. CASE Becomes(p, [proc[p] EXCEPT !.pc = "proc"])
    <3> DEFINE r == [proc[p] EXCEPT !.pc = "proc"]
    <3>1. r.pc = "proc" /\ r.cmd = c /\ Becomes(p, r)
      BY <1>t, <2>1 DEF ProcStates
    <3> HIDE DEF r
    <3>2. Knowing(r, cfg')
      BY <1>d, <3>1 DEF Knowing, Fresh
    <3> QED
      BY <1>i, <3>1, <3>2, SeqMoves
  <2> QED
    BY <1>d, <1>e, <2>1, GoesElsewhere DEF SetDone, Goto
<1>1. CASE InitCfgMapReadCfg(p)
  <2>0. cfg' = cfg
    BY <1>1 DEF InitCfgMapReadCfg, LooksOnly, hostVars
  <2>1. CASE /\ cfg.interval = 0
             /\ Becomes(p, [proc[p] EXCEPT !.copy = DefaultConfig, !.pc = "initCfg"])
    <3> DEFINE r == [proc[p] EXCEPT !.copy = DefaultConfig, !.pc = "initCfg"]
    <3>1. r.pc = "initCfg" /\ r.copy = DefaultConfig /\ Becomes(p, r)
      BY <1>t, <2>1 DEF ProcStates
    <3> HIDE DEF r
    <3>2. Knowing(r, cfg')
      BY <2>0, <2>1, <3>1 DEF Knowing, Fresh
    <3> QED
      BY <1>i, <3>1, <3>2, SeqMoves
  <2> QED
    BY <1>1, <1>e, <2>1, GoesElsewhere DEF InitCfgMapReadCfg, DoneSaying
<1>2. CASE SetRead(p)
  <2>0. cfg' = cfg
    BY <1>2 DEF SetRead, LooksOnly, hostVars
  <2>1. CASE Valid(c) /\ Changed(cfg, c) = cfg /\ SetDone(p)
    BY <1>d, <2>0, <2>1
  <2>2. CASE Valid(c) /\ Becomes(p, [proc[p] EXCEPT !.copy = Changed(cfg, c), !.pc = "update"])
    <3> DEFINE r == [proc[p] EXCEPT !.copy = Changed(cfg, c), !.pc = "update"]
    <3>1. r.pc = "update" /\ r.cmd = c /\ r.copy = Changed(cfg, c) /\ Becomes(p, r)
      BY <1>t, <2>2 DEF ProcStates
    <3> HIDE DEF r
    <3>2. Knowing(r, cfg')
      BY <2>0, <2>2, <3>1 DEF Knowing, Fresh
    <3> QED
      BY <1>i, <3>1, <3>2, SeqMoves
  <2> QED
    BY <1>2, <1>e, <2>1, <2>2, GoesElsewhere DEF SetRead
<1>3. CASE SetUpdate(p)
  <2>1. CASE cfg' = proc[p].copy /\ SetDone(p)
    <3>1. cfg' = Changed(cfg, c) /\ Valid(c)
      BY <1>3, <1>k, <2>1 DEF Knowing, Fresh, SetUpdate, At
    <3>2. Changed(cfg', c) = cfg'
      BY <1>t, <3>1, ChangedTwice
    <3> QED
      BY <1>d, <2>1, <3>1, <3>2
  <2> QED
    BY <1>3, <1>e, <2>1, GoesElsewhere DEF SetUpdate
<1> QED
  BY <1>1, <1>2, <1>3, <1>e, MostGoElsewhere

\* A command that starts alone finds the others ended.
LEMMA StartSeq ==
    ASSUME Inv, NEW p \in Processes, NEW c \in Commands, Start(p, c)
    PROVE  SeqInv'
<1> SUFFICES ASSUME "overlap" \notin upset' PROVE SeqInv'
  BY DEF SeqInv
<1>1. Running = {}
  BY DEF Start
<1> DEFINE first == IF c.op \in {"enable", "disable"} THEN "filter?" ELSE "readSet"
           r == [pc |-> first, cmd |-> c, stage |-> "run",
                 at |-> IF c.dev = 0 THEN 1 ELSE c.dev, copy |-> ZeroConfig]
<1>2. r.pc \notin KnowingPcs /\ Becomes(p, r)
  BY DEF Start, KnowingPcs
<1> HIDE DEF r
<1>3. Knowing(r, cfg')
  BY <1>2 DEF Knowing, Fresh, KnowingPcs
<1>4. proc'[p] = r /\ \A q \in Processes \ {p} : proc'[q] = proc[q]
  BY <1>2 DEF Becomes, Inv, TypeOK
<1>5. \A q \in Processes : proc[q].pc = "idle"
  BY <1>1 DEF Running
<1>6. ASSUME NEW q \in Processes \ {p} PROVE proc'[q].pc = "idle" /\ Knowing(proc'[q], cfg')
  BY <1>4, <1>5 DEF Knowing, Fresh
<1> QED
  BY <1>3, <1>4, <1>6 DEF SeqInv, OneAtATime

\* It holds in every reachable state.
LEMMA SeqInvHolds == Spec => [](Inv /\ SeqInv)
<1>1. Init => SeqInv
  <2> SUFFICES ASSUME Init PROVE SeqInv
    OBVIOUS
  <2>1. \A p \in Processes : proc[p].pc = "idle"
    BY EndedTyped DEF Init
  <2> QED
    BY <2>1 DEF SeqInv, OneAtATime, Knowing, Fresh
<1>2. Inv /\ SeqInv /\ [Next]_vars => SeqInv'
  <2> SUFFICES ASSUME Inv, SeqInv, [Next]_vars, "overlap" \notin upset' PROVE SeqInv'
    BY DEF SeqInv
  <2>1. "overlap" \notin upset
    BY UpsetGrows
  <2>2. CASE UNCHANGED vars
    BY <2>2 DEF vars, hostVars, SeqInv, OneAtATime
  <2> QED
    BY <2>1, <2>2, StartSeq, StepSeq DEF Next, Step
<1> QED
  BY <1>1, <1>2, InvHolds, PTL DEF Spec

-----------------------------------------------------------------------------
(* Settings that come through the files of /proc/qos only.                 *)

\* A process has set a part of the entry that its file does not show yet.
Keeping(op) == \E p \in Processes : proc[p].pc = "proc" /\ proc[p].cmd.op = op

BandwidthShown(c) ==
    shown.bandwidth # <<>> =>
      InForce(shown.bandwidth, <<DEFAULT_LOW_BANDWIDTH, DEFAULT_HIGH_BANDWIDTH>>,
              <<c.low_rate, c.high_rate>>)
WaterlineShown(c) ==
    shown.waterline # 0 => InForce(shown.waterline, DEFAULT_WATERLINE, c.water_line)

Steady == upset \subseteq {"early", "refused", "fork"}

\* As long as no device has been enabled nothing is set either, unless early, so that
\* InitCfgMap finds nothing else to take back.
ShownInv ==
    Steady =>
      /\ "early" \notin upset /\ cfg.interval = 0 =>
           cfg = ZeroConfig /\ shown.bandwidth = <<>> /\ shown.waterline = 0
      /\ Keeping("bandwidth") \/ BandwidthShown(cfg)
      /\ Keeping("waterline") \/ WaterlineShown(cfg)

\* A step that changes neither the entry nor a file.
LEMMA ShownSame ==
    ASSUME Inv, ShownInv, NEW p \in Processes, proc[p].pc # "proc", NEW r, Becomes(p, r),
           cfg' = cfg, shown' = shown, upset \subseteq upset'
    PROVE  ShownInv'
<1>1. ASSUME NEW op, Keeping(op) PROVE Keeping(op)'
  <2>1. PICK q \in Processes : proc[q].pc = "proc" /\ proc[q].cmd.op = op
    BY <1>1 DEF Keeping
  <2>2. proc'[q] = proc[q]
    BY <2>1 DEF Becomes, Inv, TypeOK
  <2> QED
    BY <2>1, <2>2 DEF Keeping
<1>2. Steady' => Steady
  BY DEF Steady
<1>3. (BandwidthShown(cfg) => BandwidthShown(cfg)') /\ (WaterlineShown(cfg) => WaterlineShown(cfg)')
  BY DEF BandwidthShown, WaterlineShown, InForce
<1> QED
  BY <1>1, <1>2, <1>3 DEF ShownInv

\* What the rates and the waterline of an entry are after a setting.
LEMMA ChangedParts ==
    ASSUME NEW e \in Configs, NEW c
    PROVE  /\ c.op = "bandwidth" => /\ Changed(e, c).low_rate = c.low
                                    /\ Changed(e, c).high_rate = c.high
                                    /\ Changed(e, c).water_line = e.water_line
           /\ c.op # "bandwidth" => /\ Changed(e, c).water_line = c.high
                                    /\ Changed(e, c).low_rate = e.low_rate
                                    /\ Changed(e, c).high_rate = e.high_rate
BY DEF Changed, Configs

\* A setting written through a file is about to be shown there.
LEMMA UpdateShown ==
    ASSUME Inv, SeqInv, ShownInv, Steady, Steady', NEW p \in Processes, SetUpdate(p)
    PROVE  ShownInv'
<1> DEFINE c == proc[p].cmd
<1>0. proc[p].pc = "update" /\ shown' = shown
  BY DEF SetUpdate, At, TcOnly
<1>u. "overlap" \notin upset /\ upset \subseteq upset'
  BY DEF Steady, SetUpdate
<1>1. CASE Becomes(p, Ended) /\ cfg' = cfg
  BY <1>0, <1>1, <1>u, ShownSame
<1>2. CASE /\ cfg' = proc[p].copy /\ SetDone(p) /\ c.via # "shell"
           /\ cfg'.interval = 0 => "early" \in upset'
  <2>1. cfg' = Changed(cfg, c) /\ cfg \in Configs /\ proc[p] \in ProcStates
    BY <1>0, <1>2, <1>u DEF SeqInv, Knowing, Fresh, Inv, TypeOK
  <2>2. c \in Commands /\ c.op \in {"bandwidth", "waterline"}
    BY <1>0 DEF Inv, Setting, SettingPcs
  <2>3. c.via = "proc"
    BY <1>2, <2>2 DEF Commands
  <2>4. Becomes(p, [proc[p] EXCEPT !.pc = "proc"])
    BY <1>2, <2>3 DEF SetDone, Goto
  <2>5. ASSUME NEW CONSTANT op, c.op = op PROVE Keeping(op)'
    <3> DEFINE r == [proc[p] EXCEPT !.pc = "proc"]
    <3>1. r.pc = "proc" /\ r.cmd = c
      BY <2>1 DEF ProcStates
    <3>2. proc'[p] = r
      BY <2>4 DEF Becomes, Inv, TypeOK
    <3> HIDE DEF r
    <3> QED
      BY <2>5, <3>1, <3>2 DEF Keeping
  <2>6. ~Keeping("bandwidth") /\ ~Keeping("waterline")
    <3>1. ASSUME NEW q \in Processes, proc[q].pc = "proc" PROVE q = p
      BY <1>0, <1>u, <3>1 DEF SeqInv, OneAtATime
    <3> QED
      BY <1>0, <3>1 DEF Keeping
  <2>7. BandwidthShown(cfg) /\ WaterlineShown(cfg)
    BY <2>6 DEF ShownInv
  <2>8. CASE c.op = "bandwidth"
    <3>1. cfg'.water_line = cfg.water_line
      BY <2>1, <2>8, ChangedParts
    <3>2. WaterlineShown(cfg)'
      BY <1>0, <1>u, <2>7, <3>1 DEF WaterlineShown, InForce
    <3> QED
      BY <1>2, <2>5, <2>8, <3>2 DEF ShownInv
  <2>9. CASE c.op = "waterline"
    <3>1. cfg'.low_rate = cfg.low_rate /\ cfg'.high_rate = cfg.high_rate
      BY <2>1, <2>9, ChangedParts
    <3>2. BandwidthShown(cfg)'
      BY <1>0, <1>u, <2>7, <3>1 DEF BandwidthShown, InForce
    <3> QED
      BY <1>2, <2>5, <2>9, <3>2 DEF ShownInv
  <2> QED
    BY <2>2, <2>8, <2>9
<1> QED
  BY <1>1, <1>2 DEF SetUpdate, Steady

\* The file shows what has been written.
LEMMA KeepsShown ==
    ASSUME Inv, SeqInv, ShownInv, Steady, NEW p \in Processes, ProcKeeps(p)
    PROVE  ShownInv'
<1> DEFINE c == proc[p].cmd
<1>0. proc[p].pc = "proc" /\ cfg' = cfg /\ cfg \in Configs
  BY DEF ProcKeeps, At, hostVars, Inv, TypeOK
<1>u. "overlap" \notin upset /\ upset' = upset
  BY DEF Steady, ProcKeeps, Ran
<1>s. shown \in [bandwidth : (Nat \X Nat) \union {<<>>}, waterline : Nat]
  BY DEF Inv, TypeOK
<1>1. c \in Commands /\ c.op \in {"bandwidth", "waterline"}
  BY <1>0 DEF Inv, Setting, SettingPcs
<1>2. Changed(cfg, c) = cfg /\ Valid(c)
  BY <1>0, <1>u DEF SeqInv, Knowing, Fresh
<1>3. ASSUME NEW q \in Processes, proc[q].pc = "proc" PROVE q = p
  BY <1>0, <1>u, <1>3 DEF SeqInv, OneAtATime
<1>4. CASE c.op = "bandwidth"
  <2>1. cfg.low_rate = c.low /\ cfg.high_rate = c.high
    BY <1>0, <1>2, <1>4, ChangedParts
  <2>2. shown' = [shown EXCEPT !.bandwidth = <<c.low, c.high>>]
    BY <1>4 DEF ProcKeeps
  <2>3. shown'.bandwidth = <<c.low, c.high>> /\ shown'.waterline = shown.waterline
    BY <1>s, <2>2
  <2>4. WaterlineShown(cfg)
    BY <1>3, <1>4 DEF ShownInv, Keeping
  <2>5. cfg # ZeroConfig
    <3>1. LOWEST_BANDWIDTH <= c.low /\ LOWEST_BANDWIDTH \in Nat \ {0}
      BY <1>2, <1>4, BwmcliAssumption DEF Valid
    <3>2. c.low # 0
      BY <3>1
    <3> QED
      BY <2>1, <3>2 DEF ZeroConfig
  <2>6. ~("early" \notin upset /\ cfg.interval = 0)
    BY <2>5 DEF ShownInv
  <2>7. BandwidthShown(cfg)' /\ WaterlineShown(cfg)'
    BY <1>0, <1>u, <2>1, <2>3, <2>4 DEF BandwidthShown, WaterlineShown, InForce
  <2> QED
    BY <1>0, <1>u, <2>6, <2>7 DEF ShownInv
<1>5. CASE c.op = "waterline"
  <2>1. cfg.water_line = c.high
    BY <1>0, <1>2, <1>5, ChangedParts
  <2>2. shown' = [shown EXCEPT !.waterline = c.high]
    BY <1>5 DEF ProcKeeps
  <2>3. shown'.waterline = c.high /\ shown'.bandwidth = shown.bandwidth
    BY <1>s, <2>2
  <2>4. BandwidthShown(cfg)
    BY <1>3, <1>5 DEF ShownInv, Keeping
  <2>5. "early" \notin upset /\ cfg.interval = 0 =>
          cfg = ZeroConfig /\ c.high = 0 /\ shown.bandwidth = <<>>
    BY <2>1 DEF ShownInv, ZeroConfig
  <2>7. BandwidthShown(cfg)' /\ WaterlineShown(cfg)'
    BY <1>0, <1>u, <2>1, <2>3, <2>4 DEF BandwidthShown, WaterlineShown, InForce
  <2> QED
    BY <1>0, <1>u, <2>3, <2>5, <2>7 DEF ShownInv
<1> QED
  BY <1>1, <1>4, <1>5

\* InitCfgMap writes the defaults only over an entry that nothing has set, or only early.
LEMMA InitCfgShown ==
    ASSUME Inv, SeqInv, ShownInv, Steady, NEW p \in Processes,
           InitCfgMapUpdateCfg(p)
    PROVE  ShownInv'
<1>0. proc[p].pc = "initCfg" /\ shown' = shown
  BY DEF InitCfgMapUpdateCfg, At, TcOnly
<1>u. "overlap" \notin upset /\ upset' = upset
  BY DEF Steady, InitCfgMapUpdateCfg, Ran
<1>1. CASE ClearUnchanged(p)
  BY <1>0, <1>1, <1>u, ShownSame DEF ClearUnchanged, Clear, hostVars
<1>2. CASE cfg' = proc[p].copy
  <2>1. cfg' = DefaultConfig /\ cfg.interval = 0
    BY <1>0, <1>2, <1>u DEF SeqInv, Knowing
  <2>2. /\ cfg'.interval = 1 /\ cfg'.water_line = DEFAULT_WATERLINE
        /\ cfg'.low_rate = DEFAULT_LOW_BANDWIDTH /\ cfg'.high_rate = DEFAULT_HIGH_BANDWIDTH
    BY <2>1 DEF DefaultConfig
  <2>3. \/ shown.bandwidth = <<>> /\ shown.waterline = 0
        \/ "early" \in upset
    BY <2>1 DEF ShownInv
  <2>4. BandwidthShown(cfg)' /\ WaterlineShown(cfg)'
    BY <1>0, <1>u, <2>2, <2>3 DEF BandwidthShown, WaterlineShown, InForce
  <2> QED
    BY <2>2, <2>4 DEF ShownInv
<1> QED
  BY <1>1, <1>2 DEF InitCfgMapUpdateCfg

\* The other steps change neither the entry nor a file.
LEMMA StepShown ==
    ASSUME Inv, SeqInv, ShownInv, NEW p \in Processes, Step(p)
    PROVE  ShownInv'
<1>1. Moves(p) /\ upset \subseteq upset'
  BY StepMoves
<1> SUFFICES ASSUME Steady' PROVE ShownInv'
  BY DEF ShownInv
<1>2. Steady /\ \E r : Becomes(p, r)
  BY <1>1 DEF Moves, Steady
<1>3. CASE InitCfgMapUpdateCfg(p) \/ SetUpdate(p) \/ ProcKeeps(p)
  BY <1>2, <1>3, InitCfgShown, UpdateShown, KeepsShown
<1>4. CASE NetdevEnabledCalls(p) \/ CheckDefaultTc(p) \/ InitCfgMapReadCfg(p) \/ SetRead(p)
  <2>1. LooksOnly /\ proc[p].pc # "proc"
    BY <1>4 DEF NetdevEnabledCalls, NetdevEnabledFilter, NetdevEnabledFq, CheckDefaultTc,
                InitCfgMapReadCfg, SetRead, At
  <2> QED
    BY <1>1, <1>2, <2>1, ShownSame DEF LooksOnly, hostVars
<1>5. CASE \/ EnableDelRoot(p) \/ EnableDelClsact(p) \/ EnableAddFq(p)
           \/ EnableAddClsact(p) \/ EnableAddFilter(p)
  <2>1. TcOnly /\ cfg' = cfg
    BY <1>5 DEF EnableDelRoot, EnableDelClsact, EnableAddFq, EnableAddClsact, EnableAddFilter,
                Tc, ClearUnchanged, hostVars
  <2>2. proc[p].pc # "proc"
    BY <1>5 DEF EnableDelRoot, EnableDelClsact, EnableAddFq, EnableAddClsact, EnableAddFilter, At
  <2> QED
    BY <1>1, <1>2, <2>1, <2>2, ShownSame DEF TcOnly
<1>6. CASE Disable(p)
  <2>1. TcOnly /\ cfg' = cfg /\ proc[p].pc # "proc"
    BY <1>6 DEF Disable, DisableDelFilter, DisableDelClsact, DisableDelRoot, DisableFails,
                Refused, Tc, hostVars, At
  <2> QED
    BY <1>1, <1>2, <2>1, ShownSame DEF TcOnly
<1>7. CASE Kill(p)
  BY <1>7 DEF Kill, Fault, Steady
<1> QED
  BY <1>3, <1>4, <1>5, <1>6, <1>7 DEF Step, Enable, Set

\* While commands come one at a time, none is killed and settings are made through the
\* files of /proc/qos, what the files show is what is configured, for any number of
\* devices and any limits, whatever tc refuses and whichever shells fail.  Only a
\* setting made before the first enable has succeeded may be back at the default.
THEOREM ShownStaysInForce == Spec => []ShownInForce
<1>1. Init => ShownInv
  BY DEF Init, ShownInv, BandwidthShown, WaterlineShown
<1>2. Inv /\ SeqInv /\ ShownInv /\ [Next]_vars => ShownInv'
  <2> SUFFICES ASSUME Inv, SeqInv, ShownInv, [Next]_vars PROVE ShownInv'
    OBVIOUS
  <2>1. CASE UNCHANGED vars
    BY <2>1 DEF vars, hostVars, ShownInv, Steady, Keeping, BandwidthShown, WaterlineShown, InForce
  <2>2. ASSUME NEW p \in Processes, NEW c \in Commands, Start(p, c) PROVE ShownInv'
    <3>1. Moves(p) /\ upset \subseteq upset'
      BY <2>2, StartMoves DEF Inv
    <3>2. proc[p].pc # "proc" /\ cfg' = cfg /\ shown' = shown /\ \E r : Becomes(p, r)
      BY <2>2, <3>1 DEF Start, hostVars, Moves
    <3> QED
      BY <3>1, <3>2, ShownSame
  <2> QED
    BY <2>1, <2>2, StepShown DEF Next, Step
<1>3. ShownInv => ShownInForce
  <2> SUFFICES ASSUME ShownInv, Steady, Running = {}
               PROVE  BandwidthShown(cfg) /\ WaterlineShown(cfg)
    BY DEF ShownInForce, BandwidthShown, WaterlineShown, Steady
  <2> QED
    BY DEF ShownInv, Keeping, Running
<1> QED
  BY <1>1, <1>2, <1>3, SeqInvHolds, PTL DEF Spec
=============================================================================
