----------------------------- MODULE AlgDaemon -----------------------------
(***************************************************************************)
(* alg-daemon's bandwidth manager for one direction: the loop DaemonProc.  *)
(* Run of cmd/alg-daemon/algproc/daemon_proc.go.  Every cycle it reads the *)
(* statistics and the configurations of all objects (pods, flows, and the  *)
(* default stream with id 0) out of the BPF arrays, moves the request rate *)
(* of every active object towards what the object uses, hands what is left *)
(* of the link to some of the objects, and writes all configurations back. *)
(*                                                                         *)
(* The arrays are shared with the data path, which measures rates, and     *)
(* with bwm-daemon, which enters and clears configurations.  The reads and *)
(* the write are batches over the whole array, one step each; the work on  *)
(* the copies in between touches nothing shared, and is divided into the   *)
(* first loop (one step) and the rounds of the second.  A failed read      *)
(* starts the cycle again and changes nothing.                             *)
(*                                                                         *)
(* Rates are in units of the model.  A rate counts once: in a cycle that   *)
(* finds the T_start of the cycle before, the sampling period has not      *)
(* ended since, and the rate counts as 0.                                  *)
(***************************************************************************)
EXTENDS Integers, FiniteSets, FiniteSetsExt

CONSTANTS
    N,             \* objects are 0..N-1 (MaxObjSize is 5000)
    TotalBw,       \* rate of the link
    MinBandwidth,  \* floor of an adjusted request
    Pace,          \* a request moves by 1/Pace of itself
    Ratio,         \* tenths of the request below which it is reduced (7)
    Rates,         \* rates the data path may measure
    Requests,      \* QoS requests bwm-daemon may enter: [priority, request]
    DefaultRequest,\* what a request of 0 becomes (10)
    DefaultPercent,\* the default stream gets 1/DefaultPercent of the link
    MaxWrites,     \* bound on bwm-daemon's writes
    Concurrent     \* may the arrays change while a cycle is under way?

Objs == 0..(N - 1)
Priorities == 0..2

ASSUME AlgAssumption ==
    /\ N \in Nat \ {0}
    /\ TotalBw \in Nat /\ MinBandwidth \in Nat
    /\ Pace \in Nat \ {0} /\ Ratio \in 0..10
    /\ Rates \subseteq Nat
    /\ Requests \subseteq [priority : Priorities, request : Nat]
    /\ DefaultRequest \in Nat \ {0}
    /\ DefaultPercent \in Nat \ {0}
    /\ MaxWrites \in Nat
    /\ Concurrent \in BOOLEAN

DownReqRate == 0
NeedReachLowRate == 1
ReachedLowRate == 2

PriorityAllocPercent == [p \in Priorities |-> CASE p = 0 -> 10
                                                [] p = 1 -> 20
                                                [] p = 2 -> 70]

\* The sum of f[x] over the x of a finite set.
SumOver(f, S) == MapThenSumSet(LAMBDA x : f[x], S)

Cfgs == [priority : Priorities, lowRate : Nat, reqRate : Nat]
ZeroCfg == [priority |-> 0, lowRate |-> 0, reqRate |-> 0]

VARIABLES
    cfgMap,    \* the configuration array
    rateMap,   \* the rates in the statistics array, 0 when its T_start is known
    granted,   \* the configuration bwm-daemon last entered for an object
    writes,    \* writes of bwm-daemon so far
    pc,        \* next step of the cycle
    cfg,       \* procData.ThrottleCfg, the cycle's copy
    seen,      \* history: that copy as it was read
    rate,      \* procData.ThrottleStat[].Rate, likewise
    status,    \* procData.ObjStatus after the first loop
    remainBw, remainBwVary,
    priorityCnt, lowRateReachCnt, downReqRateCnt,
    allReached,\* AllObjStatus = AllReachedLowRate
    allocDivide,
    id         \* the object of the second loop's round

mapVars == <<cfgMap, rateMap, granted, writes>>
countVars == <<remainBw, remainBwVary, priorityCnt, lowRateReachCnt,
               downReqRateCnt, allReached, allocDivide>>
cycleVars == <<pc, cfg, seen, rate, status, countVars, id>>
vars == <<mapVars, cycleVars>>

Active == {o \in Objs : rate[o] > 0}
ValidObjCnt == Cardinality(Active)

TypeOK ==
    /\ cfgMap \in [Objs -> Cfgs]
    /\ rateMap \in [Objs -> Nat]
    /\ granted \in [Objs -> Cfgs]
    /\ writes \in 0..MaxWrites
    /\ pc \in {"readStat", "readCfg", "adjust", "share", "write"}
    /\ cfg \in [Objs -> Cfgs] /\ seen \in [Objs -> Cfgs]
    /\ rate \in [Objs -> Nat]
    /\ status \in [Objs -> 0..2]
    /\ remainBw \in Int /\ remainBwVary \in Int
    /\ priorityCnt \in [Priorities -> Nat]
    /\ lowRateReachCnt \in Nat /\ downReqRateCnt \in Nat
    /\ allReached \in BOOLEAN
    /\ allocDivide \in Nat
    /\ id \in Objs

\* AddEgressConfig and AddIngressConfig: what a request becomes in the array.
ThrottleCfg(q) ==
    LET r == IF q.request = 0 THEN DefaultRequest ELSE q.request
    IN [priority |-> q.priority, lowRate |-> r, reqRate |-> r]

\* The locals of a cycle before its first step.
FreshLocals ==
    /\ cfg = [o \in Objs |-> ZeroCfg] /\ seen = [o \in Objs |-> ZeroCfg]
    /\ rate = [o \in Objs |-> 0]
    /\ status = [o \in Objs |-> DownReqRate]
    /\ remainBw = 0 /\ remainBwVary = 0
    /\ priorityCnt = [p \in Priorities |-> 0]
    /\ lowRateReachCnt = 0 /\ downReqRateCnt = 0
    /\ allReached = FALSE
    /\ allocDivide = 0
    /\ id = 0

\* runAlg has entered the default stream's configuration, a part of the link at
\* the lowest priority; the other objects have none.
DefaultFlowConfig == [priority |-> 0, request |-> TotalBw \div DefaultPercent]

Init ==
    /\ cfgMap = [o \in Objs |->
                   IF o = 0 THEN ThrottleCfg(DefaultFlowConfig) ELSE ZeroCfg]
    /\ granted = cfgMap
    /\ rateMap = [o \in Objs |-> 0]
    /\ writes = 0
    /\ pc = "readStat"
    /\ FreshLocals

-----------------------------------------------------------------------------
(* The other users of the arrays.                                          *)

\* When ~Concurrent, the others act between two cycles only.  For Sample this
\* loses nothing: only BatchReadThrottleStat reads what it writes.
Turn == Concurrent \/ pc = "readStat"

\* The data path closes a sampling period of an object.
Sample(o) ==
    /\ Turn
    /\ \E r \in Rates : rateMap' = [rateMap EXCEPT ![o] = r]
    /\ UNCHANGED <<cfgMap, granted, writes>>
    /\ UNCHANGED cycleVars

DaemonMayWrite == Turn /\ writes < MaxWrites

\* SetQos or SetFlow of bwm-daemon enters an object's configuration; it never
\* gives out the id of the default stream.
AddConfig(o) ==
    /\ DaemonMayWrite
    /\ \E q \in Requests :
         /\ cfgMap' = [cfgMap EXCEPT ![o] = ThrottleCfg(q)]
         /\ granted' = [granted EXCEPT ![o] = ThrottleCfg(q)]
    /\ writes' = writes + 1
    /\ UNCHANGED rateMap
    /\ UNCHANGED cycleVars

\* UnSetQos or UnSetFlow zeroes its statistics and its configuration.
ClearConfig(o) ==
    /\ DaemonMayWrite
    /\ cfgMap' = [cfgMap EXCEPT ![o] = ZeroCfg]
    /\ granted' = [granted EXCEPT ![o] = ZeroCfg]
    /\ rateMap' = [rateMap EXCEPT ![o] = 0]
    /\ writes' = writes + 1
    /\ UNCHANGED cycleVars

-----------------------------------------------------------------------------
(* lookupEdtProcData.                                                      *)

BatchReadThrottleStat ==
    /\ pc = "readStat"
    /\ rate' = rateMap
    /\ rateMap' = [o \in Objs |-> 0]
    /\ pc' = "readCfg"
    /\ UNCHANGED <<cfgMap, granted, writes>>
    /\ UNCHANGED <<cfg, seen, status, countVars, id>>

BatchReadThrottleCfg ==
    /\ pc = "readCfg"
    /\ cfg' = cfgMap /\ seen' = cfgMap
    /\ pc' = "adjust"
    /\ UNCHANGED <<mapVars, rate, status, countVars, id>>

-----------------------------------------------------------------------------
(* The first loop: allocMinRate for every active object.                   *)

Clip(val, min, max) == IF val < min THEN min ELSE IF val > max THEN max ELSE val

\* An object that uses less than Ratio of its request loses 1/Pace of it.
Underused(curRate, reqRate) == curRate * 10 < reqRate * Ratio

AllocMinRate(curRate, reqRate, lowRate) ==
    IF Underused(curRate, reqRate)
    THEN Clip(reqRate - reqRate \div Pace, MinBandwidth, reqRate)
    ELSE Clip(reqRate + reqRate \div Pace, MinBandwidth, lowRate)

AllocState(curRate, reqRate, lowRate) ==
    IF Underused(curRate, reqRate) THEN DownReqRate
    ELSE IF AllocMinRate(curRate, reqRate, lowRate) < lowRate
         THEN NeedReachLowRate
         ELSE ReachedLowRate

AllReachedTest(reached, down) ==
    \/ reached = ValidObjCnt
    \/ reached + down = ValidObjCnt

NewReqRate(o) == AllocMinRate(rate[o], cfg[o].reqRate, cfg[o].lowRate)
NewStatus(o) == AllocState(rate[o], cfg[o].reqRate, cfg[o].lowRate)

NewReqRates == [o \in Objs |-> NewReqRate(o)]

RemainIgnoringDown ==
    TotalBw - SumOver(NewReqRates, {o \in Active : NewStatus(o) # DownReqRate})

\* What the adjusted requests leave of the link; negative when they exceed it.
Remain == TotalBw - SumOver(NewReqRates, Active)

Adjust ==
    /\ pc = "adjust"
    /\ LET having(s) == {o \in Active : NewStatus(o) = s}
           counted(p) == {o \in Active :
                            cfg[o].priority = p /\ NewStatus(o) # DownReqRate}
           reached == Cardinality(having(ReachedLowRate))
           down == Cardinality(having(DownReqRate))
       IN /\ cfg' = [o \in Objs |->
                       IF o \in Active
                       THEN [cfg[o] EXCEPT !.reqRate = NewReqRate(o)] ELSE cfg[o]]
          /\ status' = [o \in Objs |->
                          IF o \in Active THEN NewStatus(o) ELSE DownReqRate]
          /\ remainBw' = Remain
          /\ remainBwVary' = Remain
          /\ priorityCnt' = [p \in Priorities |-> Cardinality(counted(p))]
          /\ lowRateReachCnt' = reached
          /\ downReqRateCnt' = down
          /\ allReached' = AllReachedTest(reached, down)
          /\ allocDivide' = SumOver(PriorityAllocPercent,
                                    {p \in Priorities : counted(p) # {}})
    /\ pc' = "share"
    /\ UNCHANGED <<mapVars, seen, rate, id>>

-----------------------------------------------------------------------------
(* The second loop, one round per object in the order of the ids.          *)

SatedWhateverStatus(o) == rate[o] < (cfg[o].reqRate * 7) \div 10

\* An object that has not reached its low rate and leaves much of its request
\* unused gets no share: from here on it counts as one that has reached it.
Sated(o) ==
    /\ status[o] = NeedReachLowRate
    /\ rate[o] < (cfg[o].reqRate * 7) \div 10

NextRoundPastEnd == IF id = N THEN pc' = "write" /\ UNCHANGED id
                    ELSE id' = id + 1 /\ UNCHANGED pc

NextRound == IF id = N - 1 THEN pc' = "write" /\ UNCHANGED id
             ELSE id' = id + 1 /\ UNCHANGED pc

SkipSated ==
    /\ pc = "share"
    /\ Sated(id)
    /\ priorityCnt' = [priorityCnt EXCEPT ![cfg[id].priority] = @ - 1]
    /\ lowRateReachCnt' = lowRateReachCnt + 1
    /\ allReached' = (allReached \/ AllReachedTest(lowRateReachCnt + 1, downReqRateCnt))
    /\ NextRound
    /\ UNCHANGED <<mapVars, cfg, seen, rate, status>>
    /\ UNCHANGED <<remainBw, remainBwVary, downReqRateCnt, allocDivide>>

\* While some object is below its low rate, only such objects get shares.
SharesBelowLow(o) ==
    remainBw > 0 /\ status[o] = NeedReachLowRate /\ ~allReached

SharesByPriorityAlways(o) == remainBw > 0 /\ status[o] = ReachedLowRate

\* Then the objects that have reached it share by priority.
SharesByPriority(o) ==
    remainBw > 0 /\ status[o] = ReachedLowRate /\ allReached

BelowLowDivisor == ValidObjCnt - lowRateReachCnt - downReqRateCnt

Share(o) ==
    IF SharesBelowLow(o)
    THEN remainBw \div BelowLowDivisor + 1
    ELSE IF SharesByPriority(o)
    THEN LET prio == cfg[o].priority
         IN ((remainBw * PriorityAllocPercent[prio]) \div allocDivide)
              \div priorityCnt[prio] + 1
    ELSE 0

HandShare ==
    /\ pc = "share"
    /\ ~Sated(id)
    /\ cfg' = [cfg EXCEPT ![id].reqRate = @ + Share(id)]
    /\ remainBwVary' = remainBwVary - Share(id)
    /\ IF remainBwVary' <= 0 THEN pc' = "write" /\ UNCHANGED id ELSE NextRound
    /\ UNCHANGED <<mapVars, seen, rate, status, remainBw, priorityCnt>>
    /\ UNCHANGED <<lowRateReachCnt, downReqRateCnt, allReached, allocDivide>>

\* updateThrottleCfg: all configurations are written, as they were read and
\* then adjusted.
BatchWriteThrottleCfg ==
    /\ pc = "write"
    /\ cfgMap' = cfg
    /\ pc' = "readStat"
    /\ cfg' = [o \in Objs |-> ZeroCfg] /\ seen' = [o \in Objs |-> ZeroCfg]
    /\ rate' = [o \in Objs |-> 0]
    /\ status' = [o \in Objs |-> DownReqRate]
    /\ remainBw' = 0 /\ remainBwVary' = 0
    /\ priorityCnt' = [p \in Priorities |-> 0]
    /\ lowRateReachCnt' = 0 /\ downReqRateCnt' = 0
    /\ allReached' = FALSE
    /\ allocDivide' = 0
    /\ id' = 0
    /\ UNCHANGED <<rateMap, granted, writes>>

Cycle ==
    \/ BatchReadThrottleStat \/ BatchReadThrottleCfg \/ Adjust
    \/ SkipSated \/ HandShare \/ BatchWriteThrottleCfg

Next ==
    \/ Cycle
    \/ \E o \in Objs : Sample(o)
    \/ \E o \in Objs \ {0} : AddConfig(o) \/ ClearConfig(o)

\* The loop never blocks, and a sampling period of an object with traffic ends.
Spec == Init /\ [][Next]_vars /\ WF_vars(Cycle)

-----------------------------------------------------------------------------
\* The two divisions of the second loop never divide by zero, though the counts
\* they divide by change while the loop runs: a panic there ends alg-daemon.
NoDivideByZero ==
    pc = "share" /\ ~Sated(id) =>
      /\ SharesBelowLow(id) => BelowLowDivisor > 0
      /\ SharesByPriority(id) => /\ allocDivide > 0
                                 /\ priorityCnt[cfg[id].priority] > 0

\* The shares of a cycle never promise more than the link has left, up to the
\* one unit by which every share is rounded up.
Committed == SumOver([o \in Objs |-> cfg[o].reqRate], Active)
NoOvercommit ==
    pc = "write" =>
      IF remainBw > 0 THEN Committed <= TotalBw + ValidObjCnt
      ELSE Committed = TotalBw - remainBw

\* The guarantee comes first: in a cycle in which some active object is below its
\* low rate and uses its bandwidth, no object that has reached its own low rate
\* gets a share of what is left.
ReadReqRate(o) == AllocMinRate(rate[o], seen[o].reqRate, seen[o].lowRate)
Needy(o) == status[o] = NeedReachLowRate /\ rate[o] >= (ReadReqRate(o) * 7) \div 10
GuaranteeFirst ==
    pc = "write" /\ (\E o \in Active : Needy(o))
      => \A o \in Active :
           status[o] = ReachedLowRate => cfg[o].reqRate = ReadReqRate(o)

\* tc_edt.h: low_rate is "the guaranteed minimum bandwidth" of the object: it
\* stays what bwm-daemon entered.
GuaranteeKept == \A o \in Objs : cfgMap[o].lowRate = granted[o].lowRate
=============================================================================
