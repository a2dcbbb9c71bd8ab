---------------------------- MODULE TcEdtProofs ----------------------------
(***************************************************************************)
(* Proofs about TcEdt, for any number of CPUs, packets and stamps: the     *)
(* types, the bytes accounted for, the pacing, and the bound on what waits.*)
(***************************************************************************)
EXTENDS TcEdt, FiniteSetTheorems, TLAPS

\* The CPUs whose packet is at one of the steps K.
At(K) == {c \in CPUs : pc[c] \in K}
ToCount == {"init", "account"}
ToLeave == {"schedule", "commit"}

\* Packets are counted before they leave, and before their bytes are.
Counted ==
    /\ total_pkts + Cardinality(At(ToCount)) <= MaxPkts
    /\ departed + Cardinality(At(ToLeave)) <= total_pkts
    /\ tx_bytes <= total_pkts

\* A sampling period has a length.
PeriodPositive == \A c \in CPUs : pc[c] = "rate" => tPast[c] > 0

TypeInv == TypeOK /\ Counted /\ PeriodPositive

-----------------------------------------------------------------------------
(* Arithmetic and counting.                                                *)

LEMMA DivNat == \A a \in Nat, b \in Nat \ {0} : a \div b \in Nat
  OBVIOUS

LEMMA ModRange == \A a \in Int, b \in Nat \ {0} : a % b \in 0..(b - 1)
  OBVIOUS

LEMMA MulNat == \A a, b \in Nat : a * b \in Nat
  OBVIOUS

LEMMA Finite ==
  ASSUME NEW A \in SUBSET CPUs
  PROVE  IsFiniteSet(A) /\ Cardinality(A) \in 0..Cardinality(CPUs) /\ Cardinality(CPUs) \in Nat
  BY FS_Subset, FS_CardinalityType, TcEdtAssumption

\* One more and one less in a set of CPUs.
LEMMA CountStep ==
  ASSUME NEW A \in SUBSET CPUs, NEW c \in CPUs
  PROVE  /\ c \notin A => Cardinality(A \union {c}) = Cardinality(A) + 1
         /\ c \in A => Cardinality(A \ {c}) = Cardinality(A) - 1
  BY Finite, FS_AddElement, FS_RemoveElement

\* How many CPUs are at the steps K when one of them moves.
LEMMA AtStep ==
  ASSUME pc \in [CPUs -> Steps], NEW c \in CPUs, NEW s, NEW K,
         pc' = [pc EXCEPT ![c] = s]
  PROVE  /\ Cardinality(At(K)) \in Nat
         /\ pc[c] \notin K /\ s \in K => Cardinality(At(K)') = Cardinality(At(K)) + 1
         /\ pc[c] \in K /\ s \notin K => Cardinality(At(K)') = Cardinality(At(K)) - 1
         /\ (pc[c] \in K <=> s \in K) => Cardinality(At(K)') = Cardinality(At(K))
  <1>0. At(K) \in SUBSET CPUs
    BY DEF At
  <1>1. Cardinality(At(K)) \in Nat
    BY <1>0, Finite
  <1>2. ASSUME pc[c] \notin K, s \in K PROVE At(K)' = At(K) \union {c} /\ c \notin At(K)
    BY <1>2 DEF At
  <1>3. ASSUME pc[c] \in K, s \notin K PROVE At(K)' = At(K) \ {c} /\ c \in At(K)
    BY <1>3 DEF At
  <1>4. ASSUME pc[c] \in K <=> s \in K PROVE At(K)' = At(K)
    BY <1>4 DEF At
  <1>5. QED
    BY <1>0, <1>1, <1>2, <1>3, <1>4, CountStep

-----------------------------------------------------------------------------
(* The types.                                                              *)

Flags == /\ overlapped \in BOOLEAN /\ tcpSeen \in BOOLEAN /\ rewound \in BOOLEAN
         /\ cleared \in BOOLEAN

LEMMA FlagsStep ==
  ASSUME Flags, NEW c \in CPUs, Packet(c)
  PROVE  Flags'
  <1> USE DEF Flags
  <1>1. CASE Lookup(c)
    BY <1>1, Zenon DEF Lookup
  <1>2. CASE stat_init(c) \/ Commit(c) \/ UpdateRate(c)
    BY <1>2, Zenon DEF stat_init, Commit, UpdateRate
  <1>3. CASE \/ Account(c) \/ Schedule(c) \/ Drop(c) \/ ReadClock(c) \/ PeriodGoesOn(c)
             \/ PeriodEnds(c) \/ Reset(c)
    BY <1>3, Zenon DEF Account, Schedule, Drop, ReadClock, PeriodGoesOn, PeriodEnds,
                       Reset, history
  <1>4. QED
    BY <1>1, <1>2, <1>3 DEF Packet

LEMMA InitTypeInv == Init => TypeInv
  <1> SUFFICES ASSUME Init PROVE TypeInv
    OBVIOUS
  <1>0. Flags
    BY DEF Init, Flags
  <1>1. TypeOK
    BY <1>0, TcEdtAssumption DEF Init, TypeOK, Flags, Steps
  <1>2. At(ToCount) = {} /\ At(ToLeave) = {}
    BY DEF Init, At, ToCount, ToLeave
  <1>3. Counted
    BY <1>2, FS_EmptySet, TcEdtAssumption DEF Init, Counted
  <1>4. QED
    BY <1>1, <1>3 DEF Init, TypeInv, PeriodPositive

\* What is counted, in each step of a packet.
LEMMA CountedStep ==
  ASSUME TypeInv, NEW c \in CPUs, Packet(c)
  PROVE  Counted' /\ total_pkts' \in 0..MaxPkts /\ departed' \in 0..MaxPkts
                  /\ tx_bytes' \in 0..MaxPkts
  <1>0. /\ TypeOK /\ Counted /\ pc \in [CPUs -> Steps] /\ MaxPkts \in Nat
        /\ total_pkts \in Nat /\ departed \in Nat /\ tx_bytes \in Nat
    BY TcEdtAssumption DEF TypeInv, TypeOK
  <1>1. PICK s \in Steps : pc' = [pc EXCEPT ![c] = s]
    BY DEF Packet, Lookup, stat_init, Account, Schedule, Drop, Commit, ReadClock,
           PeriodGoesOn, PeriodEnds, UpdateRate, Reset, Steps
  <1>2. pc'[c] = s
    BY <1>0, <1>1
  <1> DEFINE n == Cardinality(At(ToCount))
             m == Cardinality(At(ToLeave))
             n1 == Cardinality(At(ToCount)')
             m1 == Cardinality(At(ToLeave)')
  <1>3. /\ n \in Nat /\ m \in Nat
        /\ pc[c] \notin ToCount /\ s \in ToCount => n1 = n + 1
        /\ pc[c] \in ToCount /\ s \notin ToCount => n1 = n - 1
        /\ (pc[c] \in ToCount <=> s \in ToCount) => n1 = n
        /\ pc[c] \notin ToLeave /\ s \in ToLeave => m1 = m + 1
        /\ pc[c] \in ToLeave /\ s \notin ToLeave => m1 = m - 1
        /\ (pc[c] \in ToLeave <=> s \in ToLeave) => m1 = m
    BY <1>0, <1>1, AtStep
  <1>4. /\ total_pkts + n <= MaxPkts /\ departed + m <= total_pkts
        /\ tx_bytes <= total_pkts
    BY <1>0 DEF Counted
  <1>n. /\ n \in Nat /\ m \in Nat /\ MaxPkts \in Nat
        /\ total_pkts \in Nat /\ departed \in Nat /\ tx_bytes \in Nat
    BY <1>0, <1>3
  <1>5. Counted' <=> /\ total_pkts' + n1 <= MaxPkts /\ departed' + m1 <= total_pkts'
                     /\ tx_bytes' <= total_pkts'
    BY DEF Counted, At, ToCount, ToLeave
  <1> HIDE DEF n, m, n1, m1
  <1> USE DEF ToCount, ToLeave
  <1>6. CASE Lookup(c)
    <2>1. total_pkts + n < MaxPkts
      BY <1>6 DEF Lookup, Counting, n, At
    <2>2. pc[c] = "idle" /\ s \in {"init", "account"}
      BY <1>0, <1>2, <1>6 DEF Lookup
    <2>3. n1 = n + 1 /\ m1 = m
      BY <1>3, <2>2
    <2>4. UNCHANGED <<total_pkts, departed, tx_bytes>>
      BY <1>6 DEF Lookup, stat
    <2>5. QED
      BY <1>n, <1>4, <1>5, <2>1, <2>3, <2>4
  <1>7. CASE stat_init(c)
    <2>1. n1 = n /\ m1 = m
      BY <1>0, <1>2, <1>3, <1>7 DEF stat_init
    <2>2. UNCHANGED <<total_pkts, departed>> /\ tx_bytes' = 0
      BY <1>7 DEF stat_init
    <2>3. QED
      BY <1>n, <1>4, <1>5, <2>1, <2>2
  <1>8. CASE Account(c)
    <2>1. n1 = n - 1 /\ m1 = m + 1
      BY <1>0, <1>2, <1>3, <1>8 DEF Account
    <2>2. UNCHANGED departed /\ total_pkts' = total_pkts + 1 /\ tx_bytes' = tx_bytes + 1
      BY <1>8 DEF Account, history
    <2>3. n >= 1
      <3>1. c \in At(ToCount)
        BY <1>8 DEF Account, At
      <3>2. At(ToCount) \in SUBSET CPUs
        BY DEF At
      <3>3. n # 0
        BY <3>1, <3>2, Finite, FS_EmptySet DEF n
      <3>4. QED
        BY <1>3, <3>3
    <2>4. QED
      BY <1>n, <1>4, <1>5, <2>1, <2>2, <2>3
  <1>9. CASE Schedule(c)
    <2>1. n1 = n /\ m1 = m
      BY <1>0, <1>2, <1>3, <1>9 DEF Schedule
    <2>2. UNCHANGED <<total_pkts, departed, tx_bytes>>
      BY <1>9 DEF Schedule, stat, history
    <2>3. QED
      BY <1>n, <1>4, <1>5, <2>1, <2>2
  <1>10. CASE Drop(c) \/ Commit(c)
    <2>1. n1 = n /\ m1 = m - 1
      BY <1>0, <1>2, <1>3, <1>10 DEF Drop, Commit
    <2>2. /\ total_pkts' = total_pkts /\ tx_bytes' = tx_bytes
          /\ departed' = departed \/ departed' = departed + 1
      BY <1>10 DEF Drop, Commit, stat, history
    <2>3. m >= 1
      <3>1. c \in At(ToLeave)
        BY <1>10 DEF Drop, Commit, At
      <3>2. At(ToLeave) \in SUBSET CPUs
        BY DEF At
      <3>3. m # 0
        BY <3>1, <3>2, Finite, FS_EmptySet DEF m
      <3>4. QED
        BY <1>3, <3>3
    <2>4. total_pkts <= MaxPkts
      BY <1>n, <1>4
    <2>5. CASE departed' = departed
      BY <1>n, <1>4, <1>5, <2>1, <2>2, <2>3, <2>4, <2>5
    <2>6. CASE departed' = departed + 1
      BY <1>n, <1>4, <1>5, <2>1, <2>2, <2>3, <2>4, <2>6
    <2>7. QED
      BY <2>2, <2>5, <2>6
  <1>11. CASE ReadClock(c) \/ PeriodGoesOn(c) \/ PeriodEnds(c) \/ UpdateRate(c) \/ Reset(c)
    <2> USE DEF ReadClock, PeriodGoesOn, PeriodEnds, UpdateRate, Reset
    <2>1. n1 = n /\ m1 = m
      BY <1>0, <1>2, <1>3, <1>11
    <2>2. UNCHANGED <<total_pkts, departed>> /\ tx_bytes' \in {tx_bytes, 0}
      BY <1>11 DEF stat, history
    <2>3. QED
      BY <1>n, <1>4, <1>5, <2>1, <2>2
  <1>12. QED
    BY <1>6, <1>7, <1>8, <1>9, <1>10, <1>11 DEF Packet

\* The unsigned difference.
LEMMA PastType ==
  ASSUME TypeOK, NEW c \in CPUs
  PROVE  Past(c) \in 0..(Word - 1)
  <1>1. tCur[c] - t_start \in Int /\ Word \in Nat \ {0}
    BY TcEdtAssumption DEF TypeOK
  <1>2. QED
    BY <1>1, ModRange DEF Past

ScalarsType ==
    /\ now \in 0..MaxTime
    /\ t_last \in Nat /\ t_start \in 0..MaxTime /\ rate \in Nat
    /\ departure \in Int /\ sampled \in Nat

LocalsType ==
    /\ pc \in [CPUs -> Steps]
    /\ kind \in [CPUs -> Kinds]
    /\ tLast \in [CPUs -> Nat] /\ tNext \in [CPUs -> Nat]
    /\ tCur \in [CPUs -> 0..MaxTime] /\ tPast \in [CPUs -> 0..(Word - 1)]

LEMMA ScalarsStep ==
  ASSUME TypeOK, PeriodPositive, NEW c \in CPUs, Packet(c)
  PROVE  ScalarsType'
  <1>0. /\ now \in 0..MaxTime /\ t_last \in Nat /\ t_start \in 0..MaxTime /\ rate \in Nat
        /\ departure \in Int /\ sampled \in Nat /\ tx_bytes \in Nat
        /\ tNext[c] \in Nat /\ tCur[c] \in 0..MaxTime /\ tPast[c] \in 0..(Word - 1)
        /\ Word \in Nat /\ Scale \in Nat /\ LowRate \in Nat
    BY TcEdtAssumption DEF TypeOK
  <1> USE DEF ScalarsType
  <1>1. CASE Lookup(c) \/ Account(c) \/ Schedule(c) \/ Drop(c)
    BY <1>0, <1>1 DEF Lookup, Account, Schedule, Drop, stat, history
  <1>2. CASE stat_init(c)
    BY <1>0, <1>2 DEF stat_init
  <1>3. CASE Commit(c)
    BY <1>0, <1>3 DEF Commit
  <1>4. CASE ReadClock(c) \/ PeriodGoesOn(c) \/ Reset(c)
    BY <1>0, <1>4 DEF ReadClock, PeriodGoesOn, Reset, stat, history
  <1>5. CASE PeriodEnds(c)
    BY <1>0, <1>5 DEF PeriodEnds, history
  <1>6. CASE UpdateRate(c)
    <2>1. tx_bytes * Scale \in Nat
      BY <1>0, MulNat
    <2>2. tPast[c] \in Nat \ {0}
      BY <1>0, <1>6 DEF UpdateRate, PeriodPositive
    <2>3. (tx_bytes * Scale) \div tPast[c] \in Nat
      BY <2>1, <2>2, DivNat
    <2>4. 7 * rate + (tx_bytes * Scale) \div tPast[c] \in Nat
      BY <1>0, <2>3
    <2>5. rate' \in Nat
      BY <1>6, <2>4, DivNat DEF UpdateRate
    <2>6. QED
      BY <1>0, <1>6, <2>5 DEF UpdateRate
  <1>7. QED
    BY <1>1, <1>2, <1>3, <1>4, <1>5, <1>6 DEF Packet

LEMMA LocalsStep ==
  ASSUME TypeOK, NEW c \in CPUs, Packet(c)
  PROVE  LocalsType'
  <1>0. LocalsType
    BY DEF TypeOK, LocalsType
  <1>1. /\ now \in 0..MaxTime /\ t_last \in Nat /\ Past(c) \in 0..(Word - 1)
        /\ 0 \in 0..MaxTime /\ 0 \in 0..(Word - 1)
    BY PastType, TcEdtAssumption DEF TypeOK
  <1> USE DEF LocalsType
  <1>2. pc' \in [CPUs -> Steps]
    BY <1>0 DEF Packet, Lookup, stat_init, Account, Schedule, Drop, Commit, ReadClock,
           PeriodGoesOn, PeriodEnds, UpdateRate, Reset, Steps
  <1>3. kind' \in [CPUs -> Kinds]
    BY <1>0 DEF Packet, Lookup, stat_init, Account, Schedule, Drop, Commit, ReadClock,
           PeriodGoesOn, PeriodEnds, UpdateRate, Reset
  <1>4. tLast' \in [CPUs -> Nat]
    BY <1>0, <1>1 DEF Packet, Lookup, stat_init, Account, Schedule, Drop, Commit,
           ReadClock, PeriodGoesOn, PeriodEnds, UpdateRate, Reset, locals
  <1>5. tNext' \in [CPUs -> Nat]
    <2>1. \A s \in Stamps : DepartureTime(now + s) \in Nat
      BY <1>1, TcEdtAssumption DEF DepartureTime, Later
    <2>2. CASE Schedule(c)
      BY <1>0, <2>1, <2>2 DEF Schedule
    <2>3. CASE ~Schedule(c)
      BY <1>0, <2>3 DEF Packet, Lookup, stat_init, Account, Drop, Commit,
           ReadClock, PeriodGoesOn, PeriodEnds, UpdateRate, Reset, locals
    <2>4. QED
      BY <2>2, <2>3
  <1>6. tCur' \in [CPUs -> 0..MaxTime]
    BY <1>0, <1>1 DEF Packet, Lookup, stat_init, Account, Schedule, Drop, Commit,
           ReadClock, PeriodGoesOn, PeriodEnds, UpdateRate, Reset, locals
  <1>7. tPast' \in [CPUs -> 0..(Word - 1)]
    BY <1>0, <1>1 DEF Packet, Lookup, stat_init, Account, Schedule, Drop, Commit,
           ReadClock, PeriodGoesOn, PeriodEnds, UpdateRate, Reset, locals
  <1>8. QED
    BY <1>2, <1>3, <1>4, <1>5, <1>6, <1>7

LEMMA PeriodPositiveStep ==
  ASSUME TypeOK, PeriodPositive, NEW c \in CPUs, Packet(c)
  PROVE  PeriodPositive'
  <1>0. pc \in [CPUs -> Steps] /\ tPast \in [CPUs -> 0..(Word - 1)]
    BY DEF TypeOK
  <1>1. CASE PeriodEnds(c)
    <2>1. Past(c) > 0
      BY <1>1, PastType, TcEdtAssumption DEF PeriodEnds
    <2>2. tPast' = [tPast EXCEPT ![c] = Past(c)] /\ pc' = [pc EXCEPT ![c] = "rate"]
      BY <1>1 DEF PeriodEnds
    <2>3. QED
      BY <1>0, <2>1, <2>2 DEF PeriodPositive
  <1>2. CASE UpdateRate(c)
    BY <1>0, <1>2 DEF UpdateRate, PeriodPositive
  <1>3. CASE ~PeriodEnds(c) /\ ~UpdateRate(c)
    <2>1. /\ tPast' = tPast
          /\ \E s \in Steps \ {"rate"} : pc' = [pc EXCEPT ![c] = s]
      BY <1>3 DEF Packet, Lookup, stat_init, Account, Schedule, Drop, Commit, ReadClock,
                  PeriodGoesOn, Reset, locals, Steps
    <2>2. QED
      BY <1>0, <2>1 DEF PeriodPositive
  <1>4. QED
    BY <1>1, <1>2, <1>3

LEMMA TypeInvStep == TypeInv /\ [Next]_vars => TypeInv'
  <1> SUFFICES ASSUME TypeInv, [Next]_vars PROVE TypeInv'
    OBVIOUS
  <1>0. TypeOK /\ Counted /\ PeriodPositive
    BY DEF TypeInv
  <1>1. CASE UNCHANGED vars
    <2>1. TypeOK'
      BY <1>0, <1>1 DEF vars, stat, locals, history, TypeOK
    <2>2. QED
      BY <1>0, <1>1, <2>1 DEF vars, stat, locals, history, TypeInv, Counted, At,
                              PeriodPositive, ToCount, ToLeave
  <1>2. CASE Tick
    <2>1. TypeOK'
      BY <1>0, <1>2, TcEdtAssumption DEF Tick, stat, locals, history, TypeOK
    <2>2. QED
      BY <1>0, <1>2, <2>1 DEF Tick, stat, locals, history, TypeInv, Counted, At,
                              PeriodPositive, ToCount, ToLeave
  <1>3. ASSUME NEW c \in CPUs, Packet(c) PROVE TypeInv'
    <2>1. /\ Counted' /\ total_pkts' \in 0..MaxPkts /\ departed' \in 0..MaxPkts
          /\ tx_bytes' \in 0..MaxPkts
      BY <1>3, CountedStep
    <2>2. Flags'
      BY <1>0, <1>3, FlagsStep DEF TypeOK, Flags
    <2>3. ScalarsType'
      BY <1>0, <1>3, ScalarsStep
    <2>4. LocalsType'
      BY <1>0, <1>3, LocalsStep
    <2>5. PeriodPositive'
      BY <1>0, <1>3, PeriodPositiveStep
    <2>6. QED
      BY <2>1, <2>2, <2>3, <2>4, <2>5 DEF TypeInv, TypeOK, Flags, ScalarsType, LocalsType
  <1>4. QED
    BY <1>1, <1>2, <1>3 DEF Next

\* However the packets of the CPUs interleave, the statistics entry keeps its types:
\* the clock values do not leave the clock, no period of length 0 is divided by, and
\* no more packets are counted, or let through, than came.
THEOREM EdtTypeCorrect == Spec => []TypeOK
  <1>1. TypeInv => TypeOK
    BY DEF TypeInv
  <1>2. QED
    BY InitTypeInv, TypeInvStep, <1>1, PTL DEF Spec
-----------------------------------------------------------------------------
(* One packet at a time.  As long as packets have not overlapped, the one  *)
(* under way finds the entry as the one before it left it.                 *)

Alone == \A c, d \in CPUs : pc[c] # "idle" /\ pc[d] # "idle" => c = d

\* The bytes are in tx_bytes until they are sampled, and the reset takes no others.
BytesKept ==
    /\ \A c \in CPUs : pc[c] = "reset" => total_pkts = sampled
    /\ (\A c \in CPUs : pc[c] # "reset") => total_pkts = sampled + tx_bytes

\* stat_init, which clears tx_bytes, finds nothing in it.
NewIsEmpty ==
    /\ \A c \in CPUs : pc[c] = "init" => rate = 0
    /\ (\A c \in CPUs : pc[c] # "reset") /\ rate = 0 => tx_bytes = 0

\* The period that ends is the one the packet began.
OwnPeriod == \A c \in CPUs : pc[c] \in {"rate", "reset"} => t_start = tCur[c]

RateSet == \A c \in CPUs : pc[c] \notin {"idle", "init", "reset"} => rate > 0

AloneInv == ~overlapped => Alone /\ BytesKept /\ NewIsEmpty /\ OwnPeriod /\ RateSet

\* t_last is where the packet let through last left it, unless it has been cleared.
Following ==
    /\ departure <= t_last
    /\ \A c \in CPUs : pc[c] = "commit" => departure + Delay <= tNext[c]

PacedInv == ~overlapped /\ ~cleared => Following

\* The CPUs that will yet move t_last: those whose packet has passed the test, and
\* those whose packet will if the clock stands at T - MaxDelay.
Ready(T) ==
    {c \in CPUs : pc[c] = "commit" \/ (pc[c] = "schedule" /\ tLast[c] <= T)}

Limit(T) == T + Cardinality(CPUs) * Delay

\* What waits, and what the ready CPUs will yet add to it.
Waiting ==
    \A T \in Nat : now + MaxDelay <= T =>
      /\ t_last + Cardinality(Ready(T)) * Delay <= Limit(T)
      /\ \A c \in CPUs : pc[c] = "commit" =>
           tNext[c] + Cardinality(Ready(T)) * Delay <= Limit(T) + Delay

\* A departure time that is yet to be written is at most one packet beyond t_last.
OneAhead ==
    \A c \in CPUs : pc[c] = "commit" =>
      tNext[c] <= t_last + Delay \/ tNext[c] <= now + MaxDelay

NoTcp == \A c \in CPUs : pc[c] # "idle" => kind[c] = "udp"

BacklogInv == ~tcpSeen => NoTcp /\ (~rewound => Waiting /\ OneAhead)
LEMMA InitInvs == Init => AloneInv /\ PacedInv /\ BacklogInv
  <1> SUFFICES ASSUME Init PROVE AloneInv /\ PacedInv /\ BacklogInv
    OBVIOUS
  <1>0. \A c \in CPUs : pc[c] = "idle"
    BY DEF Init
  <1>1. AloneInv
    BY <1>0 DEF Init, AloneInv, Alone, BytesKept, NewIsEmpty, OwnPeriod, RateSet
  <1>2. PacedInv
    BY <1>0, TcEdtAssumption DEF Init, PacedInv, Following
  <1>3. NoTcp /\ OneAhead
    BY <1>0 DEF NoTcp, OneAhead
  <1>4. Waiting
    <2> SUFFICES ASSUME NEW T \in Nat PROVE t_last + Cardinality(Ready(T)) * Delay <= Limit(T)
      BY <1>0 DEF Waiting
    <2>1. Ready(T) = {}
      BY <1>0 DEF Ready
    <2>2. Cardinality(CPUs) * Delay \in Nat /\ 0 * Delay = 0
      BY FS_CardinalityType, MulNat, TcEdtAssumption
    <2>3. t_last + Cardinality(Ready(T)) * Delay = 0
      BY <2>1, <2>2, FS_EmptySet DEF Init
    <2>4. QED
      BY <2>2, <2>3 DEF Limit
  <1>5. QED
    BY <1>1, <1>2, <1>3, <1>4 DEF BacklogInv

\* A packet that is alone stays so.
LEMMA StaysAlone ==
  ASSUME TypeOK, ~overlapped => Alone, NEW c \in CPUs, Packet(c), ~overlapped'
  PROVE  /\ ~overlapped
         /\ \A d \in CPUs : d # c => pc[d] = "idle" /\ pc'[d] = "idle"
         /\ Alone'
  <1>0. pc \in [CPUs -> Steps]
    BY DEF TypeOK
  <1>1. ~overlapped /\ (pc[c] # "idle" \/ \A d \in CPUs : pc[d] = "idle")
    <2>1. CASE Lookup(c)
      BY <2>1, Zenon DEF Lookup
    <2>2. CASE ~Lookup(c)
      <3>1. overlapped' = overlapped /\ pc[c] # "idle"
        BY <2>2 DEF Packet, stat_init, Account, Schedule, Drop, Commit, ReadClock,
             PeriodGoesOn, PeriodEnds, UpdateRate, Reset, history
      <3>2. QED
        BY <3>1, Zenon
    <2>3. QED
      BY <2>1, <2>2
  <1>2. \E s \in Steps : pc' = [pc EXCEPT ![c] = s]
    BY DEF Packet, Lookup, stat_init, Account, Schedule, Drop, Commit, ReadClock,
           PeriodGoesOn, PeriodEnds, UpdateRate, Reset, Steps
  <1>3. \A d \in CPUs : d # c => pc[d] = "idle" /\ pc'[d] = "idle"
    BY <1>0, <1>1, <1>2 DEF Alone
  <1>4. QED
    BY <1>1, <1>3 DEF Alone

LEMMA AloneInvStep == TypeInv /\ AloneInv /\ [Next]_vars => AloneInv'
  <1> SUFFICES ASSUME TypeInv, AloneInv, [Next]_vars, ~overlapped'
               PROVE  (Alone /\ BytesKept /\ NewIsEmpty /\ OwnPeriod /\ RateSet)'
    BY DEF AloneInv
  <1> USE DEF BytesKept, NewIsEmpty, OwnPeriod, RateSet
  <1>1. CASE UNCHANGED vars \/ Tick
    BY <1>1 DEF vars, Tick, stat, locals, history, AloneInv, Alone
  <1>2. ASSUME NEW c \in CPUs, Packet(c)
        PROVE  (Alone /\ BytesKept /\ NewIsEmpty /\ OwnPeriod /\ RateSet)'
    <2>0. /\ pc \in [CPUs -> Steps] /\ tCur \in [CPUs -> 0..MaxTime] /\ rate \in Nat
          /\ total_pkts \in Nat /\ sampled \in Nat /\ tx_bytes \in Nat
          /\ LowRate \in Nat /\ LowRate > 0
      BY TcEdtAssumption DEF TypeInv, TypeOK
    <2>1. /\ ~overlapped /\ Alone'
          /\ \A d \in CPUs : d # c => pc[d] = "idle" /\ pc'[d] = "idle"
      BY <1>2, StaysAlone DEF AloneInv, TypeInv
    <2>2. /\ pc[c] = "reset" => total_pkts = sampled
          /\ pc[c] # "reset" => total_pkts = sampled + tx_bytes
          /\ pc[c] # "reset" /\ rate = 0 => tx_bytes = 0
          /\ pc[c] = "init" => rate = 0
          /\ pc[c] \in {"rate", "reset"} => t_start = tCur[c]
          /\ pc[c] \notin {"idle", "init", "reset"} => rate > 0
      BY <2>1 DEF AloneInv
    <2>3. SUFFICES /\ pc'[c] = "reset" => total_pkts' = sampled'
                   /\ pc'[c] # "reset" => total_pkts' = sampled' + tx_bytes'
                   /\ pc'[c] # "reset" /\ rate' = 0 => tx_bytes' = 0
                   /\ pc'[c] = "init" => rate' = 0
                   /\ pc'[c] \in {"rate", "reset"} => t_start' = tCur'[c]
                   /\ pc'[c] \notin {"idle", "init", "reset"} => rate' > 0
      BY <2>1
    <2>4. CASE Lookup(c)
      BY <2>0, <2>2, <2>4 DEF Lookup, stat, locals
    <2>5. CASE stat_init(c)
      BY <2>0, <2>2, <2>5 DEF stat_init, locals
    <2>6. CASE Account(c)
      BY <2>0, <2>2, <2>6 DEF Account, history
    <2>7. CASE Schedule(c) \/ Drop(c) \/ Commit(c)
      BY <2>0, <2>2, <2>7 DEF Schedule, Drop, Commit, stat, locals, history
    <2>8. CASE ReadClock(c) \/ PeriodGoesOn(c) \/ PeriodEnds(c)
      BY <2>0, <2>2, <2>8 DEF ReadClock, PeriodGoesOn, PeriodEnds, stat, history
    <2>9. CASE UpdateRate(c)
      BY <2>0, <2>2, <2>9 DEF UpdateRate
    <2>10. CASE Reset(c)
      BY <2>0, <2>2, <2>10 DEF Reset, history
    <2>11. QED
      BY <1>2, <2>4, <2>5, <2>6, <2>7, <2>8, <2>9, <2>10 DEF Packet
  <1>3. QED
    BY <1>1, <1>2 DEF Next

\* The comment at tc_edt.c:67, "we can safety update without lock", for packets that
\* are handled one at a time: between two packets every byte counted is in tx_bytes
\* or has been in one sampling period.
THEOREM BytesAccountedFor == Spec => []BytesAccounted
  <1>1. AloneInv => BytesAccounted
    BY DEF AloneInv, BytesKept, BytesAccounted
  <1>2. QED
    BY InitTypeInv, TypeInvStep, InitInvs, AloneInvStep, <1>1, PTL DEF Spec
-----------------------------------------------------------------------------
(* Pacing.  A packet that is alone schedules after t_last, which is not    *)
(* before the last departure until stat_init clears it.                    *)

LEMMA PacedInvStep == TypeInv /\ AloneInv /\ PacedInv /\ [Next]_vars => PacedInv'
  <1> SUFFICES ASSUME TypeInv, AloneInv, PacedInv, [Next]_vars, ~overlapped', ~cleared'
               PROVE  Following'
    BY DEF PacedInv
  <1>0. /\ now \in Nat /\ t_last \in Nat /\ departure \in Int /\ Delay \in Nat
        /\ pc \in [CPUs -> Steps] /\ tNext \in [CPUs -> Nat]
    BY TcEdtAssumption DEF TypeInv, TypeOK
  <1>1. CASE UNCHANGED vars \/ Tick
    BY <1>1 DEF vars, Tick, stat, locals, history, PacedInv, Following
  <1>2. ASSUME NEW c \in CPUs, Packet(c) PROVE Following'
    <2>1. /\ ~overlapped
          /\ \A d \in CPUs : d # c => pc[d] = "idle" /\ pc'[d] = "idle"
      BY <1>2, StaysAlone DEF AloneInv, TypeInv
    <2>2. CASE Commit(c)
      <3>1. departure' = t_last' /\ t_last' \in Nat /\ pc'[c] = "sample"
        BY <1>0, <2>2 DEF Commit
      <3>2. QED
        BY <2>1, <3>1 DEF Following
    <2>3. CASE stat_init(c)
      <3>1. cleared'
        BY <2>3, Zenon DEF stat_init
      <3>2. QED
        BY <3>1
    <2>4. CASE ~Commit(c) /\ ~stat_init(c)
      <3>1. UNCHANGED <<t_last, departure, cleared>>
        BY <1>2, <2>4 DEF Packet, Lookup, Account, Schedule, Drop, ReadClock,
             PeriodGoesOn, PeriodEnds, UpdateRate, Reset, stat, history
      <3>2. ~cleared
        BY <3>1, Zenon
      <3>3. departure <= t_last
        BY <2>1, <3>2 DEF PacedInv, Following
      <3>4. pc'[c] = "commit" => departure + Delay <= tNext'[c]
        <4>1. CASE Schedule(c)
          <5>1. PICK s \in Stamps : tNext'[c] = DepartureTime(now + s)
            BY <1>0, <4>1 DEF Schedule
          <5>2. tNext'[c] >= t_last + Delay /\ tNext'[c] \in Int
            BY <1>0, <5>1, TcEdtAssumption DEF DepartureTime, Later
          <5>3. QED
            BY <1>0, <3>3, <5>2
        <4>2. CASE ~Schedule(c)
          BY <1>0, <1>2, <2>4, <4>2 DEF Packet, Lookup, Account, Drop, ReadClock,
               PeriodGoesOn, PeriodEnds, UpdateRate, Reset
        <4>3. QED
          BY <4>1, <4>2
      <3>5. QED
        BY <2>1, <3>1, <3>3, <3>4 DEF Following
    <2>5. QED
      BY <2>2, <2>3, <2>4
  <1>3. QED
    BY <1>1, <1>2 DEF Next

\* EDT pacing: a packet handled alone leaves at least Delay after its predecessor,
\* whatever stamps packets carry, whatever clocks and sampling periods did in between,
\* unless the estimate fell to 0 and stat_init cleared t_last for this packet.
THEOREM PacketsPaced == Spec => Paced
  <1> DEFINE I == TypeInv /\ AloneInv /\ PacedInv
  <1>1. Init => I
    BY InitTypeInv, InitInvs
  <1>2. I /\ [Next]_vars => I'
    BY TypeInvStep, AloneInvStep, PacedInvStep
  <1>3. I /\ [Next]_vars
          => [departed' # departed /\ ~overlapped /\ ~cleared
                => departure' >= departure + Delay]_vars
    <2> SUFFICES ASSUME I, Next, departed' # departed, ~overlapped, ~cleared
                 PROVE  departure' >= departure + Delay
      OBVIOUS
    <2>1. departed \in Nat
      BY DEF TypeInv, TypeOK
    <2>2. PICK c \in CPUs : Commit(c)
      BY <2>1 DEF Next, Tick, Packet, Lookup, stat_init, Account, Schedule, Drop, ReadClock,
             PeriodGoesOn, PeriodEnds, UpdateRate, Reset, history
    <2>3. pc[c] = "commit" /\ departure' = tNext[c]
      BY <2>2 DEF Commit
    <2>4. departure + Delay <= tNext[c]
      BY <2>3 DEF PacedInv, Following
    <2>5. departure \in Int /\ Delay \in Nat /\ tNext[c] \in Nat
      BY TcEdtAssumption DEF TypeInv, TypeOK
    <2>6. QED
      BY <2>3, <2>4, <2>5
  <1>4. QED
    BY <1>1, <1>2, <1>3, PTL DEF Spec, Paced
-----------------------------------------------------------------------------
(* What waits.  The test on the backlog reads t_last before the schedule   *)
(* does, so each CPU may pass it with a value that others raise before it  *)
(* adds its own packet.  Waiting counts those CPUs against the bound, for  *)
(* every clock to come: with time more packets pass a test that was failed.*)

LEMMA Multiples ==
  ASSUME NEW k \in Nat, NEW d \in Nat
  PROVE  /\ k * d \in Nat /\ (k + 1) * d = k * d + d
         /\ \A j \in Nat : j <= k => j * d <= k * d
  OBVIOUS

\* The load of the ready CPUs, as a number.
LEMMA ReadyType ==
  ASSUME NEW T \in Nat
  PROVE  /\ Ready(T) \in SUBSET CPUs
         /\ Cardinality(Ready(T)) \in Nat /\ Cardinality(CPUs) \in Nat
         /\ Cardinality(Ready(T)) <= Cardinality(CPUs)
         /\ Cardinality(Ready(T)) * Delay \in Nat
         /\ Cardinality(Ready(T)) * Delay <= Cardinality(CPUs) * Delay
         /\ Cardinality(CPUs) * Delay \in Nat /\ Limit(T) \in Nat
  <1>1. Ready(T) \in SUBSET CPUs
    BY DEF Ready
  <1>2. /\ Cardinality(Ready(T)) \in Nat /\ Cardinality(CPUs) \in Nat
        /\ Cardinality(Ready(T)) <= Cardinality(CPUs)
    BY <1>1, Finite
  <1>3. Delay \in Nat
    BY TcEdtAssumption
  <1>4. QED
    BY <1>1, <1>2, <1>3, Multiples DEF Limit

\* No packet under way is TCP.
LEMMA NoTcpStep ==
  ASSUME TypeInv, ~tcpSeen => NoTcp, [Next]_vars, ~tcpSeen'
  PROVE  ~tcpSeen /\ NoTcp'
  <1>0. pc \in [CPUs -> Steps] /\ kind \in [CPUs -> Kinds] /\ Kinds \subseteq {"udp", "tcp"}
    BY TcEdtAssumption DEF TypeInv, TypeOK
  <1>1. CASE UNCHANGED vars \/ Tick
    BY <1>1 DEF vars, Tick, history, NoTcp
  <1>2. ASSUME NEW c \in CPUs, Lookup(c) PROVE ~tcpSeen /\ NoTcp'
    <2>1. PICK k \in Kinds : kind' = [kind EXCEPT ![c] = k]
                             /\ tcpSeen' = (tcpSeen \/ k = "tcp")
      BY <1>2 DEF Lookup
    <2>2. ~tcpSeen /\ k # "tcp"
      BY <2>1, Zenon
    <2>3. QED
      BY <1>0, <1>2, <2>1, <2>2 DEF Lookup, NoTcp
  <1>3. ASSUME NEW c \in CPUs, Packet(c), ~Lookup(c) PROVE ~tcpSeen /\ NoTcp'
    <2>1. /\ tcpSeen' = tcpSeen /\ kind' = kind /\ pc[c] # "idle"
          /\ \E s \in Steps : pc' = [pc EXCEPT ![c] = s]
      BY <1>3 DEF Packet, stat_init, Account, Schedule, Drop, Commit, ReadClock,
           PeriodGoesOn, PeriodEnds, UpdateRate, Reset, history, Steps
    <2>2. ~tcpSeen
      BY <2>1, Zenon
    <2>3. QED
      BY <1>0, <2>1, <2>2 DEF NoTcp
  <1>4. QED
    BY <1>1, <1>2, <1>3 DEF Next

\* A CPU leaves the ready ones when it commits, joins them when it reads a t_last up to
\* T, and the others stay as they are.
LEMMA ReadyStep ==
  ASSUME TypeInv, NoTcp, NEW c \in CPUs, Packet(c), NEW T \in Nat, now + MaxDelay <= T
  PROVE  /\ Account(c) /\ t_last <= T
              => Cardinality(Ready(T)') = Cardinality(Ready(T)) + 1
         /\ Commit(c) => Cardinality(Ready(T)') = Cardinality(Ready(T)) - 1
         /\ ~(Account(c) /\ t_last <= T) /\ ~Commit(c)
              => Cardinality(Ready(T)') <= Cardinality(Ready(T))
  <1>0. /\ pc \in [CPUs -> Steps] /\ tLast \in [CPUs -> Nat]
        /\ t_last \in Nat /\ now \in Nat /\ MaxDelay \in Nat
    BY TcEdtAssumption DEF TypeInv, TypeOK
  <1>1. ASSUME Account(c), t_last <= T
        PROVE  Cardinality(Ready(T)') = Cardinality(Ready(T)) + 1
    <2>1. Ready(T)' = Ready(T) \union {c} /\ c \notin Ready(T)
      BY <1>0, <1>1 DEF Account, Ready
    <2>2. QED
      BY <2>1, ReadyType, CountStep
  <1>2. ASSUME Commit(c)
        PROVE  Cardinality(Ready(T)') = Cardinality(Ready(T)) - 1
    <2>1. Ready(T)' = Ready(T) \ {c} /\ c \in Ready(T)
      BY <1>0, <1>2 DEF Commit, Ready
    <2>2. QED
      BY <2>1, ReadyType, CountStep
  <1>3. ASSUME ~(Account(c) /\ t_last <= T), ~Commit(c)
        PROVE  Cardinality(Ready(T)') <= Cardinality(Ready(T))
    <2>1. Ready(T)' \subseteq Ready(T)
      <3>1. CASE Account(c)
        BY <1>0, <1>3, <3>1 DEF Account, Ready
      <3>2. CASE Schedule(c)
        <4>1. pc[c] = "schedule" /\ kind[c] = "udp"
          BY <3>2 DEF Schedule, NoTcp
        <4>2. ~(tLast[c] > now /\ tLast[c] - now > MaxDelay)
          BY <3>2, <4>1 DEF Schedule, Shot
        <4>3. tLast[c] <= T
          BY <1>0, <4>2
        <4>4. QED
          BY <1>0, <3>2, <4>1, <4>3 DEF Schedule, Ready
      <3>3. CASE ~Account(c) /\ ~Schedule(c)
        <4>1. /\ tLast' = tLast
              /\ \E s \in Steps \ {"schedule", "commit"} : pc' = [pc EXCEPT ![c] = s]
          BY <1>3, <3>3 DEF Packet, Lookup, stat_init, Drop, ReadClock, PeriodGoesOn,
               PeriodEnds, UpdateRate, Reset, locals, Steps
        <4>2. QED
          BY <1>0, <4>1 DEF Ready
      <3>4. QED
        BY <3>1, <3>2, <3>3
    <2>2. IsFiniteSet(Ready(T))
      BY ReadyType, Finite
    <2>3. QED
      BY <2>1, <2>2, FS_Subset
  <1>4. QED
    BY <1>1, <1>2, <1>3
\* The load when a CPU joins, leaves, or neither.
LEMMA LoadStep ==
  ASSUME TypeInv, NoTcp, NEW c \in CPUs, Packet(c), NEW T \in Nat, now + MaxDelay <= T
  PROVE  LET load == Cardinality(Ready(T)) * Delay
             loadNext == Cardinality(Ready(T)') * Delay
         IN  /\ load \in Nat /\ loadNext \in Nat
             /\ load <= Cardinality(CPUs) * Delay
             /\ loadNext <= Cardinality(CPUs) * Delay
             /\ Commit(c) => loadNext + Delay = load
             /\ ~(Account(c) /\ t_last <= T) /\ ~Commit(c) => loadNext <= load
  <1> DEFINE k == Cardinality(Ready(T))
             k1 == Cardinality(Ready(T)')
             N == Cardinality(CPUs)
  <1>0. Delay \in Nat
    BY TcEdtAssumption
  <1>1. k \in Nat /\ N \in Nat /\ k * Delay \in Nat /\ k * Delay <= N * Delay
    BY ReadyType
  <1>2. k1 \in Nat /\ k1 <= N
    <2>1. Ready(T)' \in SUBSET CPUs
      BY DEF Ready
    <2>2. QED
      BY <2>1, Finite
  <1>3. k1 * Delay \in Nat /\ k1 * Delay <= N * Delay
    BY <1>0, <1>1, <1>2, Multiples
  <1>4. Commit(c) => k1 * Delay + Delay = k * Delay
    <2> SUFFICES ASSUME Commit(c) PROVE k1 * Delay + Delay = k * Delay
      OBVIOUS
    <2>1. k1 = k - 1
      BY ReadyStep
    <2> HIDE DEF k, k1
    <2>2. k = k1 + 1
      BY <1>1, <1>2, <2>1
    <2>3. QED
      BY <1>0, <1>2, <2>2, Multiples
  <1>5. ~(Account(c) /\ t_last <= T) /\ ~Commit(c) => k1 * Delay <= k * Delay
    <2> SUFFICES ASSUME ~(Account(c) /\ t_last <= T), ~Commit(c)
                 PROVE  k1 * Delay <= k * Delay
      OBVIOUS
    <2>1. k1 <= k
      BY ReadyStep
    <2> HIDE DEF k, k1
    <2>2. QED
      BY <1>0, <1>1, <1>2, <2>1, Multiples
  <1>6. QED
    BY <1>1, <1>3, <1>4, <1>5

LEMMA OneAheadStep ==
  ASSUME TypeInv, OneAhead, NEW c \in CPUs, Packet(c), ~rewound, ~rewound'
  PROVE  OneAhead'
  <1>0. /\ pc \in [CPUs -> Steps] /\ tNext \in [CPUs -> Nat] /\ t_last \in Nat
        /\ now \in Nat /\ MaxDelay \in Nat /\ Delay \in Nat
    BY TcEdtAssumption DEF TypeInv, TypeOK
  <1>1. CASE Commit(c)
    <2>1. /\ t_last' = tNext[c] /\ now' = now
          /\ pc' = [pc EXCEPT ![c] = "sample"] /\ tNext' = [tNext EXCEPT ![c] = 0]
      BY <1>1 DEF Commit
    <2>2. ~(tNext[c] < t_last)
      BY <1>1, Zenon DEF Commit
    <2>3. \A d \in CPUs : pc'[d] = "commit" => pc[d] = "commit" /\ tNext'[d] = tNext[d]
      BY <1>0, <2>1
    <2>4. t_last <= t_last' /\ t_last' \in Nat
      BY <1>0, <2>1, <2>2
    <2>5. \A d \in CPUs : tNext[d] <= t_last + Delay => tNext[d] <= t_last' + Delay
      BY <1>0, <2>4
    <2>6. QED
      BY <2>1, <2>3, <2>5 DEF OneAhead
  <1>2. CASE stat_init(c)
    <2>1. t_last' = 0 /\ now' = now /\ pc' = [pc EXCEPT ![c] = "account"] /\ tNext' = tNext
      BY <1>2 DEF stat_init, locals
    <2>2. ~(t_last > 0)
      BY <1>2, Zenon DEF stat_init
    <2>3. t_last' = t_last
      BY <1>0, <2>1, <2>2
    <2>4. QED
      BY <1>0, <2>1, <2>3 DEF OneAhead
  <1>3. CASE Schedule(c)
    <2>1. PICK s \in Stamps : tNext' = [tNext EXCEPT ![c] = DepartureTime(now + s)]
      BY <1>3 DEF Schedule
    <2>2. DepartureTime(now + s) <= t_last + Delay \/ DepartureTime(now + s) <= now + MaxDelay
      BY <1>0, TcEdtAssumption DEF DepartureTime, Later
    <2>3. t_last' = t_last /\ now' = now /\ pc' = [pc EXCEPT ![c] = "commit"]
      BY <1>3 DEF Schedule, stat
    <2>4. QED
      BY <1>0, <2>1, <2>2, <2>3 DEF OneAhead
  <1>4. CASE ~Commit(c) /\ ~stat_init(c) /\ ~Schedule(c)
    <2>1. /\ t_last' = t_last /\ now' = now /\ tNext' = tNext
          /\ \E s \in Steps \ {"commit"} : pc' = [pc EXCEPT ![c] = s]
      BY <1>4 DEF Packet, Lookup, Account, Drop, ReadClock, PeriodGoesOn, PeriodEnds,
           UpdateRate, Reset, stat, locals, Steps
    <2>2. QED
      BY <1>0, <2>1 DEF OneAhead
  <1>5. QED
    BY <1>1, <1>2, <1>3, <1>4

LEMMA WaitingStep ==
  ASSUME TypeInv, NoTcp, Waiting, OneAhead, NEW c \in CPUs, Packet(c),
         ~rewound, ~rewound'
  PROVE  Waiting'
  <1>0. /\ pc \in [CPUs -> Steps] /\ tNext \in [CPUs -> Nat] /\ t_last \in Nat
        /\ now \in Nat /\ MaxDelay \in Nat /\ Delay \in Nat
    BY TcEdtAssumption DEF TypeInv, TypeOK
  <1>1. now' = now
    BY DEF Packet, Lookup, stat_init, Account, Schedule, Drop, Commit, ReadClock,
           PeriodGoesOn, PeriodEnds, UpdateRate, Reset
  <1>2. SUFFICES ASSUME NEW T \in Nat, now + MaxDelay <= T
                 PROVE  /\ t_last' + Cardinality(Ready(T)') * Delay <= Limit(T)
                        /\ \A d \in CPUs : pc'[d] = "commit" =>
                             tNext'[d] + Cardinality(Ready(T)') * Delay <= Limit(T) + Delay
    BY <1>1 DEF Waiting, Limit, Ready
  <1> DEFINE load == Cardinality(Ready(T)) * Delay
             loadNext == Cardinality(Ready(T)') * Delay
             all == Cardinality(CPUs) * Delay
  <1>3. /\ load \in Nat /\ loadNext \in Nat /\ load <= all /\ loadNext <= all
        /\ Commit(c) => loadNext + Delay = load
        /\ ~(Account(c) /\ t_last <= T) /\ ~Commit(c) => loadNext <= load
    BY <1>2, LoadStep
  <1>4. all \in Nat /\ Limit(T) = T + all
    BY ReadyType DEF Limit
  <1>5. /\ t_last + load <= T + all
        /\ \A d \in CPUs : pc[d] = "commit" => tNext[d] + load <= T + all + Delay
    BY <1>2, <1>4 DEF Waiting
  <1>6. SUFFICES /\ t_last' + loadNext <= T + all
                 /\ \A d \in CPUs : pc'[d] = "commit" => tNext'[d] + loadNext <= T + all + Delay
    BY <1>4
  <1> HIDE DEF load, loadNext, all
  <1>7. CASE Commit(c)
    <2>1. /\ t_last' = tNext[c] /\ pc[c] = "commit"
          /\ pc' = [pc EXCEPT ![c] = "sample"] /\ tNext' = [tNext EXCEPT ![c] = 0]
      BY <1>7 DEF Commit
    <2>2. loadNext + Delay = load
      BY <1>3, <1>7
    <2>3. \A d \in CPUs : pc'[d] = "commit" => pc[d] = "commit" /\ tNext'[d] = tNext[d]
      BY <1>0, <2>1
    <2>4. tNext[c] + load <= T + all + Delay /\ tNext[c] \in Nat
      BY <1>0, <1>5, <2>1
    <2>5. loadNext \in Nat /\ load \in Nat
      BY <1>3
    <2>6. t_last' + loadNext <= T + all
      BY <1>0, <1>4, <2>1, <2>2, <2>4, <2>5
    <2>7. \A d \in CPUs : tNext[d] + load <= T + all + Delay
                            => tNext[d] + loadNext <= T + all + Delay
      BY <1>0, <1>4, <2>2, <2>5
    <2>8. QED
      BY <1>5, <2>3, <2>6, <2>7
  <1>8. CASE Account(c) /\ t_last <= T
    <2>1. /\ t_last' = t_last /\ tNext' = tNext /\ pc' = [pc EXCEPT ![c] = "schedule"]
      BY <1>8 DEF Account
    <2>2. \A d \in CPUs : pc'[d] = "commit" => pc[d] = "commit"
      BY <1>0, <2>1
    <2>3. loadNext \in Nat /\ loadNext <= all
      BY <1>3
    <2>4. t_last + loadNext <= T + all
      BY <1>0, <1>4, <1>8, <2>3
    <2>5. \A d \in CPUs : pc[d] = "commit" => tNext[d] <= T + Delay
      BY <1>0, <1>2, <1>8 DEF OneAhead
    <2>6. \A d \in CPUs : tNext[d] <= T + Delay => tNext[d] + loadNext <= T + all + Delay
      BY <1>0, <1>4, <2>3
    <2>7. QED
      BY <2>1, <2>2, <2>4, <2>5, <2>6
  <1>9. CASE ~Commit(c) /\ ~(Account(c) /\ t_last <= T)
    <2>1. loadNext <= load /\ loadNext \in Nat /\ load \in Nat /\ load <= all
      BY <1>3, <1>9
    <2>2. t_last + loadNext <= T + all
      BY <1>0, <1>4, <1>5, <2>1
    <2>3. \A d \in CPUs : tNext[d] + load <= T + all + Delay
                            => tNext[d] + loadNext <= T + all + Delay
      BY <1>0, <1>4, <2>1
    <2>4. t_last' = t_last
      <3>1. CASE stat_init(c)
        <4>1. ~(t_last > 0)
          BY <3>1, Zenon DEF stat_init
        <4>2. QED
          BY <1>0, <3>1, <4>1 DEF stat_init
      <3>2. CASE ~stat_init(c)
        BY <1>9, <3>2 DEF Packet, Lookup, Account, Schedule, Drop, ReadClock, PeriodGoesOn,
             PeriodEnds, UpdateRate, Reset, stat
      <3>3. QED
        BY <3>1, <3>2
    <2>5. CASE Schedule(c)
      <3>1. PICK s \in Stamps : tNext' = [tNext EXCEPT ![c] = DepartureTime(now + s)]
        BY <2>5 DEF Schedule
      <3>2. DepartureTime(now + s) <= t_last + Delay \/ DepartureTime(now + s) <= T
        BY <1>0, <1>2, TcEdtAssumption DEF DepartureTime, Later
      <3>3. DepartureTime(now + s) \in Nat
        BY <1>0, TcEdtAssumption DEF DepartureTime, Later
      <3>4. DepartureTime(now + s) + loadNext <= T + all + Delay
        BY <1>0, <1>4, <2>1, <2>2, <3>2, <3>3
      <3>5. pc' = [pc EXCEPT ![c] = "commit"]
        BY <2>5 DEF Schedule
      <3>6. tNext'[c] + loadNext <= T + all + Delay
        BY <1>0, <3>1, <3>4
      <3>7. \A d \in CPUs : d # c => pc'[d] = pc[d] /\ tNext'[d] = tNext[d]
        BY <1>0, <3>1, <3>5
      <3>8. QED
        BY <1>5, <2>2, <2>3, <2>4, <3>6, <3>7
    <2>6. CASE ~Schedule(c)
      <3>1. /\ tNext' = tNext
            /\ \E s \in Steps \ {"commit"} : pc' = [pc EXCEPT ![c] = s]
        BY <1>9, <2>6 DEF Packet, Lookup, stat_init, Account, Drop, ReadClock, PeriodGoesOn,
             PeriodEnds, UpdateRate, Reset, locals, Steps
      <3>2. \A d \in CPUs : pc'[d] = "commit" => pc[d] = "commit"
        BY <1>0, <3>1
      <3>3. QED
        BY <1>5, <2>2, <2>3, <2>4, <3>1, <3>2
    <2>7. QED
      BY <2>5, <2>6
  <1>10. QED
    BY <1>7, <1>8, <1>9

LEMMA BacklogInvStep == TypeInv /\ BacklogInv /\ [Next]_vars => BacklogInv'
  <1> SUFFICES ASSUME TypeInv, BacklogInv, [Next]_vars, ~tcpSeen' PROVE
                 NoTcp' /\ (~rewound' => (Waiting /\ OneAhead)')
    BY DEF BacklogInv
  <1>1. ~tcpSeen /\ NoTcp /\ NoTcp'
    BY NoTcpStep DEF BacklogInv
  <1>2. ASSUME ~rewound' PROVE (Waiting /\ OneAhead)'
    <2>1. CASE UNCHANGED vars
      BY <1>1, <1>2, <2>1 DEF vars, stat, locals, history, BacklogInv, Waiting, Ready, Limit,
           OneAhead
    <2>2. CASE Tick
      <3>1. /\ now' = now + 1 /\ ~rewound
            /\ UNCHANGED <<t_last, pc, tNext, tLast>>
        BY <1>2, <2>2 DEF Tick, stat, locals, history
      <3>2. Waiting /\ OneAhead
        BY <1>1, <3>1 DEF BacklogInv
      <3>3. now \in Nat /\ MaxDelay \in Nat /\ tNext \in [CPUs -> Nat]
        BY TcEdtAssumption DEF TypeInv, TypeOK
      <3>4. \A T \in Nat : now' + MaxDelay <= T => now + MaxDelay <= T
        BY <3>1, <3>3
      <3>5. Waiting'
        BY <3>1, <3>2, <3>4 DEF Waiting, Ready, Limit
      <3>6. \A c \in CPUs : tNext[c] <= now + MaxDelay => tNext[c] <= now' + MaxDelay
        BY <3>1, <3>3
      <3>7. OneAhead'
        BY <3>1, <3>2, <3>6 DEF OneAhead
      <3>8. QED
        BY <3>5, <3>7
    <2>3. ASSUME NEW c \in CPUs, Packet(c) PROVE (Waiting /\ OneAhead)'
      <3>1. ~rewound
        <4>1. CASE stat_init(c) \/ Commit(c)
          BY <1>2, <4>1, Zenon DEF stat_init, Commit
        <4>2. CASE ~stat_init(c) /\ ~Commit(c)
          <5>1. rewound' = rewound
            BY <2>3, <4>2 DEF Packet, Lookup, Account, Schedule, Drop, ReadClock,
                 PeriodGoesOn, PeriodEnds, UpdateRate, Reset, history
          <5>2. QED
            BY <1>2, <5>1, Zenon
        <4>3. QED
          BY <4>1, <4>2
      <3>2. Waiting /\ OneAhead
        BY <1>1, <3>1 DEF BacklogInv
      <3>3. QED
        BY <1>1, <1>2, <2>3, <3>1, <3>2, WaitingStep, OneAheadStep
    <2>4. QED
      BY <2>1, <2>2, <2>3 DEF Next
  <1>3. QED
    BY <1>1, <1>2

\* The backlog of one object on any number of CPUs: as long as no late write has taken
\* t_last back, traffic other than TCP never waits longer than MAX_DELAY_STAMP and one
\* packet per CPU, though the test and the schedule read t_last one after the other.
THEOREM BacklogStaysBounded == Spec => []BacklogBounded
  <1>1. TypeInv /\ BacklogInv => BacklogBounded
    <2> SUFFICES ASSUME TypeInv, BacklogInv, ~tcpSeen, ~rewound
                 PROVE  t_last <= now + MaxDelay + Cardinality(CPUs) * Delay
      BY DEF BacklogBounded
    <2>1. t_last \in Nat /\ now \in Nat /\ MaxDelay \in Nat
      BY TcEdtAssumption DEF TypeInv, TypeOK
    <2> DEFINE T == now + MaxDelay
    <2>2. T \in Nat /\ now + MaxDelay <= T
      BY <2>1
    <2>3. t_last + Cardinality(Ready(T)) * Delay <= Limit(T)
      BY <2>2 DEF BacklogInv, Waiting
    <2>4. /\ Cardinality(Ready(T)) * Delay \in Nat /\ Cardinality(CPUs) * Delay \in Nat
          /\ Limit(T) = T + Cardinality(CPUs) * Delay
      BY <2>2, ReadyType DEF Limit
    <2>5. QED
      BY <2>1, <2>3, <2>4
  <1>2. QED
    BY InitTypeInv, TypeInvStep, InitInvs, BacklogInvStep, <1>1, PTL DEF Spec
=============================================================================
