-------------------------- MODULE AlgDaemonProofs --------------------------
(***************************************************************************)
(* Proofs about AlgDaemon, for any number of objects, any link, rates and  *)
(* requests, and with bwm-daemon writing at any time: the divisors of the  *)
(* second loop, the bound on what a cycle promises, and the order in which *)
(* objects are served.  First the facts about sums and about integer       *)
(* division that these need.                                               *)
(***************************************************************************)
EXTENDS AlgDaemon, FiniteSetTheorems, TLAPS

-----------------------------------------------------------------------------
(* Sums over finite sets.                                                   *)

\* A nonempty set of subsets of a finite set has a smallest member.
IsSmallest(x, T) == x \in T /\ \A y \in T : y \subseteq x => y = x

LEMMA Smallest ==
  ASSUME NEW S, IsFiniteSet(S), NEW T, T \subseteq SUBSET S, T # {}
  PROVE  \E x : IsSmallest(x, T)
<1>1. IsWellFoundedOn(StrictSubsetOrdering(S), FiniteSubsetsOf(S))
  BY FS_StrictSubsetOrderingWellFounded
<1>2. FiniteSubsetsOf(S) = SUBSET S
  BY FS_FiniteSubsetsOfFinite
<1>3. PICK x \in T : \A y \in T : ~ (<<y, x>> \in StrictSubsetOrdering(S))
  BY <1>1, <1>2, WFMin
<1>4. ASSUME NEW y \in T, y \subseteq x, y # x
      PROVE  <<y, x>> \in StrictSubsetOrdering(S)
  <2>1. <<y, x>> \in (SUBSET S) \X (SUBSET S)
    OBVIOUS
  <2>2. <<y, x>>[1] = y /\ <<y, x>>[2] = x
    OBVIOUS
  <2>. QED BY <1>4, <2>1, <2>2, Zenon DEF StrictSubsetOrdering
<1>5. ASSUME NEW y \in T, y \subseteq x PROVE y = x
  BY <1>3, <1>4, <1>5
<1>. QED BY <1>5 DEF IsSmallest

\* The element with which a sum goes on, and what the sums over the subsets of S
\* are, whatever function g holds them.
First(s) == CHOOSE x \in s : TRUE
Sums(f, S, g) ==
    g = [s \in SUBSET S |-> IF s = {} THEN 0 ELSE f[First(s)] + g[s \ {First(s)}]]

LEMMA FirstIn == ASSUME NEW s, s # {} PROVE First(s) \in s
BY DEF First

LEMMA SumsAgree ==
  ASSUME NEW f, NEW S, NEW T, IsFiniteSet(S), NEW g, NEW h,
         Sums(f, S, g), Sums(f, T, h)
  PROVE  \A s \in (SUBSET S) \cap (SUBSET T) : g[s] = h[s]
<1>. DEFINE Bad == {s \in (SUBSET S) \cap (SUBSET T) : g[s] # h[s]}
<1>1. SUFFICES ASSUME Bad # {} PROVE FALSE
  OBVIOUS
<1>2. PICK s : IsSmallest(s, Bad)
  <2>1. Bad \subseteq SUBSET S
    OBVIOUS
  <2>. HIDE DEF Bad
  <2>. QED BY <1>1, <2>1, Smallest, Zenon
<1>3. s # {}
  BY <1>2 DEF Sums, IsSmallest
<1>4. First(s) \in s
  BY <1>3, FirstIn
<1>5. s \ {First(s)} \notin Bad
  BY <1>2, <1>4 DEF IsSmallest
<1>6. g[s \ {First(s)}] = h[s \ {First(s)}]
  BY <1>2, <1>5 DEF IsSmallest
<1>7. g[s] = f[First(s)] + g[s \ {First(s)}] /\ h[s] = f[First(s)] + h[s \ {First(s)}]
  BY <1>2, <1>3 DEF Sums, IsSmallest
<1>. QED BY <1>2, <1>6, <1>7 DEF IsSmallest

LEMMA SumsExist ==
  ASSUME NEW f, NEW S, IsFiniteSet(S)
  PROVE  \E g : Sums(f, S, g)
<1>. DEFINE Bad == {s \in SUBSET S : ~ \E g : Sums(f, s, g)}
<1>1. SUFFICES ASSUME Bad # {} PROVE FALSE
  BY FS_Subset
<1>2. PICK T : IsSmallest(T, Bad)
  <2>1. Bad \subseteq SUBSET S
    OBVIOUS
  <2>. HIDE DEF Bad
  <2>. QED BY <1>1, <2>1, Smallest, Zenon
<1>. DEFINE G(s) == CHOOSE g : Sums(f, s, g)
            V(s) == IF s = {} THEN 0
                    ELSE f[First(s)] + G(s \ {First(s)})[s \ {First(s)}]
            h == [s \in SUBSET T |-> V(s)]
<1>3. \A s \in SUBSET T : s # T => Sums(f, s, G(s))
  BY <1>2 DEF IsSmallest
<1>4. ASSUME NEW s \in SUBSET T, s # T PROVE V(s) = G(s)[s]
  <2>1. CASE s = {}
    <3>1. Sums(f, s, G(s))
      BY <1>3, <1>4
    <3>. HIDE DEF G
    <3>. QED BY <2>1, <3>1 DEF Sums
  <2>2. CASE s # {}
    <3>1. First(s) \in s
      BY <2>2, FirstIn
    <3>2. Sums(f, s, G(s)) /\ Sums(f, s \ {First(s)}, G(s \ {First(s)}))
      BY <1>3, <1>4, <3>1
    <3>3. IsFiniteSet(s)
      BY <1>2, FS_Subset DEF IsSmallest
    <3>4. G(s)[s \ {First(s)}] = G(s \ {First(s)})[s \ {First(s)}]
      <4>. HIDE DEF G
      <4>1. \A t \in (SUBSET s) \cap (SUBSET (s \ {First(s)})) :
              G(s)[t] = G(s \ {First(s)})[t]
        BY <3>2, <3>3, SumsAgree
      <4>. QED BY <4>1
    <3>5. G(s)[s] = f[First(s)] + G(s)[s \ {First(s)}]
      <4>. HIDE DEF G
      <4>. QED BY <3>2, <2>2 DEF Sums
    <3>6. V(s) = f[First(s)] + G(s \ {First(s)})[s \ {First(s)}]
      <4>. HIDE DEF G
      <4>. QED BY <2>2
    <3>. HIDE DEF G, V
    <3>. QED BY <3>4, <3>5, <3>6
  <2>. QED BY <2>1, <2>2
<1>5. ASSUME NEW s \in SUBSET T, s # {} PROVE h[s \ {First(s)}] = G(s \ {First(s)})[s \ {First(s)}]
  <2>1. s \ {First(s)} \in SUBSET T /\ s \ {First(s)} # T
    BY <1>5, FirstIn
  <2>. HIDE DEF G, V
  <2>. QED BY <1>4, <2>1
<1>6. \A s \in SUBSET T : h[s] = IF s = {} THEN 0 ELSE f[First(s)] + h[s \ {First(s)}]
  <2>. HIDE DEF G
  <2>. QED BY <1>5
<1>7. Sums(f, T, h)
  <2>1. h = [s \in SUBSET T |-> h[s]]
    <3>. HIDE DEF V
    <3>. QED OBVIOUS
  <2>. HIDE DEF h
  <2>. QED BY <1>6, <2>1 DEF Sums
<1>. QED BY <1>2, <1>7 DEF IsSmallest

\* The library's sum is such a function's value.
LEMMA SumOverSums ==
  ASSUME NEW f, NEW S, IsFiniteSet(S)
  PROVE  \E g : Sums(f, S, g) /\ SumOver(f, S) = g[S]
<1>. DEFINE g == CHOOSE g : Sums(f, S, g)
<1>1. Sums(f, S, g)
  BY SumsExist
<1>2. SumOver(f, S) = g[S]
  BY DEF SumOver, MapThenSumSet, MapThenFoldSet, Sums, First
<1>. QED BY <1>1, <1>2


LEMMA SumStep ==
  ASSUME NEW f, NEW S, IsFiniteSet(S)
  PROVE  SumOver(f, S) = IF S = {} THEN 0
                         ELSE f[First(S)] + SumOver(f, S \ {First(S)})
<1>. DEFINE T == S \ {First(S)}
<1>1. PICK g : Sums(f, S, g) /\ SumOver(f, S) = g[S]
  BY SumOverSums
<1>2. IsFiniteSet(T)
  BY FS_Subset
<1>3. PICK h : Sums(f, T, h) /\ SumOver(f, T) = h[T]
  BY <1>2, SumOverSums
<1>4. \A s \in (SUBSET S) \cap (SUBSET T) : g[s] = h[s]
  BY <1>1, <1>3, SumsAgree
<1>5. g[T] = h[T]
  BY <1>4
<1>6. g[S] = IF S = {} THEN 0 ELSE f[First(S)] + g[T]
  BY <1>1 DEF Sums
<1>. QED BY <1>1, <1>3, <1>5, <1>6

LEMMA SumType ==
  ASSUME NEW D, NEW f \in [D -> Nat], NEW S \in SUBSET D, IsFiniteSet(S)
  PROVE  SumOver(f, S) \in Nat
<1>. DEFINE Bad == {s \in SUBSET S : SumOver(f, s) \notin Nat}
<1>1. SUFFICES ASSUME Bad # {} PROVE FALSE
  OBVIOUS
<1>2. PICK s : IsSmallest(s, Bad)
  <2>1. Bad \subseteq SUBSET S
    OBVIOUS
  <2>. HIDE DEF Bad
  <2>. QED BY <1>1, <2>1, Smallest, Zenon
<1>3. IsFiniteSet(s) /\ s \in SUBSET S
  BY <1>2, FS_Subset DEF IsSmallest
<1>4. s # {}
  <2>1. SUFFICES ASSUME s = {} PROVE FALSE
    OBVIOUS
  <2>2. SumOver(f, s) = 0
    BY <2>1, <1>3, SumStep
  <2>. QED BY <1>2, <2>2 DEF IsSmallest
<1>5. First(s) \in s
  BY <1>4, FirstIn
<1>6. SumOver(f, s \ {First(s)}) \in Nat
  BY <1>2, <1>3, <1>5 DEF IsSmallest
<1>7. SumOver(f, s) = f[First(s)] + SumOver(f, s \ {First(s)})
  BY <1>3, <1>4, SumStep
<1>8. f[First(s)] \in Nat
  BY <1>3, <1>5
<1>. QED BY <1>2, <1>6, <1>7, <1>8 DEF IsSmallest

\* Any element may be taken out first.
LEMMA SumRemove ==
  ASSUME NEW D, NEW f \in [D -> Nat], NEW S \in SUBSET D, IsFiniteSet(S), NEW o \in S
  PROVE  SumOver(f, S) = f[o] + SumOver(f, S \ {o})
<1>. DEFINE Bad == {s \in SUBSET S : \E x \in s : SumOver(f, s) # f[x] + SumOver(f, s \ {x})}
<1>1. SUFFICES ASSUME Bad # {} PROVE FALSE
  OBVIOUS
<1>2. PICK s : IsSmallest(s, Bad)
  <2>1. Bad \subseteq SUBSET S
    OBVIOUS
  <2>. HIDE DEF Bad
  <2>. QED BY <1>1, <2>1, Smallest, Zenon
<1>3. s \in Bad
  BY <1>2 DEF IsSmallest
<1>4. PICK x \in s : SumOver(f, s) # f[x] + SumOver(f, s \ {x})
  BY <1>3
<1>5. s \in SUBSET S /\ IsFiniteSet(s)
  BY <1>3, FS_Subset
<1>. DEFINE y == First(s)
<1>6. y \in s
  BY <1>4, FirstIn
<1>7. SumOver(f, s) = f[y] + SumOver(f, s \ {y})
  BY <1>4, <1>5, SumStep
<1>. HIDE DEF y
<1>8. x # y
  BY <1>4, <1>7
<1>9. s \ {y} \notin Bad /\ s \ {x} \notin Bad
  BY <1>2, <1>4, <1>6 DEF IsSmallest
<1>10. s \ {y} \in SUBSET S /\ s \ {x} \in SUBSET S
  BY <1>5
<1>11. SumOver(f, s \ {y}) = f[x] + SumOver(f, (s \ {y}) \ {x})
  BY <1>9, <1>10, <1>8, <1>4
<1>12. SumOver(f, s \ {x}) = f[y] + SumOver(f, (s \ {x}) \ {y})
  BY <1>9, <1>10, <1>8, <1>6
<1>13. (s \ {y}) \ {x} = (s \ {x}) \ {y}
  OBVIOUS
<1>14. SumOver(f, (s \ {y}) \ {x}) \in Nat
  <2>1. IsFiniteSet((s \ {y}) \ {x}) /\ (s \ {y}) \ {x} \in SUBSET D
    BY <1>5, FS_Subset
  <2>. QED BY <2>1, SumType
<1>15. f[x] \in Nat /\ f[y] \in Nat
  BY <1>4, <1>5, <1>6
<1>. QED BY <1>4, <1>7, <1>11, <1>12, <1>13, <1>14, <1>15

\* A sum depends on the values of the set's elements alone.
LEMMA SumSame ==
  ASSUME NEW f, NEW g, NEW S, IsFiniteSet(S), \A x \in S : f[x] = g[x]
  PROVE  SumOver(f, S) = SumOver(g, S)
<1>. DEFINE Bad == {s \in SUBSET S : SumOver(f, s) # SumOver(g, s)}
<1>1. SUFFICES ASSUME Bad # {} PROVE FALSE
  OBVIOUS
<1>2. PICK s : IsSmallest(s, Bad)
  <2>1. Bad \subseteq SUBSET S
    OBVIOUS
  <2>. HIDE DEF Bad
  <2>. QED BY <1>1, <2>1, Smallest, Zenon
<1>3. IsFiniteSet(s) /\ s \in SUBSET S
  BY <1>2, FS_Subset DEF IsSmallest
<1>4. s # {}
  BY <1>2, <1>3, SumStep DEF IsSmallest
<1>5. First(s) \in s
  BY <1>4, FirstIn
<1>6. SumOver(f, s \ {First(s)}) = SumOver(g, s \ {First(s)})
  BY <1>2, <1>3, <1>5 DEF IsSmallest
<1>7. SumOver(f, s) = f[First(s)] + SumOver(f, s \ {First(s)})
  BY <1>3, <1>4, SumStep
<1>8. SumOver(g, s) = g[First(s)] + SumOver(g, s \ {First(s)})
  BY <1>3, <1>4, SumStep
<1>9. f[First(s)] = g[First(s)]
  BY <1>3, <1>5
<1>. QED BY <1>2, <1>6, <1>7, <1>8, <1>9 DEF IsSmallest

\* What a sum becomes when one of its terms grows.
LEMMA SumGrows ==
  ASSUME NEW D, NEW f \in [D -> Nat], NEW g \in [D -> Nat],
         NEW S \in SUBSET D, IsFiniteSet(S), NEW o \in S, NEW n \in Nat,
         g[o] = f[o] + n, \A x \in S \ {o} : g[x] = f[x]
  PROVE  SumOver(g, S) = SumOver(f, S) + n
<1>1. IsFiniteSet(S \ {o}) /\ S \ {o} \in SUBSET D
  BY FS_Subset
<1>2. SumOver(f, S) = f[o] + SumOver(f, S \ {o})
  BY SumRemove
<1>3. SumOver(g, S) = g[o] + SumOver(g, S \ {o})
  BY SumRemove
<1>4. SumOver(g, S \ {o}) = SumOver(f, S \ {o})
  BY <1>1, SumSame
<1>5. SumOver(f, S \ {o}) \in Nat
  BY <1>1, SumType
<1>. QED BY <1>2, <1>3, <1>4, <1>5

-----------------------------------------------------------------------------
(* Integer division.                                                        *)

LEMMA DivFacts ==
  ASSUME NEW a \in Nat, NEW b \in Nat \ {0}
  PROVE  /\ a \div b \in Nat
         /\ b * (a \div b) <= a
         /\ a < b * (a \div b) + b
OBVIOUS

LEMMA MulMono ==
  ASSUME NEW a \in Nat, NEW b \in Nat, NEW c \in Nat, a <= b
  PROVE  a * c <= b * c /\ c * a <= c * b
OBVIOUS

LEMMA DivLess ==
  ASSUME NEW a \in Nat, NEW b \in Nat \ {0}
  PROVE  a \div b <= a
<1>. DEFINE q == a \div b
<1>1. q \in Nat /\ b * q <= a
  BY DivFacts
<1>. HIDE DEF q
<1>2. 1 * q <= b * q
  BY <1>1, MulMono
<1>. QED BY <1>1, <1>2 DEF q

\* A smaller divisor gives no smaller quotient.
LEMMA DivAnti ==
  ASSUME NEW a \in Nat, NEW b \in Nat \ {0}, NEW c \in Nat \ {0}, c <= b
  PROVE  a \div b <= a \div c
<1>. DEFINE q == a \div b
            r == a \div c
<1>1. q \in Nat /\ b * q <= a /\ r \in Nat /\ a < c * r + c
  BY DivFacts
<1>. HIDE DEF q, r
<1>2. SUFFICES ASSUME q > r PROVE FALSE
  BY <1>1 DEF q, r
<1>3. c * (r + 1) <= c * q
  BY <1>1, <1>2, MulMono
<1>4. c * q <= b * q
  BY <1>1, MulMono
<1>5. c * (r + 1) = c * r + c
  BY <1>1
<1>6. c * r \in Nat /\ b * q \in Nat /\ c * q \in Nat
  BY <1>1
<1>. QED BY <1>1, <1>3, <1>4, <1>5, <1>6

-----------------------------------------------------------------------------
(* The invariant of a cycle.  X stands for the objects the second loop has   *)
(* still to come to.                                                         *)

Pending == {o \in Active : o >= id}

NeedIn(X) == {o \in X : status[o] = NeedReachLowRate}
ReachedIn(X, p) == {o \in X : cfg[o].priority = p /\ status[o] = ReachedLowRate}
CountedIn(X, p) == {o \in X : cfg[o].priority = p /\ status[o] # DownReqRate}

Weight(p) == IF priorityCnt[p] > 0 THEN PriorityAllocPercent[p] ELSE 0

\* The counters cover what is still to come.
Counts(X) ==
    /\ \A o \in Objs \ Active : status[o] = DownReqRate
    /\ Cardinality(NeedIn(X)) <= BelowLowDivisor
    /\ allReached <=> BelowLowDivisor = 0
    /\ \A p \in Priorities : Cardinality(CountedIn(X, p)) <= priorityCnt[p]
    /\ priorityCnt[0] + priorityCnt[1] + priorityCnt[2] <= ValidObjCnt
    /\ Weight(0) + Weight(1) + Weight(2) <= allocDivide

Quota(p) == ((remainBw * PriorityAllocPercent[p]) \div allocDivide) \div priorityCnt[p]

\* At most what the objects of a priority have been handed by now.
Handed(X, p) == IF priorityCnt[p] = 0 THEN 0
                ELSE (priorityCnt[p] - Cardinality(ReachedIn(X, p))) * (Quota(p) + 1)

\* Until the low rates are reached, every object that is below its own and has been
\* come to has got at most what the next one would get; afterwards the shares of a
\* priority are equal.
Bound(X) ==
    IF remainBw <= 0 THEN remainBwVary = remainBw
    ELSE IF allReached
    THEN remainBwVary >= remainBw - Handed(X, 0) - Handed(X, 1) - Handed(X, 2)
    ELSE remainBwVary >= remainBw - (BelowLowDivisor - Cardinality(NeedIn(X)))
                                      * (remainBw \div BelowLowDivisor + 1)

\* Objects to come are as the first loop has left them, and while some object is
\* below its low rate so are those that have reached theirs; an object that is
\* needy and has been come to still counts as below its low rate.
Serves(X) ==
    /\ \A o \in X : cfg[o].reqRate = ReadReqRate(o)
    /\ ~allReached => \A o \in Active :
         status[o] = ReachedLowRate => cfg[o].reqRate = ReadReqRate(o)
    /\ Cardinality({o \in Active \ X : Needy(o)})
         <= BelowLowDivisor - Cardinality(NeedIn(X))

Bounded ==
    IF remainBw <= 0 THEN remainBwVary = remainBw
    ELSE remainBwVary >= 0 - ValidObjCnt

Sharing(X) == Counts(X) /\ Bound(X) /\ Serves(X)

CycleInv ==
    /\ pc \in {"readStat", "readCfg", "adjust"} => id = 0
    /\ pc = "adjust" => cfg = seen
    /\ pc = "share" => Sharing(Pending)
    /\ pc \in {"share", "write"} => Committed = TotalBw - remainBwVary
    /\ pc = "write" => Bounded /\ GuaranteeFirst

AlgInv == TypeOK /\ CycleInv

-----------------------------------------------------------------------------
(* Types.                                                                   *)

LEMMA ObjsFinite ==
  IsFiniteSet(Objs) /\ \A S \in SUBSET Objs : IsFiniteSet(S) /\ Cardinality(S) \in Nat
<1>1. IsFiniteSet(Objs)
  BY AlgAssumption, FS_Interval DEF Objs
<1>. QED BY <1>1, FS_Subset, FS_CardinalityType

LEMMA ActiveObjs ==
  /\ Active \in SUBSET Objs /\ Pending \in SUBSET Active
  /\ IsFiniteSet(Active) /\ ValidObjCnt \in Nat
BY ObjsFinite DEF Active, Pending, ValidObjCnt

LEMMA AllocTypes ==
  ASSUME NEW r \in Nat, NEW q \in Nat, NEW l \in Nat
  PROVE  AllocMinRate(r, q, l) \in Nat /\ AllocState(r, q, l) \in 0..2
<1>1. q \div Pace \in Nat /\ q \div Pace <= q
  BY AlgAssumption, DivFacts, DivLess
<1>2. AllocMinRate(r, q, l) \in Nat
  BY <1>1, AlgAssumption DEF AllocMinRate, Clip
<1>3. AllocState(r, q, l) \in 0..2
  BY DEF AllocState, DownReqRate, NeedReachLowRate, ReachedLowRate
<1>. QED BY <1>2, <1>3

LEMMA ThrottleCfgType ==
  ASSUME NEW q \in [priority : Priorities, request : Nat]
  PROVE  ThrottleCfg(q) \in Cfgs
BY AlgAssumption DEF ThrottleCfg, Cfgs

LEMMA ZeroCfgType == ZeroCfg \in Cfgs
BY DEF ZeroCfg, Cfgs, Priorities

LEMMA InitInv == Init => AlgInv
<1>1. SUFFICES ASSUME Init PROVE AlgInv
  OBVIOUS
<1>2. 0 \in Objs
  BY AlgAssumption DEF Objs
<1>3. ThrottleCfg(DefaultFlowConfig) \in Cfgs
  <2>1. TotalBw \div DefaultPercent \in Nat
    BY AlgAssumption, DivFacts
  <2>. QED BY <2>1, ThrottleCfgType DEF DefaultFlowConfig, Priorities
<1>4. cfgMap \in [Objs -> Cfgs] /\ granted \in [Objs -> Cfgs]
  BY <1>1, <1>3, ZeroCfgType DEF Init
<1>5. cfg \in [Objs -> Cfgs] /\ seen \in [Objs -> Cfgs]
  BY <1>1, ZeroCfgType DEF Init, FreshLocals
<1>6. allReached \in BOOLEAN
  BY <1>1, Zenon DEF Init, FreshLocals
<1>7. writes \in 0..MaxWrites /\ status \in [Objs -> 0..2]
  BY <1>1, AlgAssumption DEF Init, FreshLocals, DownReqRate
<1>8. /\ remainBw \in Int /\ remainBwVary \in Int
      /\ priorityCnt \in [Priorities -> Nat]
      /\ lowRateReachCnt \in Nat /\ downReqRateCnt \in Nat /\ allocDivide \in Nat
      /\ rateMap \in [Objs -> Nat] /\ rate \in [Objs -> Nat]
  BY <1>1 DEF Init, FreshLocals
<1>9. TypeOK
  BY <1>1, <1>2, <1>4, <1>5, <1>6, <1>7, <1>8 DEF Init, FreshLocals, TypeOK
<1>10. pc = "readStat" /\ id = 0
  BY <1>1 DEF Init, FreshLocals
<1>. QED BY <1>9, <1>10 DEF AlgInv, CycleInv

-----------------------------------------------------------------------------
(* Steps that leave the cycle's copies alone, or begin or end a cycle.      *)

\* The invariant of a cycle speaks of the cycle's own variables.
LEMMA CycleKept == CycleInv /\ UNCHANGED cycleVars => CycleInv'
<1>1. SUFFICES ASSUME CycleInv, UNCHANGED cycleVars PROVE CycleInv'
  OBVIOUS
<1>2. /\ pc' = pc /\ cfg' = cfg /\ seen' = seen /\ rate' = rate /\ status' = status
      /\ remainBw' = remainBw /\ remainBwVary' = remainBwVary
      /\ priorityCnt' = priorityCnt /\ lowRateReachCnt' = lowRateReachCnt
      /\ downReqRateCnt' = downReqRateCnt /\ allReached' = allReached
      /\ allocDivide' = allocDivide /\ id' = id
  BY <1>1 DEF cycleVars, countVars
<1>3. Active' = Active /\ Pending' = Pending /\ ValidObjCnt' = ValidObjCnt
  BY <1>2, Zenon DEF Active, Pending, ValidObjCnt
<1>4. BelowLowDivisor' = BelowLowDivisor /\ Committed' = Committed
  BY <1>2, <1>3, Zenon DEF BelowLowDivisor, Committed
<1>5. ASSUME NEW X PROVE Counts(X)' = Counts(X) /\ Bound(X)' = Bound(X) /\ Serves(X)' = Serves(X)
  <2>1. Counts(X)' = Counts(X)
    BY <1>2, <1>3, <1>4, Zenon DEF Counts, NeedIn, CountedIn, Weight
  <2>2. Bound(X)' = Bound(X)
    BY <1>2, <1>3, <1>4, Zenon DEF Bound, NeedIn, ReachedIn, Handed, Quota
  <2>3. Serves(X)' = Serves(X)
    BY <1>2, <1>3, <1>4, Zenon DEF Serves, NeedIn, Needy, ReadReqRate
  <2>. QED BY <2>1, <2>2, <2>3
<1>6. Sharing(Pending)' = Sharing(Pending)
  BY <1>3, <1>5, Zenon DEF Sharing
<1>7. Bounded' = Bounded /\ GuaranteeFirst' = GuaranteeFirst
  BY <1>2, <1>3, <1>4, Zenon DEF Bounded, GuaranteeFirst, Needy, ReadReqRate
<1>. QED BY <1>1, <1>2, <1>4, <1>6, <1>7, Zenon DEF CycleInv

\* The cycle's variables keep their types when they keep their values.
LocalsTypeOK ==
    /\ pc \in {"readStat", "readCfg", "adjust", "share", "write"}
    /\ cfg \in [Objs -> Cfgs] /\ seen \in [Objs -> Cfgs]
    /\ rate \in [Objs -> Nat]
    /\ status \in [Objs -> 0..2]
    /\ remainBw \in Int /\ remainBwVary \in Int
    /\ priorityCnt \in [Priorities -> Nat]
    /\ lowRateReachCnt \in Nat /\ downReqRateCnt \in Nat
    /\ allReached \in BOOLEAN
    /\ allocDivide \in Nat
    /\ id \in Objs

MapsTypeOK ==
    /\ cfgMap \in [Objs -> Cfgs]
    /\ rateMap \in [Objs -> Nat]
    /\ granted \in [Objs -> Cfgs]
    /\ writes \in 0..MaxWrites

LEMMA TypeParts == TypeOK <=> MapsTypeOK /\ LocalsTypeOK
BY Zenon DEF TypeOK, MapsTypeOK, LocalsTypeOK

LEMMA LocalsKept == LocalsTypeOK /\ UNCHANGED cycleVars => LocalsTypeOK'
BY Zenon DEF LocalsTypeOK, cycleVars, countVars

LEMMA MapsKept == MapsTypeOK /\ UNCHANGED mapVars => MapsTypeOK'
BY Zenon DEF MapsTypeOK, mapVars

LEMMA OthersStep ==
  ASSUME AlgInv,
         \/ \E o \in Objs : Sample(o)
         \/ \E o \in Objs \ {0} : AddConfig(o) \/ ClearConfig(o)
  PROVE  AlgInv'
<1>1. MapsTypeOK /\ LocalsTypeOK /\ CycleInv
  BY TypeParts DEF AlgInv
<1>2. UNCHANGED cycleVars
  BY DEF Sample, AddConfig, ClearConfig
<1>3. MapsTypeOK'
  <2>1. ASSUME NEW o \in Objs, Sample(o) PROVE MapsTypeOK'
    BY <1>1, <2>1, AlgAssumption DEF Sample, MapsTypeOK
  <2>2. ASSUME NEW o \in Objs, AddConfig(o) PROVE MapsTypeOK'
    <3>1. PICK q \in Requests : /\ cfgMap' = [cfgMap EXCEPT ![o] = ThrottleCfg(q)]
                                /\ granted' = [granted EXCEPT ![o] = ThrottleCfg(q)]
      BY <2>2 DEF AddConfig
    <3>2. ThrottleCfg(q) \in Cfgs
      BY AlgAssumption, ThrottleCfgType
    <3>3. writes' \in 0..MaxWrites /\ rateMap' = rateMap
      BY <1>1, <2>2, AlgAssumption DEF AddConfig, DaemonMayWrite, MapsTypeOK
    <3>. QED BY <1>1, <3>1, <3>2, <3>3 DEF MapsTypeOK
  <2>3. ASSUME NEW o \in Objs, ClearConfig(o) PROVE MapsTypeOK'
    <3>1. writes' \in 0..MaxWrites
      BY <1>1, <2>3, AlgAssumption DEF ClearConfig, DaemonMayWrite, MapsTypeOK
    <3>2. cfgMap' \in [Objs -> Cfgs] /\ granted' \in [Objs -> Cfgs] /\ rateMap' \in [Objs -> Nat]
      BY <1>1, <2>3, ZeroCfgType DEF ClearConfig, MapsTypeOK
    <3>. QED BY <3>1, <3>2 DEF MapsTypeOK
  <2>. QED BY <2>1, <2>2, <2>3
<1>4. LocalsTypeOK' /\ CycleInv'
  BY <1>1, <1>2, LocalsKept, CycleKept
<1>5. TypeOK'
  BY <1>3, <1>4 DEF TypeOK, MapsTypeOK, LocalsTypeOK
<1>. QED BY <1>4, <1>5 DEF AlgInv

LEMMA BatchStep ==
  ASSUME AlgInv, BatchReadThrottleStat \/ BatchReadThrottleCfg \/ BatchWriteThrottleCfg
  PROVE  AlgInv'
<1>1. MapsTypeOK /\ LocalsTypeOK /\ CycleInv
  BY TypeParts DEF AlgInv
<1>2. CASE BatchReadThrottleStat
  <2>1. MapsTypeOK'
    BY <1>1, <1>2 DEF BatchReadThrottleStat, MapsTypeOK
  <2>2. rate' \in [Objs -> Nat] /\ pc' = "readCfg"
    BY <1>1, <1>2 DEF BatchReadThrottleStat, MapsTypeOK
  <2>3. LocalsTypeOK'
    BY <1>1, <1>2, <2>2, Zenon DEF BatchReadThrottleStat, LocalsTypeOK, countVars
  <2>4. CycleInv'
    <3>1. id' = 0
      BY <1>1, <1>2 DEF BatchReadThrottleStat, CycleInv
    <3>. QED BY <2>2, <3>1 DEF CycleInv
  <2>. QED BY <2>1, <2>3, <2>4 DEF AlgInv, TypeOK, MapsTypeOK, LocalsTypeOK
<1>3. CASE BatchReadThrottleCfg
  <2>1. MapsTypeOK'
    BY <1>1, <1>3, MapsKept DEF BatchReadThrottleCfg
  <2>2. cfg' \in [Objs -> Cfgs] /\ seen' \in [Objs -> Cfgs] /\ pc' = "adjust" /\ cfg' = seen'
    BY <1>1, <1>3 DEF BatchReadThrottleCfg, MapsTypeOK
  <2>3. LocalsTypeOK'
    BY <1>1, <1>3, <2>2, Zenon DEF BatchReadThrottleCfg, LocalsTypeOK, countVars
  <2>4. CycleInv'
    <3>1. id' = 0
      BY <1>1, <1>3 DEF BatchReadThrottleCfg, CycleInv
    <3>. QED BY <2>2, <3>1 DEF CycleInv
  <2>. QED BY <2>1, <2>3, <2>4 DEF AlgInv, TypeOK, MapsTypeOK, LocalsTypeOK
<1>4. CASE BatchWriteThrottleCfg
  <2>1. MapsTypeOK'
    BY <1>1, <1>4 DEF BatchWriteThrottleCfg, MapsTypeOK, LocalsTypeOK
  <2>2. cfg' \in [Objs -> Cfgs] /\ seen' \in [Objs -> Cfgs]
    BY <1>4, ZeroCfgType DEF BatchWriteThrottleCfg
  <2>3. status' \in [Objs -> 0..2] /\ 0 \in Objs
    BY <1>4, AlgAssumption DEF BatchWriteThrottleCfg, DownReqRate, Objs
  <2>4. allReached' \in BOOLEAN
    BY <1>4, Zenon DEF BatchWriteThrottleCfg
  <2>5. /\ remainBw' \in Int /\ remainBwVary' \in Int
        /\ priorityCnt' \in [Priorities -> Nat] /\ rate' \in [Objs -> Nat]
        /\ lowRateReachCnt' \in Nat /\ downReqRateCnt' \in Nat /\ allocDivide' \in Nat
    BY <1>4 DEF BatchWriteThrottleCfg
  <2>6. pc' = "readStat" /\ id' = 0
    BY <1>4 DEF BatchWriteThrottleCfg
  <2>7. LocalsTypeOK'
    BY <2>2, <2>3, <2>4, <2>5, <2>6 DEF LocalsTypeOK
  <2>8. CycleInv'
    BY <2>6 DEF CycleInv
  <2>. QED BY <2>1, <2>7, <2>8 DEF AlgInv, TypeOK, MapsTypeOK, LocalsTypeOK
<1>. QED BY <1>2, <1>3, <1>4

-----------------------------------------------------------------------------
(* The first loop.                                                          *)

LEMMA ThreeParts ==
  ASSUME NEW A, IsFiniteSet(A), NEW B \in SUBSET A, NEW C \in SUBSET A, NEW D \in SUBSET A,
         B \cap C = {}, B \cap D = {}, C \cap D = {}
  PROVE  /\ Cardinality(B) + Cardinality(C) + Cardinality(D) <= Cardinality(A)
         /\ B \cup C \cup D = A
              => Cardinality(B) + Cardinality(C) + Cardinality(D) = Cardinality(A)
<1>1. IsFiniteSet(B) /\ IsFiniteSet(C) /\ IsFiniteSet(D)
  BY FS_Subset
<1>2. /\ IsFiniteSet(B \cup C)
      /\ Cardinality(B \cup C) = Cardinality(B) + Cardinality(C) - Cardinality(B \cap C)
  BY <1>1, FS_Union
<1>3. /\ IsFiniteSet((B \cup C) \cup D)
      /\ Cardinality((B \cup C) \cup D)
           = Cardinality(B \cup C) + Cardinality(D) - Cardinality((B \cup C) \cap D)
  BY <1>1, <1>2, FS_Union
<1>4. (B \cup C) \cap D = {}
  OBVIOUS
<1>5. Cardinality({}) = 0
  BY FS_EmptySet
<1>6. Cardinality((B \cup C) \cup D) <= Cardinality(A)
  <2>1. (B \cup C) \cup D \in SUBSET A
    OBVIOUS
  <2>. QED BY <2>1, FS_Subset
<1>7. /\ Cardinality(B) \in Nat /\ Cardinality(C) \in Nat /\ Cardinality(D) \in Nat
      /\ Cardinality(B \cup C) \in Nat /\ Cardinality(A) \in Nat
  BY <1>1, <1>2, FS_CardinalityType
<1>8. Cardinality((B \cup C) \cup D) = Cardinality(B) + Cardinality(C) + Cardinality(D)
  <2>1. Cardinality((B \cup C) \cap D) = 0 /\ Cardinality(B \cap C) = 0
    BY <1>4, <1>5, Zenon
  <2>. QED BY <1>2, <1>3, <1>7, <2>1
<1>9. (B \cup C) \cup D = B \cup C \cup D
  OBVIOUS
<1>. QED BY <1>6, <1>8, <1>9

LEMMA Percents ==
  /\ PriorityAllocPercent \in [Priorities -> Nat]
  /\ PriorityAllocPercent[0] = 10
  /\ PriorityAllocPercent[1] = 20
  /\ PriorityAllocPercent[2] = 70
<1>1. \A p \in Priorities : p = 0 \/ p = 1 \/ p = 2
  BY DEF Priorities
<1>2. 0 \in Priorities /\ 1 \in Priorities /\ 2 \in Priorities
  BY DEF Priorities
<1>3. PriorityAllocPercent[0] = 10 /\ PriorityAllocPercent[1] = 20 /\ PriorityAllocPercent[2] = 70
  BY <1>2 DEF PriorityAllocPercent
<1>4. \A p \in Priorities : PriorityAllocPercent[p] \in Nat
  BY <1>1, <1>3
<1>5. PriorityAllocPercent \in [Priorities -> Nat]
  BY <1>4, Zenon DEF PriorityAllocPercent
<1>. QED BY <1>3, <1>5

LEMMA PercentSum ==
  ASSUME NEW C \in SUBSET Priorities
  PROVE  SumOver(PriorityAllocPercent, C)
           = (IF 0 \in C THEN 10 ELSE 0) + (IF 1 \in C THEN 20 ELSE 0)
               + (IF 2 \in C THEN 70 ELSE 0)
<1>. DEFINE f == PriorityAllocPercent
<1>1. f \in [Priorities -> Nat] /\ f[0] = 10 /\ f[1] = 20 /\ f[2] = 70
  BY Percents
<1>2. IsFiniteSet(Priorities)
  <2>1. 0 \in Int /\ 2 \in Int
    OBVIOUS
  <2>2. IsFiniteSet(0..2)
    BY <2>1, FS_Interval, Zenon
  <2>. QED BY <2>2 DEF Priorities
<1>. HIDE DEF f
<1>3. ASSUME NEW S \in SUBSET Priorities, NEW p \in Priorities
      PROVE  /\ S \ {p} \in SUBSET Priorities
             /\ SumOver(f, S) \in Nat
             /\ SumOver(f, S) = (IF p \in S THEN f[p] ELSE 0) + SumOver(f, S \ {p})
  <2>1. IsFiniteSet(S) /\ IsFiniteSet(S \ {p}) /\ S \ {p} \in SUBSET Priorities
    BY <1>2, FS_Subset
  <2>2. SumOver(f, S) \in Nat /\ SumOver(f, S \ {p}) \in Nat
    BY <1>1, <2>1, SumType
  <2>3. CASE p \in S
    <3>1. SumOver(f, S) = f[p] + SumOver(f, S \ {p})
      BY <1>1, <2>1, <2>3, SumRemove
    <3>. QED BY <2>1, <2>2, <2>3, <3>1, Zenon
  <2>4. CASE p \notin S
    <3>1. S \ {p} = S
      BY <2>4
    <3>2. (IF p \in S THEN f[p] ELSE 0) = 0
      BY <2>4
    <3>3. SumOver(f, S) = 0 + SumOver(f, S)
      BY <2>2
    <3>. QED BY <2>1, <2>2, <3>1, <3>2, <3>3, Zenon
  <2>. QED BY <2>1, <2>2, <2>3, <2>4
<1>. DEFINE D == C \ {0}
            E == D \ {1}
            F == E \ {2}
<1>4. 0 \in Priorities /\ 1 \in Priorities /\ 2 \in Priorities
  BY DEF Priorities
<1>5. SumOver(f, C) = (IF 0 \in C THEN f[0] ELSE 0) + SumOver(f, D) /\ D \in SUBSET Priorities
  BY <1>3, <1>4
<1>6. SumOver(f, D) = (IF 1 \in D THEN f[1] ELSE 0) + SumOver(f, E) /\ E \in SUBSET Priorities
  BY <1>3, <1>4, <1>5
<1>7. SumOver(f, E) = (IF 2 \in E THEN f[2] ELSE 0) + SumOver(f, F) /\ F \in SUBSET Priorities
  BY <1>3, <1>4, <1>6
<1>8. F = {}
  BY DEF Priorities
<1>9. SumOver(f, {}) = 0
  BY SumStep, FS_EmptySet
<1>10. (1 \in D <=> 1 \in C) /\ (2 \in E <=> 2 \in C)
  OBVIOUS
<1>. HIDE DEF D, E, F
<1>. QED BY <1>1, <1>5, <1>6, <1>7, <1>8, <1>9, <1>10 DEF f

\* What has been handed out is never negative.
HandedIsNat ==
  \A X \in SUBSET Objs, p \in Priorities :
    LocalsTypeOK /\ Counts(X) /\ remainBw > 0 => Handed(X, p) \in Nat

LEMMA HandedNat == HandedIsNat
<1>1. SUFFICES ASSUME NEW X \in SUBSET Objs, NEW p \in Priorities,
                      LocalsTypeOK, Counts(X), remainBw > 0, priorityCnt[p] # 0
               PROVE  Handed(X, p) \in Nat
  BY DEF Handed, HandedIsNat
<1>2. priorityCnt \in [Priorities -> Nat] /\ remainBw \in Nat /\ allocDivide \in Nat
  BY <1>1 DEF LocalsTypeOK
<1>3. allocDivide > 0
  <2>1. \A q \in Priorities : Weight(q) \in Nat
    BY <1>2, Percents DEF Weight
  <2>2. p = 0 \/ p = 1 \/ p = 2
    BY DEF Priorities
  <2>3. Weight(p) > 0
    BY <1>1, <1>2, <2>2, Percents DEF Weight
  <2>4. Weight(0) \in Nat /\ Weight(1) \in Nat /\ Weight(2) \in Nat
    BY <2>1 DEF Priorities
  <2>5. Weight(0) + Weight(1) + Weight(2) <= allocDivide
    BY <1>1 DEF Counts
  <2>. QED BY <1>2, <2>2, <2>3, <2>4, <2>5
<1>4. Quota(p) \in Nat
  <2>1. remainBw * PriorityAllocPercent[p] \in Nat
    BY <1>2, Percents
  <2>2. (remainBw * PriorityAllocPercent[p]) \div allocDivide \in Nat
    BY <1>2, <1>3, <2>1, DivFacts
  <2>. QED BY <1>1, <1>2, <2>2, DivFacts DEF Quota
<1>5. Cardinality(ReachedIn(X, p)) \in Nat /\ Cardinality(ReachedIn(X, p)) <= priorityCnt[p]
  <2>1. ReachedIn(X, p) \in SUBSET CountedIn(X, p)
    BY DEF ReachedIn, CountedIn, ReachedLowRate, DownReqRate
  <2>2. CountedIn(X, p) \in SUBSET Objs
    BY DEF CountedIn
  <2>3. IsFiniteSet(CountedIn(X, p)) /\ Cardinality(CountedIn(X, p)) \in Nat
    BY <2>2, ObjsFinite
  <2>4. Cardinality(ReachedIn(X, p)) <= Cardinality(CountedIn(X, p))
    BY <2>1, <2>3, FS_Subset
  <2>5. Cardinality(ReachedIn(X, p)) \in Nat
    BY <2>1, <2>2, ObjsFinite
  <2>. QED BY <1>1, <1>2, <2>3, <2>4, <2>5 DEF Counts
<1>6. priorityCnt[p] - Cardinality(ReachedIn(X, p)) \in Nat
  BY <1>2, <1>5
<1>. HIDE DEF Quota
<1>7. (priorityCnt[p] - Cardinality(ReachedIn(X, p))) * (Quota(p) + 1) \in Nat
  BY <1>4, <1>6
<1>. QED BY <1>1, <1>7 DEF Handed

LEMMA HandedNatNext == HandedIsNat'
BY HandedNat, PTL

Having(s) == {o \in Active : NewStatus(o) = s}
CountedNew(p) == {o \in Active : cfg[o].priority = p /\ NewStatus(o) # DownReqRate}

LEMMA AdjustSets ==
  ASSUME LocalsTypeOK
  PROVE  /\ \A o \in Objs : NewReqRate(o) \in Nat /\ NewStatus(o) \in 0..2
         /\ \A s : Having(s) \in SUBSET Active /\ Cardinality(Having(s)) \in Nat
         /\ \A p : CountedNew(p) \in SUBSET Active /\ Cardinality(CountedNew(p)) \in Nat
         /\ Cardinality(Having(ReachedLowRate)) + Cardinality(Having(DownReqRate))
              + Cardinality(Having(NeedReachLowRate)) = ValidObjCnt
         /\ Cardinality(CountedNew(0)) + Cardinality(CountedNew(1)) + Cardinality(CountedNew(2))
              <= ValidObjCnt
<1>1. \A o \in Objs : rate[o] \in Nat /\ cfg[o].reqRate \in Nat /\ cfg[o].lowRate \in Nat
  BY DEF LocalsTypeOK, Cfgs
<1>2. \A o \in Objs : NewReqRate(o) \in Nat /\ NewStatus(o) \in 0..2
  BY <1>1, AllocTypes DEF NewReqRate, NewStatus
<1>3. Active \in SUBSET Objs /\ IsFiniteSet(Active)
  BY ActiveObjs
<1>4. \A s : Having(s) \in SUBSET Active /\ Cardinality(Having(s)) \in Nat
  <2>1. \A s : Having(s) \in SUBSET Active /\ Having(s) \in SUBSET Objs
    BY <1>3 DEF Having
  <2>. QED BY <2>1, ObjsFinite
<1>5. \A p : CountedNew(p) \in SUBSET Active /\ Cardinality(CountedNew(p)) \in Nat
  <2>1. \A p : CountedNew(p) \in SUBSET Active /\ CountedNew(p) \in SUBSET Objs
    BY <1>3 DEF CountedNew
  <2>. QED BY <2>1, ObjsFinite
<1>6. Cardinality(Having(ReachedLowRate)) + Cardinality(Having(DownReqRate))
        + Cardinality(Having(NeedReachLowRate)) = ValidObjCnt
  <2>. DEFINE B == Having(ReachedLowRate)
              C == Having(DownReqRate)
              D == Having(NeedReachLowRate)
  <2>1. B \cap C = {} /\ B \cap D = {} /\ C \cap D = {}
    BY DEF Having, ReachedLowRate, DownReqRate, NeedReachLowRate
  <2>2. B \cup C \cup D = Active
    BY <1>2, <1>3 DEF Having, ReachedLowRate, DownReqRate, NeedReachLowRate
  <2>3. B \in SUBSET Active /\ C \in SUBSET Active /\ D \in SUBSET Active
    BY <1>4
  <2>. HIDE DEF B, C, D
  <2>4. Cardinality(B) + Cardinality(C) + Cardinality(D) = Cardinality(Active)
    BY <1>3, <2>1, <2>2, <2>3, ThreeParts
  <2>. QED BY <2>4 DEF B, C, D, ValidObjCnt
<1>7. Cardinality(CountedNew(0)) + Cardinality(CountedNew(1)) + Cardinality(CountedNew(2))
        <= ValidObjCnt
  <2>. DEFINE B == CountedNew(0)
              C == CountedNew(1)
              D == CountedNew(2)
  <2>1. B \cap C = {} /\ B \cap D = {} /\ C \cap D = {}
    BY DEF CountedNew
  <2>3. B \in SUBSET Active /\ C \in SUBSET Active /\ D \in SUBSET Active
    BY <1>5
  <2>. HIDE DEF B, C, D
  <2>4. Cardinality(B) + Cardinality(C) + Cardinality(D) <= Cardinality(Active)
    BY <1>3, <2>1, <2>3, ThreeParts
  <2>. QED BY <2>4 DEF B, C, D, ValidObjCnt
<1>. QED BY <1>2, <1>4, <1>5, <1>6, <1>7

\* What the first loop leaves, with its local names.
LEMMA AdjustEffect ==
  ASSUME LocalsTypeOK, Adjust
  PROVE  /\ pc = "adjust" /\ pc' = "share" /\ id' = id /\ rate' = rate /\ seen' = seen
         /\ \A o \in Objs : /\ cfg'[o].priority = cfg[o].priority
                            /\ o \in Active => cfg'[o].reqRate = NewReqRate(o)
         /\ cfg' \in [Objs -> Cfgs]
         /\ status' = [o \in Objs |-> IF o \in Active THEN NewStatus(o) ELSE DownReqRate]
         /\ remainBw' = Remain /\ remainBwVary' = Remain
         /\ priorityCnt' = [p \in Priorities |-> Cardinality(CountedNew(p))]
         /\ lowRateReachCnt' = Cardinality(Having(ReachedLowRate))
         /\ downReqRateCnt' = Cardinality(Having(DownReqRate))
         /\ allReached' = AllReachedTest(lowRateReachCnt', downReqRateCnt')
         /\ allocDivide' = SumOver(PriorityAllocPercent,
                                   {p \in Priorities : CountedNew(p) # {}})
         /\ UNCHANGED mapVars
<1>1. cfg' = [o \in Objs |-> IF o \in Active
                             THEN [cfg[o] EXCEPT !.reqRate = NewReqRate(o)] ELSE cfg[o]]
  BY DEF Adjust
<1>2. \A o \in Objs : cfg[o] \in Cfgs /\ NewReqRate(o) \in Nat
  BY AdjustSets DEF LocalsTypeOK
<1>3. \A o \in Objs : [cfg[o] EXCEPT !.reqRate = NewReqRate(o)] \in Cfgs
  BY <1>2 DEF Cfgs
<1>4. cfg' \in [Objs -> Cfgs]
  BY <1>1, <1>2, <1>3
<1>5. \A o \in Objs : /\ cfg'[o].priority = cfg[o].priority
                      /\ o \in Active => cfg'[o].reqRate = NewReqRate(o)
  BY <1>1, <1>2 DEF Cfgs
<1>. QED BY <1>4, <1>5, Zenon DEF Adjust, Having, CountedNew

LEMMA AdjustStep ==
  ASSUME AlgInv, Adjust
  PROVE  AlgInv'
<1>1. MapsTypeOK /\ LocalsTypeOK /\ CycleInv
  BY TypeParts DEF AlgInv
<1>2. /\ pc = "adjust" /\ pc' = "share" /\ id' = id /\ rate' = rate /\ seen' = seen
      /\ \A o \in Objs : /\ cfg'[o].priority = cfg[o].priority
                         /\ o \in Active => cfg'[o].reqRate = NewReqRate(o)
      /\ cfg' \in [Objs -> Cfgs]
      /\ status' = [o \in Objs |-> IF o \in Active THEN NewStatus(o) ELSE DownReqRate]
      /\ remainBw' = Remain /\ remainBwVary' = Remain
      /\ priorityCnt' = [p \in Priorities |-> Cardinality(CountedNew(p))]
      /\ lowRateReachCnt' = Cardinality(Having(ReachedLowRate))
      /\ downReqRateCnt' = Cardinality(Having(DownReqRate))
      /\ allReached' = AllReachedTest(lowRateReachCnt', downReqRateCnt')
      /\ allocDivide' = SumOver(PriorityAllocPercent,
                                {p \in Priorities : CountedNew(p) # {}})
      /\ UNCHANGED mapVars
  BY <1>1, AdjustEffect
<1>3. /\ \A o \in Objs : NewReqRate(o) \in Nat /\ NewStatus(o) \in 0..2
      /\ \A s : Having(s) \in SUBSET Active /\ Cardinality(Having(s)) \in Nat
      /\ \A p : CountedNew(p) \in SUBSET Active /\ Cardinality(CountedNew(p)) \in Nat
      /\ Cardinality(Having(ReachedLowRate)) + Cardinality(Having(DownReqRate))
           + Cardinality(Having(NeedReachLowRate)) = ValidObjCnt
      /\ Cardinality(CountedNew(0)) + Cardinality(CountedNew(1)) + Cardinality(CountedNew(2))
           <= ValidObjCnt
  BY <1>1, AdjustSets
<1>4. Active \in SUBSET Objs /\ IsFiniteSet(Active) /\ ValidObjCnt \in Nat
  BY ActiveObjs
<1>5. id = 0 /\ cfg = seen
  BY <1>1, <1>2 DEF CycleInv
<1>6. Active' = Active /\ ValidObjCnt' = ValidObjCnt
  BY <1>2, Zenon DEF Active, ValidObjCnt
<1>7. Pending' = Active
  <2>1. \A o \in Active : o >= id'
    BY <1>2, <1>4, <1>5, AlgAssumption DEF Objs
  <2>. QED BY <1>6, <2>1 DEF Pending
<1>8. NewReqRates \in [Objs -> Nat]
  BY <1>3 DEF NewReqRates
<1>9. Remain \in Int
  <2>1. SumOver(NewReqRates, Active) \in Nat
    BY <1>4, <1>8, SumType
  <2>. QED BY <2>1, AlgAssumption DEF Remain
<1>10. allocDivide' \in Nat
  <2>1. {p \in Priorities : CountedNew(p) # {}} \in SUBSET Priorities
    OBVIOUS
  <2>. QED BY <1>2, <2>1, PercentSum
<1>11. MapsTypeOK'
  BY <1>1, <1>2, MapsKept
<1>12. LocalsTypeOK'
  <2>1. status' \in [Objs -> 0..2]
    BY <1>2, <1>3 DEF DownReqRate
  <2>2. priorityCnt' \in [Priorities -> Nat]
    BY <1>2, <1>3
  <2>3. lowRateReachCnt' \in Nat /\ downReqRateCnt' \in Nat
    BY <1>2, <1>3
  <2>4. allReached' \in BOOLEAN
    BY <1>2, Zenon DEF AllReachedTest
  <2>5. pc' \in {"readStat", "readCfg", "adjust", "share", "write"}
    BY <1>2
  <2>6. remainBw' \in Int /\ remainBwVary' \in Int
    BY <1>2, <1>9
  <2>. QED BY <1>1, <1>2, <1>10, <2>1, <2>2, <2>3, <2>4, <2>5, <2>6, Zenon DEF LocalsTypeOK
<1>13. Committed' = TotalBw - remainBwVary'
  <2>. DEFINE f == [o \in Objs |-> cfg'[o].reqRate]
  <2>1. \A o \in Active : f[o] = NewReqRates[o]
    BY <1>2, <1>4 DEF NewReqRates
  <2>. HIDE DEF f
  <2>2. SumOver(f, Active) = SumOver(NewReqRates, Active)
    BY <1>4, <2>1, SumSame
  <2>3. Committed' = SumOver(f, Active)
    BY <1>6, Zenon DEF Committed, f
  <2>4. SumOver(f, Active) \in Nat
    BY <1>4, <1>8, <2>2, SumType
  <2>. QED BY <1>2, <2>2, <2>3, <2>4, AlgAssumption DEF Remain
<1>14. NeedIn(Active)' = Having(NeedReachLowRate)
  BY <1>2, <1>4, <1>6 DEF NeedIn, Having
<1>15. BelowLowDivisor' = Cardinality(Having(NeedReachLowRate))
  BY <1>2, <1>3, <1>4, <1>6 DEF BelowLowDivisor
<1>16. \A p : CountedIn(Active, p)' = CountedNew(p)
  BY <1>2, <1>4, <1>6 DEF CountedIn, CountedNew
<1>17. Counts(Active)'
  <2>1. (\A o \in Objs \ Active : status[o] = DownReqRate)'
    BY <1>2, <1>6
  <2>2. (Cardinality(NeedIn(Active)) <= BelowLowDivisor)'
    BY <1>3, <1>14, <1>15
  <2>3. (allReached <=> BelowLowDivisor = 0)'
    <3>1. AllReachedTest(lowRateReachCnt', downReqRateCnt')
            <=> \/ lowRateReachCnt' = ValidObjCnt
                \/ lowRateReachCnt' + downReqRateCnt' = ValidObjCnt
      BY DEF AllReachedTest
    <3>2. AllReachedTest(lowRateReachCnt', downReqRateCnt') <=> BelowLowDivisor' = 0
      BY <3>1, <1>2, <1>3, <1>4, <1>15
    <3>. QED BY <1>2, <3>2, Zenon
  <2>4. (\A p \in Priorities : Cardinality(CountedIn(Active, p)) <= priorityCnt[p])'
    BY <1>2, <1>3, <1>16
  <2>5. (priorityCnt[0] + priorityCnt[1] + priorityCnt[2] <= ValidObjCnt)'
    <3>1. 0 \in Priorities /\ 1 \in Priorities /\ 2 \in Priorities
      BY DEF Priorities
    <3>. QED BY <1>2, <1>3, <1>6, <3>1
  <2>6. (Weight(0) + Weight(1) + Weight(2) <= allocDivide)'
    <3>. DEFINE C == {p \in Priorities : CountedNew(p) # {}}
    <3>1. 0 \in Priorities /\ 1 \in Priorities /\ 2 \in Priorities
      BY DEF Priorities
    <3>2. \A p \in Priorities : p \in C <=> priorityCnt'[p] > 0
      <4>1. \A p : CountedNew(p) \in SUBSET Objs
        BY <1>3, <1>4
      <4>2. \A p : CountedNew(p) # {} <=> Cardinality(CountedNew(p)) > 0
        BY <1>3, <4>1, ObjsFinite, FS_EmptySet
      <4>. QED BY <1>2, <4>2
    <3>3. SumOver(PriorityAllocPercent, C)
            = (IF 0 \in C THEN 10 ELSE 0) + (IF 1 \in C THEN 20 ELSE 0)
                + (IF 2 \in C THEN 70 ELSE 0)
      BY PercentSum
    <3>. HIDE DEF C
    <3>4. /\ Weight(0)' = IF 0 \in C THEN 10 ELSE 0
          /\ Weight(1)' = IF 1 \in C THEN 20 ELSE 0
          /\ Weight(2)' = IF 2 \in C THEN 70 ELSE 0
      BY <3>1, <3>2, Percents DEF Weight
    <3>5. Weight(0)' + Weight(1)' + Weight(2)' = allocDivide'
      BY <1>2, <3>3, <3>4 DEF C
    <3>. QED BY <1>10, <3>5
  <2>. QED BY <2>1, <2>2, <2>3, <2>4, <2>5, <2>6 DEF Counts
<1>18. Bound(Active)'
  <2>1. remainBwVary' = remainBw' /\ remainBw' \in Int
    BY <1>2, <1>9
  <2>2. CASE remainBw' <= 0
    BY <2>1, <2>2 DEF Bound
  <2>3. CASE remainBw' > 0 /\ allReached'
    <3>1. 0 \in Priorities /\ 1 \in Priorities /\ 2 \in Priorities
      BY DEF Priorities
    <3>2. \A p \in Priorities : Handed(Active, p)' \in Nat
      BY <1>4, <1>6, <1>12, <1>17, <2>3, HandedNatNext DEF HandedIsNat
    <3>3. remainBwVary' >= remainBw' - Handed(Active, 0)' - Handed(Active, 1)' - Handed(Active, 2)'
      BY <2>1, <3>1, <3>2
    <3>4. ~ (remainBw' <= 0)
      BY <2>1, <2>3
    <3>. QED BY <2>3, <3>3, <3>4, Zenon DEF Bound
  <2>4. CASE remainBw' > 0 /\ ~allReached'
    <3>1. BelowLowDivisor' - Cardinality(NeedIn(Active)') = 0
      BY <1>3, <1>14, <1>15
    <3>2. BelowLowDivisor' \in Nat /\ BelowLowDivisor' # 0
      BY <1>3, <1>15, <1>17, <2>4 DEF Counts
    <3>3. remainBw' \div BelowLowDivisor' + 1 \in Int
      BY <2>1, <2>4, <3>2, DivFacts
    <3>4. remainBwVary' >= remainBw' - (BelowLowDivisor' - Cardinality(NeedIn(Active)'))
                                         * (remainBw' \div BelowLowDivisor' + 1)
      BY <2>1, <3>1, <3>3
    <3>5. ~ (remainBw' <= 0)
      BY <2>1, <2>4
    <3>. QED BY <2>4, <3>4, <3>5, Zenon DEF Bound
  <2>. QED BY <2>1, <2>2, <2>3, <2>4
<1>19. Serves(Active)'
  <2>1. \A o \in Active : cfg'[o].reqRate = ReadReqRate(o)'
    BY <1>2, <1>4, <1>5 DEF ReadReqRate, NewReqRate
  <2>2. {o \in Active \ Active : Needy(o)'} = {}
    OBVIOUS
  <2>3. Cardinality({o \in Active \ Active : Needy(o)'}) = 0
    BY <2>2, FS_EmptySet, Zenon
  <2>4. BelowLowDivisor' - Cardinality(NeedIn(Active)') = 0
    BY <1>3, <1>14, <1>15
  <2>5. Cardinality({o \in Active \ Active : Needy(o)'})
          <= BelowLowDivisor' - Cardinality(NeedIn(Active)')
    BY <2>3, <2>4
  <2>. QED BY <1>6, <2>1, <2>5, Zenon DEF Serves
<1>20. Sharing(Pending)'
  BY <1>7, <1>6, <1>17, <1>18, <1>19, Zenon DEF Sharing
<1>21. CycleInv'
  BY <1>2, <1>13, <1>20 DEF CycleInv
<1>. QED BY <1>11, <1>12, <1>21 DEF AlgInv, TypeOK, MapsTypeOK, LocalsTypeOK

-----------------------------------------------------------------------------
(* The second loop: what its invariant says wherever it ends.               *)

\* c objects that each get one more than a c-th of a get at most a + c.
LEMMA EqualShares ==
  ASSUME NEW a \in Nat, NEW c \in Nat \ {0}, NEW h \in Nat, h <= c
  PROVE  h * (a \div c + 1) <= a + c
<1>. DEFINE q == a \div c
<1>1. q \in Nat /\ c * q <= a
  BY DivFacts
<1>. HIDE DEF q
<1>2. h * (q + 1) <= c * (q + 1)
  BY <1>1, MulMono
<1>3. c * (q + 1) = c * q + c /\ c * q \in Nat /\ h * (q + 1) \in Nat
  BY <1>1
<1>4. h * (q + 1) <= a + c
  BY <1>1, <1>2, <1>3
<1>. QED BY <1>4 DEF q

\* Parts of r in proportion to their weights do not exceed r.
LEMMA Proportions ==
  ASSUME NEW r \in Nat, NEW A \in Nat \ {0},
         NEW x \in Nat, NEW y \in Nat, NEW z \in Nat,
         NEW u \in Nat, NEW v \in Nat, NEW w \in Nat,
         A * x <= r * u, A * y <= r * v, A * z <= r * w, u + v + w <= A
  PROVE  x + y + z <= r
<1>1. A * (x + y + z) = A * x + A * y + A * z
  OBVIOUS
<1>2. r * (u + v + w) = r * u + r * v + r * w
  OBVIOUS
<1>3. r * (u + v + w) <= r * A
  BY MulMono
<1>4. /\ A * x \in Nat /\ A * y \in Nat /\ A * z \in Nat
      /\ r * u \in Nat /\ r * v \in Nat /\ r * w \in Nat /\ r * A \in Nat
  OBVIOUS
<1>5. A * (x + y + z) <= r * A
  BY <1>1, <1>2, <1>3, <1>4
<1>6. SUFFICES ASSUME x + y + z > r PROVE FALSE
  OBVIOUS
<1>7. A * (r + 1) <= A * (x + y + z)
  BY <1>6, MulMono
<1>8. A * (r + 1) = r * A + A
  OBVIOUS
<1>9. A * (x + y + z) \in Nat
  OBVIOUS
<1>. QED BY <1>4, <1>5, <1>7, <1>8, <1>9

BoundIsEnough ==
  \A X \in SUBSET Objs : LocalsTypeOK /\ Counts(X) /\ Bound(X) => Bounded

LEMMA BoundSuffices == BoundIsEnough
<1>1. SUFFICES ASSUME NEW X \in SUBSET Objs, LocalsTypeOK, Counts(X), Bound(X)
               PROVE  Bounded
  BY DEF BoundIsEnough
<1>2. /\ remainBw \in Int /\ remainBwVary \in Int
      /\ priorityCnt \in [Priorities -> Nat]
      /\ lowRateReachCnt \in Nat /\ downReqRateCnt \in Nat /\ allocDivide \in Nat
  BY <1>1 DEF LocalsTypeOK
<1>3. ValidObjCnt \in Nat
  BY ActiveObjs
<1>4. CASE remainBw <= 0
  BY <1>1, <1>4 DEF Bound, Bounded
<1>5. CASE ~(remainBw <= 0) /\ allReached
  <2>1. remainBw \in Nat /\ remainBw > 0
    BY <1>2, <1>5
  <2>2. remainBwVary >= remainBw - Handed(X, 0) - Handed(X, 1) - Handed(X, 2)
    BY <1>1, <1>5, Zenon DEF Bound
  <2>. DEFINE a(p) == IF priorityCnt[p] = 0 THEN 0
                      ELSE (remainBw * PriorityAllocPercent[p]) \div allocDivide
  <2>3. 0 \in Priorities /\ 1 \in Priorities /\ 2 \in Priorities
    BY DEF Priorities
  <2>4. \A p \in Priorities : Weight(p) \in Nat /\ PriorityAllocPercent[p] \in Nat \ {0}
    <3>1. \A p \in Priorities : p = 0 \/ p = 1 \/ p = 2
      BY DEF Priorities
    <3>2. \A p \in Priorities : PriorityAllocPercent[p] \in Nat \ {0}
      BY <3>1, Percents
    <3>. QED BY <1>2, <3>2 DEF Weight
  <2>5. Weight(0) + Weight(1) + Weight(2) <= allocDivide
    BY <1>1 DEF Counts
  <2>6. CASE allocDivide = 0
    <3>1. Weight(0) = 0 /\ Weight(1) = 0 /\ Weight(2) = 0
      BY <2>3, <2>4, <2>5, <2>6
    <3>2. \A p \in Priorities : Weight(p) = 0 => priorityCnt[p] = 0
      BY <1>2, <2>4 DEF Weight
    <3>3. Handed(X, 0) = 0 /\ Handed(X, 1) = 0 /\ Handed(X, 2) = 0
      BY <2>3, <3>1, <3>2 DEF Handed
    <3>4. remainBwVary >= 0 - ValidObjCnt
      BY <1>2, <1>3, <2>1, <2>2, <3>3
    <3>. QED BY <1>5, <3>4, Zenon DEF Bounded
  <2>7. CASE allocDivide # 0
    <3>1. \A p \in Priorities : a(p) \in Nat /\ allocDivide * a(p) <= remainBw * Weight(p)
      <4>1. SUFFICES ASSUME NEW p \in Priorities
                     PROVE  a(p) \in Nat /\ allocDivide * a(p) <= remainBw * Weight(p)
        OBVIOUS
      <4>2. CASE priorityCnt[p] = 0
        <5>1. a(p) = 0 /\ Weight(p) = 0
          BY <4>2 DEF Weight
        <5>. HIDE DEF a
        <5>. QED BY <1>2, <2>1, <5>1
      <4>3. CASE priorityCnt[p] # 0
        <5>1. Weight(p) = PriorityAllocPercent[p]
          BY <1>2, <4>3 DEF Weight
        <5>2. remainBw * PriorityAllocPercent[p] \in Nat
          BY <2>1, <2>4
        <5>3. a(p) = (remainBw * PriorityAllocPercent[p]) \div allocDivide
          BY <4>3
        <5>. HIDE DEF a
        <5>4. a(p) \in Nat /\ allocDivide * a(p) <= remainBw * PriorityAllocPercent[p]
          BY <1>2, <2>7, <5>2, <5>3, DivFacts
        <5>. QED BY <5>1, <5>4
      <4>. QED BY <4>2, <4>3
    <3>2. \A p \in Priorities : Handed(X, p) \in Nat /\ Handed(X, p) <= a(p) + priorityCnt[p]
      <4>1. SUFFICES ASSUME NEW p \in Priorities, priorityCnt[p] # 0
                     PROVE  Handed(X, p) <= a(p) + priorityCnt[p]
        <5>1. \A p \in Priorities : Handed(X, p) \in Nat
          BY <1>1, <2>1, HandedNat DEF HandedIsNat
        <5>2. \A p \in Priorities : priorityCnt[p] = 0 => Handed(X, p) = 0 /\ a(p) = 0
          BY DEF Handed
        <5>. HIDE DEF a
        <5>. QED BY <1>2, <5>1, <5>2
      <4>2. a(p) = (remainBw * PriorityAllocPercent[p]) \div allocDivide
        BY <4>1
      <4>3. a(p) \in Nat /\ priorityCnt[p] \in Nat \ {0}
        BY <1>2, <3>1, <4>1
      <4>. HIDE DEF a
      <4>. DEFINE h == priorityCnt[p] - Cardinality(ReachedIn(X, p))
      <4>4. h \in Nat /\ h <= priorityCnt[p]
        <5>1. ReachedIn(X, p) \in SUBSET CountedIn(X, p)
          BY DEF ReachedIn, CountedIn, ReachedLowRate, DownReqRate
        <5>2. CountedIn(X, p) \in SUBSET Objs
          BY DEF CountedIn
        <5>3. IsFiniteSet(CountedIn(X, p)) /\ Cardinality(CountedIn(X, p)) \in Nat
          BY <5>2, ObjsFinite
        <5>4. Cardinality(ReachedIn(X, p)) <= Cardinality(CountedIn(X, p))
          BY <5>1, <5>3, FS_Subset
        <5>5. Cardinality(ReachedIn(X, p)) \in Nat
          BY <5>1, <5>2, ObjsFinite
        <5>6. Cardinality(CountedIn(X, p)) <= priorityCnt[p]
          BY <1>1 DEF Counts
        <5>. QED BY <4>3, <5>3, <5>4, <5>5, <5>6
      <4>5. Handed(X, p) = h * (a(p) \div priorityCnt[p] + 1)
        BY <4>1, <4>2 DEF Handed, Quota
      <4>. HIDE DEF h
      <4>. QED BY <4>3, <4>4, <4>5, EqualShares
    <3>. HIDE DEF a
    <3>3. a(0) + a(1) + a(2) <= remainBw
      BY <1>2, <2>1, <2>3, <2>4, <2>5, <2>7, <3>1, Proportions
    <3>4. priorityCnt[0] + priorityCnt[1] + priorityCnt[2] <= ValidObjCnt
      BY <1>1 DEF Counts
    <3>5. /\ Handed(X, 0) \in Nat /\ Handed(X, 0) <= a(0) + priorityCnt[0]
          /\ Handed(X, 1) \in Nat /\ Handed(X, 1) <= a(1) + priorityCnt[1]
          /\ Handed(X, 2) \in Nat /\ Handed(X, 2) <= a(2) + priorityCnt[2]
          /\ a(0) \in Nat /\ a(1) \in Nat /\ a(2) \in Nat
          /\ priorityCnt[0] \in Nat /\ priorityCnt[1] \in Nat /\ priorityCnt[2] \in Nat
      BY <1>2, <2>3, <3>1, <3>2
    <3>6. remainBwVary >= 0 - ValidObjCnt
      BY <1>2, <1>3, <2>1, <2>2, <3>3, <3>4, <3>5
    <3>. QED BY <1>5, <3>6, Zenon DEF Bounded
  <2>. QED BY <2>6, <2>7
<1>6. CASE ~(remainBw <= 0) /\ ~allReached
  <2>1. remainBw \in Nat /\ remainBw > 0
    BY <1>2, <1>6
  <2>. DEFINE K == BelowLowDivisor
              P == Cardinality(NeedIn(X))
  <2>2. remainBwVary >= remainBw - (K - P) * (remainBw \div K + 1)
    BY <1>1, <1>6, Zenon DEF Bound
  <2>3. P \in Nat /\ P <= K
    <3>1. NeedIn(X) \in SUBSET Objs
      BY DEF NeedIn
    <3>. QED BY <1>1, <3>1, ObjsFinite DEF Counts
  <2>4. K # 0
    BY <1>1, <1>6, Zenon DEF Counts
  <2>5. K \in Int /\ K <= ValidObjCnt
    BY <1>2, <1>3 DEF BelowLowDivisor
  <2>. HIDE DEF K, P
  <2>6. K \in Nat \ {0} /\ K - P \in Nat /\ K - P <= K
    BY <2>3, <2>4, <2>5
  <2>7. (K - P) * (remainBw \div K + 1) <= remainBw + K
    BY <2>1, <2>6, EqualShares
  <2>8. (K - P) * (remainBw \div K + 1) \in Nat
    BY <2>1, <2>6, DivFacts
  <2>9. remainBwVary >= 0 - ValidObjCnt
    BY <1>2, <1>3, <2>1, <2>2, <2>5, <2>7, <2>8
  <2>. QED BY <1>6, <2>9, Zenon DEF Bounded
<1>. QED BY <1>4, <1>5, <1>6

LEMMA BoundSufficesNext == BoundIsEnough'
BY BoundSuffices, PTL

ServingIsEnough ==
  \A X \in SUBSET Objs : LocalsTypeOK /\ Counts(X) /\ Serves(X) => GuaranteeFirst

LEMMA ServingSuffices == ServingIsEnough
<1>1. SUFFICES ASSUME NEW X \in SUBSET Objs, LocalsTypeOK, Counts(X), Serves(X),
                      NEW o \in Active, Needy(o)
               PROVE  \A x \in Active :
                        status[x] = ReachedLowRate => cfg[x].reqRate = ReadReqRate(x)
  BY Zenon DEF ServingIsEnough, GuaranteeFirst
<1>. DEFINE K == BelowLowDivisor
            P == Cardinality(NeedIn(X))
            Q == Cardinality({x \in Active \ X : Needy(x)})
<1>2. /\ NeedIn(X) \in SUBSET Objs /\ {x \in Active \ X : Needy(x)} \in SUBSET Objs
  BY ActiveObjs DEF NeedIn
<1>3. P \in Nat /\ Q \in Nat
  BY <1>2, ObjsFinite
<1>4. P <= K /\ Q <= K - P
  BY <1>1 DEF Counts, Serves
<1>5. K \in Int
  BY <1>1, ActiveObjs DEF BelowLowDivisor, LocalsTypeOK
<1>6. P # 0 \/ Q # 0
  <2>1. o \in NeedIn(X) \/ o \in {x \in Active \ X : Needy(x)}
    BY <1>1 DEF NeedIn, Needy
  <2>2. IsFiniteSet(NeedIn(X)) /\ IsFiniteSet({x \in Active \ X : Needy(x)})
    BY <1>2, ObjsFinite
  <2>. QED BY <2>1, <2>2, FS_EmptySet
<1>. HIDE DEF K, P, Q
<1>7. K # 0
  BY <1>3, <1>4, <1>5, <1>6
<1>8. ~allReached
  BY <1>1, <1>7, Zenon DEF Counts, K
<1>. QED BY <1>1, <1>8, Zenon DEF Serves

LEMMA ServingSufficesNext == ServingIsEnough'
BY ServingSuffices, PTL

-----------------------------------------------------------------------------
(* The rounds of the second loop.                                           *)

\* A round that keeps the invariant for the objects beyond its own keeps it for
\* the loop, whether the loop goes on or ends.
LEMMA RoundEnds ==
  ASSUME NEW Y, Y = Pending \ {id}, LocalsTypeOK, LocalsTypeOK', pc = "share", rate' = rate,
         Sharing(Y)', Committed' = TotalBw - remainBwVary',
         NextRound \/ (pc' = "write" /\ UNCHANGED id)
  PROVE  CycleInv'
<1>1. Active' = Active
  BY Zenon DEF Active
<1>2. Y \in SUBSET Objs
  BY ActiveObjs
<1>3. CASE pc' = "write"
  <2>1. Bounded' /\ GuaranteeFirst'
    BY <1>2, BoundSufficesNext, ServingSufficesNext
       DEF Sharing, BoundIsEnough, ServingIsEnough
  <2>. QED BY <1>3, <2>1 DEF CycleInv
<1>4. CASE pc' = "share" /\ id' = id + 1
  <2>1. Pending' = Y
    <3>1. \A o \in Active : o \in Nat /\ id \in Nat
      BY ActiveObjs, AlgAssumption DEF LocalsTypeOK, Objs
    <3>2. \A o \in Active : o >= id + 1 <=> (o >= id /\ o # id)
      BY <3>1
    <3>. QED BY <1>1, <1>4, <3>2 DEF Pending
  <2>2. Sharing(Pending)'
    BY <2>1, Zenon
  <2>. QED BY <1>4, <2>2 DEF CycleInv
<1>. QED BY <1>3, <1>4 DEF NextRound

\* What the second loop knows at the beginning of a round.
LEMMA RoundBegins ==
  ASSUME AlgInv, pc = "share"
  PROVE  /\ MapsTypeOK /\ LocalsTypeOK
         /\ Counts(Pending) /\ Bound(Pending) /\ Serves(Pending)
         /\ Committed = TotalBw - remainBwVary
         /\ Pending \in SUBSET Objs /\ Pending \in SUBSET Active /\ Active \in SUBSET Objs
         /\ ValidObjCnt \in Nat /\ BelowLowDivisor \in Int
         /\ Cardinality(NeedIn(Pending)) \in Nat
         /\ id \in Objs
         /\ id \in Active => id \in Pending
         /\ id \notin Active => status[id] = DownReqRate
<1>1. MapsTypeOK /\ LocalsTypeOK /\ CycleInv
  BY TypeParts DEF AlgInv
<1>2. Counts(Pending) /\ Bound(Pending) /\ Serves(Pending) /\ Committed = TotalBw - remainBwVary
  BY <1>1 DEF CycleInv, Sharing
<1>3. Pending \in SUBSET Objs /\ Pending \in SUBSET Active /\ Active \in SUBSET Objs
  BY ActiveObjs
<1>4. ValidObjCnt \in Nat /\ BelowLowDivisor \in Int
  BY <1>1, ActiveObjs DEF BelowLowDivisor, LocalsTypeOK
<1>5. Cardinality(NeedIn(Pending)) \in Nat
  <2>1. NeedIn(Pending) \in SUBSET Objs
    BY <1>3 DEF NeedIn
  <2>. QED BY <2>1, ObjsFinite
<1>6. id \in Objs
  BY <1>1 DEF LocalsTypeOK
<1>7. id \in Active => id \in Pending
  <2>1. id \in Int
    BY <1>6, AlgAssumption DEF Objs
  <2>. QED BY <2>1 DEF Pending
<1>8. id \notin Active => status[id] = DownReqRate
  BY <1>2, <1>6 DEF Counts
<1>. QED BY <1>1, <1>2, <1>3, <1>4, <1>5, <1>6, <1>7, <1>8

\* One object less.
LEMMA CardLess ==
  ASSUME NEW S \in SUBSET Objs, NEW x
  PROVE  /\ Cardinality(S) \in Nat /\ Cardinality(S \ {x}) \in Nat
         /\ Cardinality(S \ {x}) = IF x \in S THEN Cardinality(S) - 1 ELSE Cardinality(S)
         /\ x \in S => Cardinality(S) >= 1
<1>1. IsFiniteSet(S) /\ Cardinality(S) \in Nat /\ Cardinality(S \ {x}) \in Nat
  <2>1. S \ {x} \in SUBSET Objs
    OBVIOUS
  <2>. QED BY <2>1, ObjsFinite
<1>2. Cardinality(S \ {x}) = IF x \in S THEN Cardinality(S) - 1 ELSE Cardinality(S)
  BY <1>1, FS_RemoveElement
<1>3. x \in S => Cardinality(S) >= 1
  BY <1>1, FS_EmptySet
<1>. QED BY <1>1, <1>2, <1>3

LEMMA SkipStep ==
  ASSUME AlgInv, SkipSated
  PROVE  AlgInv'
<1>1. /\ pc = "share" /\ Sated(id) /\ NextRound /\ UNCHANGED mapVars
      /\ cfg' = cfg /\ seen' = seen /\ rate' = rate /\ status' = status
      /\ remainBw' = remainBw /\ remainBwVary' = remainBwVary
      /\ priorityCnt' = [priorityCnt EXCEPT ![cfg[id].priority] = @ - 1]
      /\ lowRateReachCnt' = lowRateReachCnt + 1 /\ downReqRateCnt' = downReqRateCnt
      /\ allReached' = (allReached \/ AllReachedTest(lowRateReachCnt + 1, downReqRateCnt))
      /\ allocDivide' = allocDivide
  BY DEF SkipSated
<1>2. /\ MapsTypeOK /\ LocalsTypeOK
      /\ Counts(Pending) /\ Bound(Pending) /\ Serves(Pending)
      /\ Committed = TotalBw - remainBwVary
      /\ Pending \in SUBSET Objs /\ Pending \in SUBSET Active /\ Active \in SUBSET Objs
      /\ ValidObjCnt \in Nat /\ BelowLowDivisor \in Int
      /\ Cardinality(NeedIn(Pending)) \in Nat
      /\ id \in Objs
      /\ id \in Active => id \in Pending
      /\ id \notin Active => status[id] = DownReqRate
  BY <1>1, RoundBegins
<1>3. status[id] = NeedReachLowRate /\ id \in Active /\ id \in Pending
  BY <1>1, <1>2 DEF Sated, NeedReachLowRate, DownReqRate
<1>. DEFINE pr == cfg[id].priority
            K == BelowLowDivisor
            P == Cardinality(NeedIn(Pending))
<1>4. pr \in Priorities
  BY <1>2 DEF LocalsTypeOK, Cfgs
<1>5. PICK Y : Y = Pending \ {id}
  OBVIOUS
<1>6. Y \in SUBSET Objs /\ Y \in SUBSET Pending
  BY <1>2, <1>5
<1>7. Active' = Active /\ ValidObjCnt' = ValidObjCnt
  BY <1>1, Zenon DEF Active, ValidObjCnt
<1>8. BelowLowDivisor' = K - 1
  BY <1>1, <1>2, <1>7 DEF BelowLowDivisor, LocalsTypeOK
<1>9. NeedIn(Y)' = NeedIn(Pending) \ {id} /\ id \in NeedIn(Pending)
  BY <1>1, <1>3, <1>5 DEF NeedIn
<1>10. Cardinality(NeedIn(Y)') = P - 1 /\ P >= 1
  <2>1. NeedIn(Pending) \in SUBSET Objs
    BY <1>2 DEF NeedIn
  <2>. QED BY <1>9, <2>1, CardLess
<1>11. P <= K /\ ~allReached
  <2>1. P <= K /\ (allReached <=> K = 0)
    BY <1>2 DEF Counts
  <2>2. K # 0
    BY <1>2, <1>10, <2>1
  <2>. QED BY <2>1, <2>2
<1>12. \A p : CountedIn(Y, p)' = CountedIn(Pending, p) \ {id}
  BY <1>1, <1>5 DEF CountedIn
<1>13. id \in CountedIn(Pending, pr) /\ \A p \in Priorities : p # pr => id \notin CountedIn(Pending, p)
  BY <1>3 DEF CountedIn, NeedReachLowRate, DownReqRate
<1>14. \A p \in Priorities :
         /\ CountedIn(Pending, p) \in SUBSET Objs
         /\ Cardinality(CountedIn(Pending, p)) <= priorityCnt[p]
         /\ priorityCnt[p] \in Nat
  BY <1>2 DEF Counts, LocalsTypeOK, CountedIn
<1>15. priorityCnt[pr] >= 1 /\ priorityCnt'[pr] = priorityCnt[pr] - 1
       /\ \A p \in Priorities : p # pr => priorityCnt'[p] = priorityCnt[p]
  <2>1. Cardinality(CountedIn(Pending, pr)) >= 1 /\ Cardinality(CountedIn(Pending, pr)) \in Nat
    BY <1>4, <1>13, <1>14, CardLess
  <2>2. priorityCnt[pr] >= 1
    BY <1>4, <1>14, <2>1
  <2>. QED BY <1>1, <1>2, <1>4, <2>2 DEF LocalsTypeOK
<1>. HIDE DEF pr, K, P
<1>16. LocalsTypeOK'
  <2>1. priorityCnt' \in [Priorities -> Nat]
    <3>1. priorityCnt[pr] - 1 \in Nat
      BY <1>4, <1>14, <1>15
    <3>. QED BY <1>1, <1>2, <3>1 DEF LocalsTypeOK, pr
  <2>2. lowRateReachCnt' \in Nat
    BY <1>1, <1>2 DEF LocalsTypeOK
  <2>3. allReached' \in BOOLEAN
    BY <1>1, Zenon
  <2>4. pc' \in {"readStat", "readCfg", "adjust", "share", "write"} /\ id' \in Objs
    BY <1>1, <1>2, AlgAssumption DEF NextRound, Objs
  <2>. QED BY <1>1, <1>2, <2>1, <2>2, <2>3, <2>4, Zenon DEF LocalsTypeOK
<1>17. Counts(Y)'
  <2>1. (\A o \in Objs \ Active : status[o] = DownReqRate)'
    BY <1>1, <1>2, <1>7, Zenon DEF Counts
  <2>2. (Cardinality(NeedIn(Y)) <= BelowLowDivisor)'
    BY <1>2, <1>8, <1>10, <1>11 DEF K, P
  <2>3. (allReached <=> BelowLowDivisor = 0)'
    <3>1. AllReachedTest(lowRateReachCnt + 1, downReqRateCnt) <=> K - 1 = 0
      <4>1. lowRateReachCnt \in Nat /\ downReqRateCnt \in Nat
        BY <1>2 DEF LocalsTypeOK
      <4>2. K = ValidObjCnt - lowRateReachCnt - downReqRateCnt /\ K >= 1
        BY <1>2, <1>10, <1>11 DEF K, P, BelowLowDivisor
      <4>. QED BY <1>2, <4>1, <4>2 DEF AllReachedTest
    <3>. QED BY <1>1, <1>8, <1>11, <3>1, Zenon
  <2>4. (\A p \in Priorities : Cardinality(CountedIn(Y, p)) <= priorityCnt[p])'
    <3>1. SUFFICES ASSUME NEW p \in Priorities
                   PROVE  Cardinality(CountedIn(Pending, p) \ {id}) <= priorityCnt'[p]
      BY <1>12
    <3>2. CASE p = pr
      BY <1>13, <1>14, <1>15, <3>2, CardLess
    <3>3. CASE p # pr
      BY <1>13, <1>14, <1>15, <3>3, CardLess
    <3>. QED BY <3>2, <3>3
  <2>5. \A p \in Priorities : /\ priorityCnt'[p] \in Nat /\ priorityCnt[p] \in Nat
                              /\ priorityCnt'[p] <= priorityCnt[p]
    BY <1>4, <1>14, <1>15
  <2>6. 0 \in Priorities /\ 1 \in Priorities /\ 2 \in Priorities
    BY DEF Priorities
  <2>7. (priorityCnt[0] + priorityCnt[1] + priorityCnt[2] <= ValidObjCnt)'
    <3>1. priorityCnt[0] + priorityCnt[1] + priorityCnt[2] <= ValidObjCnt
      BY <1>2 DEF Counts
    <3>. QED BY <1>2, <1>7, <2>5, <2>6, <3>1
  <2>8. (Weight(0) + Weight(1) + Weight(2) <= allocDivide)'
    <3>1. Weight(0) + Weight(1) + Weight(2) <= allocDivide /\ allocDivide \in Nat
      BY <1>2 DEF Counts, LocalsTypeOK
    <3>2. \A p \in Priorities : Weight(p)' \in Nat /\ Weight(p) \in Nat /\ Weight(p)' <= Weight(p)
      BY <2>5, Percents DEF Weight
    <3>. QED BY <1>1, <2>6, <3>1, <3>2
  <2>. QED BY <2>1, <2>2, <2>3, <2>4, <2>7, <2>8 DEF Counts
<1>18. Bound(Y)'
  <2>0. remainBw \in Int /\ remainBwVary \in Int
    BY <1>2 DEF LocalsTypeOK
  <2>1. CASE remainBw <= 0
    BY <1>1, <1>2, <2>1 DEF Bound
  <2>2. CASE ~(remainBw <= 0)
    <3>1. remainBw \in Nat /\ remainBw > 0
      BY <2>0, <2>2
    <3>2. remainBwVary >= remainBw - (K - P) * (remainBw \div K + 1)
      BY <1>2, <1>11, <2>2, Zenon DEF Bound, K, P
    <3>3. K \in Nat \ {0} /\ P \in Nat
      BY <1>2, <1>10, <1>11 DEF K, P
    <3>4. remainBw \div K \in Nat
      BY <3>1, <3>3, DivFacts
    <3>5. CASE allReached'
      <4>1. K = 1 /\ P = 1
        <5>1. K - 1 = 0
          BY <1>8, <1>17, <3>5, Zenon DEF Counts
        <5>. QED BY <1>10, <1>11, <3>3, <5>1
      <4>2. remainBwVary >= remainBw
        <5>1. K - P = 0
          BY <4>1
        <5>2. (K - P) * (remainBw \div K + 1) = 0
          BY <3>4, <5>1
        <5>. QED BY <2>0, <3>2, <5>2
      <4>3. \A p \in Priorities : Handed(Y, p)' \in Nat
        BY <1>1, <1>6, <1>16, <1>17, <3>1, HandedNatNext DEF HandedIsNat
      <4>4. Handed(Y, 0)' \in Nat /\ Handed(Y, 1)' \in Nat /\ Handed(Y, 2)' \in Nat
        BY <4>3 DEF Priorities
      <4>5. remainBwVary' >= remainBw' - Handed(Y, 0)' - Handed(Y, 1)' - Handed(Y, 2)'
        BY <1>1, <2>0, <4>2, <4>4
      <4>. QED BY <1>1, <2>2, <3>5, <4>5, Zenon DEF Bound
    <3>6. CASE ~allReached'
      <4>1. K - 1 # 0
        BY <1>8, <1>17, <3>6, Zenon DEF Counts
      <4>2. K - 1 \in Nat \ {0} /\ K - P \in Nat /\ (K - 1) - (P - 1) = K - P
        BY <1>10, <1>11, <3>3, <4>1
      <4>3. remainBw \div K <= remainBw \div (K - 1) /\ remainBw \div (K - 1) \in Nat
        <5>1. PICK k : k = K - 1
          OBVIOUS
        <5>2. k \in Nat \ {0} /\ k <= K
          BY <3>3, <4>2, <5>1
        <5>3. remainBw \div K <= remainBw \div k /\ remainBw \div k \in Nat
          BY <3>1, <3>3, <5>2, DivAnti, DivFacts
        <5>. QED BY <5>1, <5>3, Zenon
      <4>4. (K - P) * (remainBw \div K + 1) <= (K - P) * (remainBw \div (K - 1) + 1)
        BY <3>4, <4>2, <4>3, MulMono
      <4>5. /\ (K - P) * (remainBw \div K + 1) \in Nat
            /\ (K - P) * (remainBw \div (K - 1) + 1) \in Nat
        BY <3>4, <4>2, <4>3
      <4>6. remainBwVary >= remainBw - (K - P) * (remainBw \div (K - 1) + 1)
        BY <2>0, <3>2, <4>4, <4>5
      <4>7. remainBwVary' >= remainBw' - (BelowLowDivisor' - Cardinality(NeedIn(Y)'))
                                           * (remainBw' \div BelowLowDivisor' + 1)
        BY <1>1, <1>8, <1>10, <4>2, <4>6, Zenon
      <4>. QED BY <1>1, <2>2, <3>6, <4>7, Zenon DEF Bound
    <3>. QED BY <3>5, <3>6
  <2>. QED BY <2>1, <2>2
<1>19. Serves(Y)'
  <2>1. \A o : ReadReqRate(o)' = ReadReqRate(o) /\ Needy(o)' = Needy(o)
    BY <1>1, Zenon DEF ReadReqRate, Needy
  <2>2. \A o \in Y : cfg'[o].reqRate = ReadReqRate(o)'
    BY <1>1, <1>2, <1>6, <2>1, Zenon DEF Serves
  <2>3. \A o \in Active : status[o] = ReachedLowRate => cfg'[o].reqRate = ReadReqRate(o)'
    BY <1>1, <1>2, <1>11, <2>1, Zenon DEF Serves
  <2>4. ~Needy(id)
    <3>1. cfg[id].reqRate = ReadReqRate(id)
      BY <1>2, <1>3 DEF Serves
    <3>2. rate[id] < (ReadReqRate(id) * 7) \div 10
      BY <1>1, <3>1 DEF Sated
    <3>3. rate[id] \in Nat /\ (ReadReqRate(id) * 7) \div 10 \in Int
      <4>1. rate[id] \in Nat /\ cfg[id].reqRate \in Nat
        BY <1>2 DEF LocalsTypeOK, Cfgs
      <4>2. cfg[id].reqRate * 7 \in Nat
        BY <4>1
      <4>. QED BY <3>1, <4>1, <4>2, DivFacts
    <3>4. ~(rate[id] >= (ReadReqRate(id) * 7) \div 10)
      BY <3>2, <3>3
    <3>. QED BY <3>4 DEF Needy
  <2>5. {o \in Active \ Y : Needy(o)'} = {o \in Active \ Pending : Needy(o)}
    BY <1>5, <2>1, <2>4
  <2>6. Cardinality({o \in Active \ Pending : Needy(o)}) <= K - P
    BY <1>2 DEF Serves, K, P
  <2>7. BelowLowDivisor' - Cardinality(NeedIn(Y)') = K - P
    BY <1>2, <1>8, <1>10 DEF K, P
  <2>8. (Cardinality({o \in Active \ Y : Needy(o)}) <= BelowLowDivisor - Cardinality(NeedIn(Y)))'
    BY <1>7, <2>5, <2>6, <2>7, Zenon
  <2>. QED BY <1>1, <1>7, <2>2, <2>3, <2>8, Zenon DEF Serves
<1>20. Committed' = TotalBw - remainBwVary'
  BY <1>1, <1>2, <1>7, Zenon DEF Committed
<1>21. CycleInv'
  BY <1>1, <1>2, <1>5, <1>16, <1>17, <1>18, <1>19, <1>20, RoundEnds DEF Sharing
<1>22. MapsTypeOK'
  BY <1>1, <1>2, MapsKept
<1>. QED BY <1>16, <1>21, <1>22 DEF AlgInv, TypeOK, MapsTypeOK, LocalsTypeOK

\* The divisors of a round.
LEMMA Divisors ==
  ASSUME AlgInv, pc = "share"
  PROVE  /\ SharesBelowLow(id) => BelowLowDivisor \in Nat \ {0}
         /\ SharesByPriority(id) => /\ allocDivide \in Nat \ {0}
                                    /\ priorityCnt[cfg[id].priority] \in Nat \ {0}
<1>1. /\ LocalsTypeOK /\ Counts(Pending)
      /\ Pending \in SUBSET Objs
      /\ BelowLowDivisor \in Int
      /\ Cardinality(NeedIn(Pending)) \in Nat
      /\ id \in Objs
      /\ id \in Active => id \in Pending
      /\ id \notin Active => status[id] = DownReqRate
  BY RoundBegins
<1>2. ASSUME SharesBelowLow(id) PROVE BelowLowDivisor \in Nat \ {0}
  <2>1. id \in NeedIn(Pending)
    BY <1>1, <1>2 DEF SharesBelowLow, NeedIn, NeedReachLowRate, DownReqRate
  <2>2. NeedIn(Pending) \in SUBSET Objs
    BY <1>1 DEF NeedIn
  <2>3. Cardinality(NeedIn(Pending)) >= 1
    BY <2>1, <2>2, CardLess
  <2>4. Cardinality(NeedIn(Pending)) <= BelowLowDivisor
    BY <1>1 DEF Counts
  <2>. QED BY <1>1, <2>3, <2>4
<1>3. ASSUME SharesByPriority(id)
      PROVE  allocDivide \in Nat \ {0} /\ priorityCnt[cfg[id].priority] \in Nat \ {0}
  <2>. DEFINE pr == cfg[id].priority
  <2>1. pr \in Priorities /\ priorityCnt \in [Priorities -> Nat] /\ allocDivide \in Nat
    BY <1>1 DEF LocalsTypeOK, Cfgs
  <2>2. id \in CountedIn(Pending, pr)
    BY <1>1, <1>3 DEF SharesByPriority, CountedIn, ReachedLowRate, DownReqRate
  <2>. HIDE DEF pr
  <2>3. CountedIn(Pending, pr) \in SUBSET Objs
    BY <1>1 DEF CountedIn
  <2>4. Cardinality(CountedIn(Pending, pr)) >= 1 /\ Cardinality(CountedIn(Pending, pr)) \in Nat
    BY <2>2, <2>3, CardLess
  <2>5. Cardinality(CountedIn(Pending, pr)) <= priorityCnt[pr]
    BY <1>1, <2>1 DEF Counts
  <2>6. priorityCnt[pr] \in Nat /\ priorityCnt[pr] > 0
    BY <2>1, <2>4, <2>5
  <2>7. Weight(0) + Weight(1) + Weight(2) <= allocDivide
    BY <1>1 DEF Counts
  <2>8. Weight(0) \in Nat /\ Weight(1) \in Nat /\ Weight(2) \in Nat
    BY <2>1, Percents DEF Weight, Priorities
  <2>9. pr = 0 \/ pr = 1 \/ pr = 2
    BY <2>1 DEF Priorities
  <2>10. Weight(pr) > 0
    BY <2>6, <2>9, Percents DEF Weight
  <2>11. allocDivide > 0
    BY <2>1, <2>7, <2>8, <2>9, <2>10
  <2>. QED BY <2>1, <2>6, <2>11 DEF pr
<1>. QED BY <1>2, <1>3

\* The three ways a round can go.
LEMMA ShareIs ==
  ASSUME AlgInv, pc = "share"
  PROVE  /\ Share(id) \in Nat
         /\ SharesBelowLow(id) => Share(id) = remainBw \div BelowLowDivisor + 1
         /\ SharesByPriority(id) => Share(id) = Quota(cfg[id].priority) + 1
         /\ ~SharesBelowLow(id) /\ ~SharesByPriority(id) => Share(id) = 0
<1>1. LocalsTypeOK /\ id \in Objs
  BY RoundBegins
<1>2. remainBw \in Int /\ cfg[id].priority \in Priorities
  BY <1>1 DEF LocalsTypeOK, Cfgs
<1>3. ASSUME SharesBelowLow(id)
      PROVE  Share(id) = remainBw \div BelowLowDivisor + 1 /\ Share(id) \in Nat
  <2>1. BelowLowDivisor \in Nat \ {0} /\ remainBw \in Nat
    BY <1>2, <1>3, Divisors DEF SharesBelowLow
  <2>2. remainBw \div BelowLowDivisor \in Nat
    BY <2>1, DivFacts
  <2>3. Share(id) = remainBw \div BelowLowDivisor + 1
    BY <1>3 DEF Share
  <2>. QED BY <2>2, <2>3
<1>4. ASSUME ~SharesBelowLow(id), SharesByPriority(id)
      PROVE  Share(id) = Quota(cfg[id].priority) + 1 /\ Share(id) \in Nat
  <2>. DEFINE pr == cfg[id].priority
  <2>1. allocDivide \in Nat \ {0} /\ priorityCnt[pr] \in Nat \ {0}
    BY <1>4, Divisors
  <2>2. remainBw \in Nat /\ PriorityAllocPercent[pr] \in Nat
    BY <1>2, <1>4, Percents DEF SharesByPriority
  <2>3. Share(id) = Quota(pr) + 1
    BY <1>4 DEF Share, Quota
  <2>. HIDE DEF pr
  <2>4. (remainBw * PriorityAllocPercent[pr]) \in Nat
    BY <2>2
  <2>5. (remainBw * PriorityAllocPercent[pr]) \div allocDivide \in Nat
    BY <2>1, <2>4, DivFacts
  <2>6. Quota(pr) \in Nat
    BY <2>1, <2>5, DivFacts DEF Quota
  <2>. QED BY <2>3, <2>6 DEF pr
<1>5. SharesByPriority(id) => ~SharesBelowLow(id)
  BY DEF SharesByPriority, SharesBelowLow, ReachedLowRate, NeedReachLowRate
<1>6. ASSUME ~SharesBelowLow(id), ~SharesByPriority(id) PROVE Share(id) = 0
  BY <1>6 DEF Share
<1>. QED BY <1>3, <1>4, <1>5, <1>6

LEMMA HandStep ==
  ASSUME AlgInv, HandShare
  PROVE  AlgInv'
<1>1. /\ pc = "share" /\ UNCHANGED mapVars
      /\ cfg' = [cfg EXCEPT ![id].reqRate = @ + Share(id)]
      /\ remainBwVary' = remainBwVary - Share(id)
      /\ NextRound \/ (pc' = "write" /\ UNCHANGED id)
      /\ seen' = seen /\ rate' = rate /\ status' = status /\ remainBw' = remainBw
      /\ priorityCnt' = priorityCnt /\ lowRateReachCnt' = lowRateReachCnt
      /\ downReqRateCnt' = downReqRateCnt /\ allReached' = allReached
      /\ allocDivide' = allocDivide
  BY DEF HandShare
<1>2. /\ MapsTypeOK /\ LocalsTypeOK
      /\ Counts(Pending) /\ Bound(Pending) /\ Serves(Pending)
      /\ Committed = TotalBw - remainBwVary
      /\ Pending \in SUBSET Objs /\ Pending \in SUBSET Active /\ Active \in SUBSET Objs
      /\ ValidObjCnt \in Nat /\ BelowLowDivisor \in Int
      /\ Cardinality(NeedIn(Pending)) \in Nat
      /\ id \in Objs
      /\ id \in Active => id \in Pending
      /\ id \notin Active => status[id] = DownReqRate
  BY <1>1, RoundBegins
<1>0. PICK pr : pr = cfg[id].priority
  OBVIOUS
<1>. DEFINE K == BelowLowDivisor
            P == Cardinality(NeedIn(Pending))
            s == Share(id)
<1>3. /\ s \in Nat
      /\ SharesBelowLow(id) => s = remainBw \div K + 1
      /\ SharesByPriority(id) => s = Quota(pr) + 1
      /\ ~SharesBelowLow(id) /\ ~SharesByPriority(id) => s = 0
  BY <1>0, <1>1, ShareIs
<1>4. pr \in Priorities /\ remainBw \in Int /\ remainBwVary \in Int
  BY <1>0, <1>2 DEF LocalsTypeOK, Cfgs
<1>5. PICK Y : Y = Pending \ {id}
  OBVIOUS
<1>6. Y \in SUBSET Objs /\ Y \in SUBSET Pending
  BY <1>2, <1>5
<1>7. Active' = Active /\ ValidObjCnt' = ValidObjCnt
  BY <1>1, Zenon DEF Active, ValidObjCnt
<1>8. BelowLowDivisor' = K
  BY <1>1, <1>7, Zenon DEF BelowLowDivisor
<1>9. /\ cfg' \in [Objs -> Cfgs]
      /\ \A o \in Objs : cfg'[o].priority = cfg[o].priority
      /\ \A o \in Objs \ {id} : cfg'[o] = cfg[o]
      /\ cfg'[id].reqRate = cfg[id].reqRate + s
  <2>1. cfg[id] \in Cfgs /\ cfg \in [Objs -> Cfgs]
    BY <1>2 DEF LocalsTypeOK
  <2>. HIDE DEF s
  <2>2. cfg' = [cfg EXCEPT ![id].reqRate = @ + s]
    BY <1>1 DEF s
  <2>3. [cfg[id] EXCEPT !.reqRate = @ + s] \in Cfgs
    BY <1>3, <2>1 DEF Cfgs
  <2>. QED BY <1>2, <2>1, <2>2, <2>3 DEF Cfgs
<1>10. NeedIn(Y)' = NeedIn(Pending) \ {id} /\ NeedIn(Pending) \in SUBSET Objs
  BY <1>1, <1>2, <1>5 DEF NeedIn
<1>11. /\ Cardinality(NeedIn(Y)') = IF id \in NeedIn(Pending) THEN P - 1 ELSE P
       /\ id \in NeedIn(Pending) => P >= 1
  BY <1>10, CardLess
<1>12. P <= K /\ (allReached <=> K = 0)
  BY <1>2 DEF Counts
<1>13. \A p : /\ CountedIn(Y, p)' = CountedIn(Pending, p) \ {id}
              /\ ReachedIn(Y, p)' = ReachedIn(Pending, p) \ {id}
              /\ CountedIn(Pending, p) \in SUBSET Objs /\ ReachedIn(Pending, p) \in SUBSET Objs
  BY <1>1, <1>2, <1>5, <1>6, <1>9 DEF CountedIn, ReachedIn
<1>14. \A p : Quota(p)' = Quota(p)
  BY <1>1, Zenon DEF Quota
<1>. HIDE DEF K, P, s
<1>15. LocalsTypeOK'
  <2>1. remainBwVary' \in Int
    BY <1>1, <1>3, <1>4 DEF s
  <2>2. pc' \in {"readStat", "readCfg", "adjust", "share", "write"} /\ id' \in Objs
    BY <1>1, <1>2, AlgAssumption DEF NextRound, Objs
  <2>. QED BY <1>1, <1>2, <1>9, <2>1, <2>2, Zenon DEF LocalsTypeOK
<1>16. Counts(Y)'
  <2>1. (\A o \in Objs \ Active : status[o] = DownReqRate)'
    BY <1>1, <1>2, <1>7, Zenon DEF Counts
  <2>2. (Cardinality(NeedIn(Y)) <= BelowLowDivisor)'
    BY <1>2, <1>8, <1>11, <1>12 DEF K, P
  <2>3. (allReached <=> BelowLowDivisor = 0)'
    BY <1>1, <1>8, <1>12, Zenon
  <2>4. (\A p \in Priorities : Cardinality(CountedIn(Y, p)) <= priorityCnt[p])'
    <3>1. SUFFICES ASSUME NEW p \in Priorities
                   PROVE  Cardinality(CountedIn(Pending, p) \ {id}) <= priorityCnt[p]
      BY <1>1, <1>13
    <3>2. Cardinality(CountedIn(Pending, p)) <= priorityCnt[p] /\ priorityCnt[p] \in Nat
      BY <1>2 DEF Counts, LocalsTypeOK
    <3>. QED BY <1>13, <3>2, CardLess
  <2>5. (priorityCnt[0] + priorityCnt[1] + priorityCnt[2] <= ValidObjCnt)'
    BY <1>1, <1>2, <1>7, Zenon DEF Counts
  <2>6. (Weight(0) + Weight(1) + Weight(2) <= allocDivide)'
    BY <1>1, <1>2, Zenon DEF Counts, Weight
  <2>. QED BY <2>1, <2>2, <2>3, <2>4, <2>5, <2>6 DEF Counts
<1>17. status[id] = NeedReachLowRate <=> id \in NeedIn(Pending)
  BY <1>2 DEF NeedIn, NeedReachLowRate, DownReqRate
<1>18. Bound(Y)'
  <2>1. CASE remainBw <= 0
    <3>1. ~SharesBelowLow(id) /\ ~SharesByPriority(id)
      BY <1>4, <2>1 DEF SharesBelowLow, SharesByPriority
    <3>2. remainBwVary' = remainBw
      <4>1. s = 0 /\ remainBwVary = remainBw
        BY <1>2, <1>3, <2>1, <3>1 DEF Bound
      <4>. QED BY <1>1, <1>4, <4>1 DEF s
    <3>. QED BY <1>1, <2>1, <3>2 DEF Bound
  <2>2. CASE ~(remainBw <= 0) /\ ~allReached
    <3>1. remainBw \in Nat /\ remainBw > 0
      BY <1>4, <2>2
    <3>2. K \in Nat \ {0} /\ P \in Nat
      BY <1>2, <1>12, <2>2 DEF K, P
    <3>3. remainBwVary >= remainBw - (K - P) * (remainBw \div K + 1)
      BY <1>2, <2>2, Zenon DEF Bound, K, P
    <3>4. remainBw \div K \in Nat
      BY <3>1, <3>2, DivFacts
    <3>5. ~SharesByPriority(id)
      BY <2>2, Zenon DEF SharesByPriority
    <3>. DEFINE q == remainBw \div K + 1
                P2 == Cardinality(NeedIn(Y)')
    <3>6. q \in Nat
      BY <3>4
    <3>7. remainBwVary' >= remainBw - (K - P2) * q
      <4>1. CASE status[id] = NeedReachLowRate
        <5>1. SharesBelowLow(id)
          BY <2>2, <3>1, <4>1, Zenon DEF SharesBelowLow
        <5>2. s = q
          BY <1>3, <5>1
        <5>3. P2 = P - 1
          BY <1>11, <1>17, <4>1
        <5>. HIDE DEF q, P2
        <5>4. (K - P2) * q = (K - P) * q + q
          <6>1. K - P2 = (K - P) + 1
            BY <3>2, <5>3
          <6>. QED BY <3>2, <3>6, <6>1
        <5>5. remainBwVary' = remainBwVary - q
          BY <1>1, <5>2 DEF s
        <5>6. remainBwVary >= remainBw - (K - P) * q /\ (K - P) * q \in Int
          BY <3>2, <3>3, <3>6 DEF q
        <5>. QED BY <1>4, <3>6, <5>4, <5>5, <5>6
      <4>2. CASE status[id] # NeedReachLowRate
        <5>1. s = 0 /\ P2 = P
          BY <1>3, <1>11, <1>17, <3>5, <4>2 DEF SharesBelowLow
        <5>2. remainBwVary' = remainBwVary
          BY <1>1, <1>4, <5>1 DEF s
        <5>. QED BY <3>3, <5>1, <5>2
      <4>. QED BY <4>1, <4>2
    <3>. QED BY <1>1, <1>8, <2>2, <3>7, Zenon DEF Bound
  <2>3. CASE ~(remainBw <= 0) /\ allReached
    <3>1. remainBw \in Nat /\ remainBw > 0
      BY <1>4, <2>3
    <3>2. remainBwVary >= remainBw - Handed(Pending, 0) - Handed(Pending, 1) - Handed(Pending, 2)
      BY <1>2, <2>3, Zenon DEF Bound
    <3>3. ~SharesBelowLow(id)
      BY <2>3, Zenon DEF SharesBelowLow
    <3>4. status[id] # NeedReachLowRate
      BY <1>2, <1>11, <1>12, <1>17, <2>3 DEF P
    <3>5. \A p \in Priorities : Handed(Pending, p) \in Nat /\ Handed(Y, p)' \in Nat
      <4>1. \A p \in Priorities : Handed(Pending, p) \in Nat
        BY <1>2, <3>1, HandedNat DEF HandedIsNat
      <4>2. \A p \in Priorities : Handed(Y, p)' \in Nat
        BY <1>1, <1>6, <1>15, <1>16, <3>1, HandedNatNext DEF HandedIsNat
      <4>. QED BY <4>1, <4>2
    <3>6. 0 \in Priorities /\ 1 \in Priorities /\ 2 \in Priorities
      BY DEF Priorities
    <3>7. ASSUME NEW p \in Priorities, id \notin ReachedIn(Pending, p)
          PROVE  Handed(Y, p)' = Handed(Pending, p)
      <4>1. ReachedIn(Y, p)' = ReachedIn(Pending, p)
        BY <1>13, <3>7
      <4>. QED BY <1>1, <1>14, <4>1, Zenon DEF Handed
    <3>8. remainBwVary' >= remainBw - Handed(Y, 0)' - Handed(Y, 1)' - Handed(Y, 2)'
      <4>1. CASE SharesByPriority(id)
        <5>1. s = Quota(pr) + 1 /\ priorityCnt[pr] \in Nat \ {0}
          BY <1>0, <1>1, <1>3, <4>1, Divisors
        <5>2. id \in ReachedIn(Pending, pr) /\ \A p \in Priorities : p # pr => id \notin ReachedIn(Pending, p)
          BY <1>0, <1>2, <4>1 DEF SharesByPriority, ReachedIn, ReachedLowRate, DownReqRate
        <5>. DEFINE c == Cardinality(ReachedIn(Pending, pr))
        <5>3. Cardinality(ReachedIn(Y, pr)') = c - 1 /\ c \in Nat
          BY <1>13, <5>2, CardLess
        <5>0. priorityCnt[pr] # 0
          BY <5>1
        <5>4. Handed(Pending, pr) = (priorityCnt[pr] - c) * s
          BY <5>0, <5>1, Zenon DEF Handed
        <5>5. Handed(Y, pr)' = (priorityCnt[pr] - (c - 1)) * s
          <6>1. \A p : Handed(Y, p)' = IF priorityCnt[p] = 0 THEN 0
                       ELSE (priorityCnt[p] - Cardinality(ReachedIn(Y, p)')) * (Quota(p) + 1)
            BY <1>1, <1>14, Zenon DEF Handed
          <6>. QED BY <5>0, <5>1, <5>3, <6>1, Zenon
        <5>. HIDE DEF c
        <5>6. (priorityCnt[pr] - (c - 1)) * s = (priorityCnt[pr] - c) * s + s
          <6>1. priorityCnt[pr] - (c - 1) = (priorityCnt[pr] - c) + 1 /\ priorityCnt[pr] - c \in Int
            BY <5>1, <5>3
          <6>. QED BY <1>3, <6>1
        <5>7. Handed(Y, pr)' = Handed(Pending, pr) + s
          BY <5>4, <5>5, <5>6
        <5>8. \A p \in Priorities : p # pr => Handed(Y, p)' = Handed(Pending, p)
          BY <3>7, <5>2
        <5>9. remainBwVary' = remainBwVary - s
          BY <1>1 DEF s
        <5>10. pr = 0 \/ pr = 1 \/ pr = 2
          BY <1>4 DEF Priorities
        <5>11. Handed(Y, 0)' + Handed(Y, 1)' + Handed(Y, 2)'
                 = Handed(Pending, 0) + Handed(Pending, 1) + Handed(Pending, 2) + s
          <6>1. CASE pr = 0
            <7>1. Handed(Y, 0)' = Handed(Pending, 0) + s
              BY <5>7, <6>1
            <7>2. /\ Handed(Y, 1)' = Handed(Pending, 1)
                  /\ Handed(Y, 2)' = Handed(Pending, 2)
              BY <3>6, <5>8, <6>1
            <7>. QED BY <1>3, <3>5, <3>6, <7>1, <7>2
          <6>2. CASE pr = 1
            <7>1. Handed(Y, 1)' = Handed(Pending, 1) + s
              BY <5>7, <6>2
            <7>2. /\ Handed(Y, 0)' = Handed(Pending, 0)
                  /\ Handed(Y, 2)' = Handed(Pending, 2)
              BY <3>6, <5>8, <6>2
            <7>. QED BY <1>3, <3>5, <3>6, <7>1, <7>2
          <6>3. CASE pr = 2
            <7>1. Handed(Y, 2)' = Handed(Pending, 2) + s
              BY <5>7, <6>3
            <7>2. /\ Handed(Y, 0)' = Handed(Pending, 0)
                  /\ Handed(Y, 1)' = Handed(Pending, 1)
              BY <3>6, <5>8, <6>3
            <7>. QED BY <1>3, <3>5, <3>6, <7>1, <7>2
          <6>. QED BY <5>10, <6>1, <6>2, <6>3
        <5>. QED BY <1>3, <1>4, <3>2, <3>5, <3>6, <5>9, <5>11
      <4>2. CASE ~SharesByPriority(id)
        <5>1. s = 0
          BY <1>3, <3>3, <4>2
        <5>2. status[id] # ReachedLowRate
          BY <2>3, <3>1, <4>2, Zenon DEF SharesByPriority
        <5>3. \A p \in Priorities : Handed(Y, p)' = Handed(Pending, p)
          BY <3>7, <5>2 DEF ReachedIn
        <5>4. remainBwVary' = remainBwVary
          BY <1>1, <1>4, <5>1 DEF s
        <5>. QED BY <3>2, <3>6, <5>3, <5>4
      <4>. QED BY <4>1, <4>2
    <3>. QED BY <1>1, <2>3, <3>8, Zenon DEF Bound
  <2>. QED BY <2>1, <2>2, <2>3
<1>19. Serves(Y)'
  <2>1. \A o : ReadReqRate(o)' = ReadReqRate(o) /\ Needy(o)' = Needy(o)
    BY <1>1, Zenon DEF ReadReqRate, Needy
  <2>2. \A o \in Y : cfg'[o].reqRate = ReadReqRate(o)'
    <3>1. \A o \in Pending : cfg[o].reqRate = ReadReqRate(o)
      BY <1>2 DEF Serves
    <3>2. \A o \in Y : o \in Pending /\ o \in Objs \ {id}
      BY <1>5, <1>6
    <3>. QED BY <1>9, <2>1, <3>1, <3>2, Zenon
  <2>3. ~allReached => \A o \in Active :
          status[o] = ReachedLowRate => cfg'[o].reqRate = ReadReqRate(o)'
    <3>1. SUFFICES ASSUME ~allReached, NEW o \in Active, status[o] = ReachedLowRate
                   PROVE  cfg'[o].reqRate = ReadReqRate(o)
      BY <2>1
    <3>2. cfg[o].reqRate = ReadReqRate(o)
      BY <1>2, <3>1, Zenon DEF Serves
    <3>3. CASE o = id
      <4>1. ~SharesBelowLow(id) /\ ~SharesByPriority(id)
        <5>1. ~SharesByPriority(id)
          BY <3>1, Zenon DEF SharesByPriority
        <5>2. ~SharesBelowLow(id)
          BY <3>1, <3>3 DEF SharesBelowLow, ReachedLowRate, NeedReachLowRate
        <5>. QED BY <5>1, <5>2
      <4>2. s = 0
        BY <1>3, <4>1
      <4>3. cfg[id].reqRate \in Nat
        BY <1>2 DEF LocalsTypeOK, Cfgs
      <4>. QED BY <1>9, <3>2, <3>3, <4>2, <4>3
    <3>4. CASE o # id
      <4>1. o \in Objs \ {id}
        BY <1>2, <3>4
      <4>. QED BY <1>9, <3>2, <4>1
    <3>. QED BY <3>3, <3>4
  <2>. DEFINE Old == {o \in Active \ Pending : Needy(o)}
              New == {o \in Active \ Y : Needy(o)}
  <2>4. Cardinality(Old) <= K - P
    BY <1>2 DEF Serves, K, P
  <2>5. Old \in SUBSET Objs /\ New \in SUBSET Objs /\ New \ {id} \in SUBSET Old
    BY <1>2, <1>5
  <2>6. status[id] # NeedReachLowRate => New \in SUBSET Old
    BY <1>5 DEF Needy
  <2>. HIDE DEF Old, New
  <2>7. /\ IsFiniteSet(Old) /\ Cardinality(Old) \in Nat
        /\ IsFiniteSet(New) /\ Cardinality(New) \in Nat
    BY <2>5, ObjsFinite
  <2>8. Cardinality(New) <= K - Cardinality(NeedIn(Y)')
    <3>1. CASE status[id] = NeedReachLowRate
      <4>1. Cardinality(NeedIn(Y)') = P - 1
        BY <1>11, <1>17, <3>1
      <4>2. Cardinality(New \ {id}) <= Cardinality(Old)
        BY <2>5, <2>7, FS_Subset
      <4>3. Cardinality(New) <= Cardinality(New \ {id}) + 1 /\ Cardinality(New \ {id}) \in Nat
        BY <2>5, <2>7, CardLess
      <4>. QED BY <1>2, <2>4, <2>7, <4>1, <4>2, <4>3 DEF K, P
    <3>2. CASE status[id] # NeedReachLowRate
      <4>1. Cardinality(NeedIn(Y)') = P
        BY <1>11, <1>17, <3>2
      <4>2. Cardinality(New) <= Cardinality(Old)
        BY <2>6, <2>7, <3>2, FS_Subset
      <4>. QED BY <1>2, <2>4, <2>7, <4>1, <4>2 DEF K, P
    <3>. QED BY <3>1, <3>2
  <2>9. {o \in Active \ Y : Needy(o)'} = New
    BY <2>1, Zenon DEF New
  <2>10. (Cardinality({o \in Active \ Y : Needy(o)}) <= BelowLowDivisor - Cardinality(NeedIn(Y)))'
    BY <1>7, <1>8, <2>8, <2>9, Zenon
  <2>. QED BY <1>1, <1>7, <2>2, <2>3, <2>10, Zenon DEF Serves
<1>20. Committed' = TotalBw - remainBwVary'
  <2>. DEFINE f == [o \in Objs |-> cfg[o].reqRate]
              g == [o \in Objs |-> cfg'[o].reqRate]
  <2>1. f \in [Objs -> Nat] /\ g \in [Objs -> Nat]
    BY <1>2, <1>9 DEF LocalsTypeOK, Cfgs
  <2>2. g[id] = f[id] + s /\ \A o \in Objs \ {id} : g[o] = f[o]
    BY <1>2, <1>9
  <2>3. Committed = SumOver(f, Active) /\ Committed' = SumOver(g, Active)
    BY <1>7, Zenon DEF Committed
  <2>. HIDE DEF f, g
  <2>4. IsFiniteSet(Active)
    BY ActiveObjs
  <2>5. SumOver(g, Active) = SumOver(f, Active) + s /\ SumOver(f, Active) \in Nat
    <3>0. SumOver(f, Active) \in Nat
      BY <1>2, <2>1, <2>4, SumType
    <3>1. CASE id \in Active
      <4>1. \A o \in Active \ {id} : g[o] = f[o]
        BY <1>2, <2>2
      <4>2. SumOver(g, Active) = SumOver(f, Active) + s
        BY <1>2, <1>3, <2>1, <2>2, <2>4, <3>1, <4>1, SumGrows
      <4>. QED BY <3>0, <4>2
    <3>2. CASE id \notin Active
      <4>1. ~SharesBelowLow(id) /\ ~SharesByPriority(id)
        BY <1>2, <3>2 DEF SharesBelowLow, SharesByPriority, DownReqRate, NeedReachLowRate,
                          ReachedLowRate
      <4>2. s = 0
        BY <1>3, <4>1
      <4>3. \A o \in Active : g[o] = f[o]
        BY <1>2, <2>2, <3>2
      <4>4. SumOver(g, Active) = SumOver(f, Active)
        BY <2>4, <4>3, SumSame
      <4>. QED BY <3>0, <4>2, <4>4
    <3>. QED BY <3>1, <3>2
  <2>. QED BY <1>1, <1>2, <1>3, <1>4, <2>3, <2>5, AlgAssumption DEF s
<1>21. CycleInv'
  BY <1>1, <1>2, <1>5, <1>15, <1>16, <1>18, <1>19, <1>20, RoundEnds DEF Sharing
<1>22. MapsTypeOK'
  BY <1>1, <1>2, MapsKept
<1>. QED BY <1>15, <1>21, <1>22 DEF AlgInv, TypeOK, MapsTypeOK, LocalsTypeOK

-----------------------------------------------------------------------------
(* The theorems.                                                            *)

LEMMA StepInv == AlgInv /\ [Next]_vars => AlgInv'
<1>1. SUFFICES ASSUME AlgInv, [Next]_vars PROVE AlgInv'
  OBVIOUS
<1>2. CASE UNCHANGED vars
  <2>1. UNCHANGED cycleVars /\ UNCHANGED mapVars
    BY <1>2 DEF vars
  <2>2. MapsTypeOK' /\ LocalsTypeOK' /\ CycleInv'
    BY <1>1, <2>1, TypeParts, MapsKept, LocalsKept, CycleKept DEF AlgInv
  <2>. QED BY <2>2 DEF AlgInv, TypeOK, MapsTypeOK, LocalsTypeOK
<1>3. CASE Cycle
  BY <1>1, <1>3, BatchStep, AdjustStep, SkipStep, HandStep DEF Cycle
<1>4. CASE \/ \E o \in Objs : Sample(o)
           \/ \E o \in Objs \ {0} : AddConfig(o) \/ ClearConfig(o)
  BY <1>1, <1>4, OthersStep
<1>. QED BY <1>1, <1>2, <1>3, <1>4 DEF Next

LEMMA AlgInvariant == Spec => []AlgInv
BY InitInv, StepInv, PTL DEF Spec

\* The configurations, rates and counters of a cycle keep their types, whatever
\* the objects use and whenever bwm-daemon writes: no count of a priority and no
\* request rate becomes negative in the second loop of Run.
THEOREM AllocTypeCorrect == Spec => []TypeOK
<1>1. AlgInv => TypeOK
  BY DEF AlgInv
<1>. QED BY <1>1, AlgInvariant, PTL

\* For any number of objects, Run never divides by zero: when an object below its low
\* rate, or one that has reached it, is given its share, the counters that the
\* rounds before have changed still count that object.
THEOREM DivisorsPositive == Spec => []NoDivideByZero
<1>1. AlgInv => NoDivideByZero
  <2>1. SUFFICES ASSUME AlgInv, pc = "share"
                 PROVE  /\ SharesBelowLow(id) => BelowLowDivisor > 0
                        /\ SharesByPriority(id) => /\ allocDivide > 0
                                                   /\ priorityCnt[cfg[id].priority] > 0
    BY Zenon DEF NoDivideByZero
  <2>. QED BY <2>1, Divisors
<1>. QED BY <1>1, AlgInvariant, PTL

\* For any link, any requests and any number of objects, what a cycle of Run writes
\* back exceeds the link by at most one unit per active object when something was
\* left to share, and is untouched by the second loop when nothing was.
THEOREM NeverOvercommitted == Spec => []NoOvercommit
<1>1. AlgInv => NoOvercommit
  <2>1. SUFFICES ASSUME AlgInv, pc = "write"
                 PROVE  IF remainBw > 0 THEN Committed <= TotalBw + ValidObjCnt
                        ELSE Committed = TotalBw - remainBw
    BY DEF NoOvercommit
  <2>2. Committed = TotalBw - remainBwVary /\ Bounded
    BY <2>1 DEF AlgInv, CycleInv
  <2>3. remainBw \in Int /\ remainBwVary \in Int /\ ValidObjCnt \in Nat /\ TotalBw \in Nat
    BY <2>1, ActiveObjs, AlgAssumption DEF AlgInv, TypeOK
  <2>4. CASE remainBw > 0
    <3>1. remainBwVary >= 0 - ValidObjCnt
      BY <2>2, <2>3, <2>4 DEF Bounded
    <3>. QED BY <2>2, <2>3, <2>4, <3>1
  <2>5. CASE ~(remainBw > 0)
    <3>1. remainBwVary = remainBw
      BY <2>2, <2>3, <2>5 DEF Bounded
    <3>. QED BY <2>2, <2>5, <3>1
  <2>. QED BY <2>4, <2>5
<1>. QED BY <1>1, AlgInvariant, PTL

\* No cycle gives an object that has reached its low rate a share while another active
\* object is below its own and uses what it has, though AllObjStatus can change in
\* the middle of the second loop.
THEOREM GuaranteesServedFirst == Spec => []GuaranteeFirst
<1>1. AlgInv => GuaranteeFirst
  BY Zenon DEF AlgInv, CycleInv, GuaranteeFirst
<1>. QED BY <1>1, AlgInvariant, PTL

=============================================================================
