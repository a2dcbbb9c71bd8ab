------------------------------- MODULE TcEdt -------------------------------
(***************************************************************************)
(* The data path for one object and one direction: the packets that        *)
(* egress_edt_handle or ingress_edt_handle of tc_edt.c handles on several  *)
(* CPUs at once, over the one statistics entry of the object.              *)
(*                                                                         *)
(* BPF programs on different CPUs share the entry without a lock; only the *)
(* two counters are incremented atomically.  Every read and write of t_last*)
(* that the pacing depends on is in a step of its own.  update_rate is cut *)
(* where the counts and periods of other CPUs fall between: after the clock*)
(* is read, after t_start is moved, and between the rate and the reset.    *)
(* stat_init is one step.                                                  *)
(*                                                                         *)
(* Every packet has length 1, so that tx_bytes counts packets; Delay is    *)
(* what a packet takes at the request rate, len * NSEC_PER_SEC / req_rate, *)
(* which does not change here.                                             *)
(* Time and stamps are naturals; t_past is computed modulo Word, as the    *)
(* unsigned subtraction of the code. A tstamp lies at most MaxDelay ahead. *)
(* After a long idle time the estimate may fall to 0 again, and the next   *)
(* packet finds the entry as new.                                          *)
(***************************************************************************)
EXTENDS Integers, FiniteSets

CONSTANTS
    CPUs,
    Kinds,      \* of the packets: "udp" has a socket and is not TCP, "tcp" not
    Stamps,     \* how far in the future a packet's tstamp may lie
    Delay,      \* time one packet takes at the request rate
    MaxDelay,   \* MAX_DELAY_STAMP
    Interval,   \* length of a sampling period
    LowRate,    \* rate of the configuration, where the estimate begins
    Scale,      \* NSEC_PER_SEC in units of the model
    Word,       \* 2^64
    MaxTime,    \* bound on the clock
    MaxPkts     \* bound on the packets

ASSUME TcEdtAssumption ==
    /\ IsFiniteSet(CPUs)
    /\ Kinds \subseteq {"udp", "tcp"}
    /\ Stamps \subseteq Nat /\ \A s \in Stamps : s <= MaxDelay
    /\ Delay \in Nat /\ MaxDelay \in Nat /\ Interval \in Nat
    /\ LowRate \in Nat \ {0} /\ Scale \in Nat
    /\ MaxTime \in Nat /\ MaxPkts \in Nat
    /\ Word \in Nat /\ Word > MaxTime

VARIABLES
    now,                             \* bpf_ktime_get_ns()
    t_last, t_start, rate,           \* the statistics entry
    tx_bytes, total_pkts,
    pc,                              \* next step of the packet on a CPU
    kind,                            \* its kind
    tLast, tNext, tCur, tPast,       \* its local variables
    departure, departed,             \* of the last packet let through; how many
    sampled,                         \* bytes the rate estimate has been told of
    overlapped, tcpSeen,             \* were packets handled at once; was one TCP
    rewound,                         \* has a write taken t_last back
    cleared                          \* has stat_init run since the last departure

stat == <<t_last, t_start, rate, tx_bytes, total_pkts>>
locals == <<tLast, tNext, tCur, tPast>>
history == <<departure, departed, sampled, overlapped, tcpSeen, rewound, cleared>>
vars == <<now, stat, pc, kind, locals, history>>

Steps == {"idle", "init", "account", "schedule", "commit", "sample", "compare",
          "rate", "reset"}

TypeOK ==
    /\ now \in 0..MaxTime
    /\ t_last \in Nat /\ t_start \in 0..MaxTime /\ rate \in Nat
    /\ tx_bytes \in 0..MaxPkts /\ total_pkts \in 0..MaxPkts
    /\ pc \in [CPUs -> Steps]
    /\ kind \in [CPUs -> Kinds]
    /\ tLast \in [CPUs -> Nat] /\ tNext \in [CPUs -> Nat]
    /\ tCur \in [CPUs -> 0..MaxTime] /\ tPast \in [CPUs -> 0..(Word - 1)]
    /\ departure \in Int /\ departed \in 0..MaxPkts /\ sampled \in Nat
    /\ overlapped \in BOOLEAN /\ tcpSeen \in BOOLEAN /\ rewound \in BOOLEAN
    /\ cleared \in BOOLEAN

Init ==
    /\ now = 0
    /\ t_last = 0 /\ t_start = 0 /\ rate = 0 /\ tx_bytes = 0 /\ total_pkts = 0
    /\ pc = [c \in CPUs |-> "idle"]
    /\ kind \in [CPUs -> Kinds]
    /\ tLast = [c \in CPUs |-> 0] /\ tNext = [c \in CPUs |-> 0]
    /\ tCur = [c \in CPUs |-> 0] /\ tPast = [c \in CPUs |-> 0]
    /\ departure = 0 - Delay /\ departed = 0 /\ sampled = 0
    /\ overlapped = FALSE /\ tcpSeen = FALSE /\ rewound = FALSE /\ cleared = FALSE

Tick ==
    /\ now < MaxTime
    /\ now' = now + 1
    /\ UNCHANGED <<stat, pc, kind, locals, history>>

\* The packets under way have yet to be counted.
Counting == Cardinality({c \in CPUs : pc[c] \in {"init", "account"}})

\* The object's entry is looked up; a rate of 0 means it is new.
Lookup(c) ==
    /\ pc[c] = "idle"
    /\ total_pkts + Counting < MaxPkts
    /\ \E k \in Kinds :
         kind' = [kind EXCEPT ![c] = k] /\ tcpSeen' = (tcpSeen \/ k = "tcp")
    /\ pc' = [pc EXCEPT ![c] = IF rate = 0 THEN "init" ELSE "account"]
    /\ overlapped' = (overlapped \/ \E d \in CPUs : pc[d] # "idle")
    /\ UNCHANGED <<now, stat, locals, departure, departed, sampled, rewound, cleared>>

stat_init(c) ==
    /\ pc[c] = "init"
    /\ t_last' = 0 /\ t_start' = now /\ rate' = LowRate /\ tx_bytes' = 0
    /\ rewound' = (rewound \/ t_last > 0)
    /\ cleared' = TRUE
    /\ pc' = [pc EXCEPT ![c] = "account"]
    /\ UNCHANGED <<now, total_pkts, kind, locals>>
    /\ UNCHANGED <<departure, departed, sampled, overlapped, tcpSeen>>

-----------------------------------------------------------------------------
(* statistics_and_edt_packet.                                              *)

Account(c) ==
    /\ pc[c] = "account"
    /\ tLast' = [tLast EXCEPT ![c] = t_last]
    /\ tx_bytes' = tx_bytes + 1
    /\ total_pkts' = total_pkts + 1
    /\ pc' = [pc EXCEPT ![c] = "schedule"]
    /\ UNCHANGED <<now, t_last, t_start, rate, kind, tNext, tCur, tPast, history>>

ShotNever(c) == FALSE

\* TC_ACT_SHOT: too much of other than TCP is waiting.
Shot(c) == kind[c] = "udp" /\ tLast[c] > now /\ tLast[c] - now > MaxDelay

Later(s, t) == IF s < t THEN t ELSE s

\* The packet leaves when its stamp and the packets before it allow.
DepartureTime(t_send) == Later(t_send, t_last + Delay)

Schedule(c) ==
    /\ pc[c] = "schedule"
    /\ ~Shot(c)
    /\ \E s \in Stamps :
         tNext' = [tNext EXCEPT ![c] = DepartureTime(now + s)]
    /\ pc' = [pc EXCEPT ![c] = "commit"]
    /\ UNCHANGED <<now, stat, kind, tLast, tCur, tPast, history>>

Drop(c) ==
    /\ pc[c] = "schedule"
    /\ Shot(c)
    /\ pc' = [pc EXCEPT ![c] = "sample"]
    /\ UNCHANGED <<now, stat, kind, locals, history>>

CommitLate(c) ==
    /\ pc[c] = "commit"
    /\ t_last' = Later(t_last, now)
    /\ UNCHANGED rewound
    /\ departure' = tNext[c]
    /\ departed' = departed + 1
    /\ cleared' = FALSE
    /\ tNext' = [tNext EXCEPT ![c] = 0]
    /\ tLast' = [tLast EXCEPT ![c] = 0]
    /\ pc' = [pc EXCEPT ![c] = "sample"]
    /\ UNCHANGED <<now, t_start, rate, tx_bytes, total_pkts, kind, tCur, tPast>>
    /\ UNCHANGED <<sampled, overlapped, tcpSeen>>

Commit(c) ==
    /\ pc[c] = "commit"
    /\ t_last' = tNext[c]
    /\ rewound' = (rewound \/ tNext[c] < t_last)
    /\ departure' = tNext[c]
    /\ departed' = departed + 1
    /\ cleared' = FALSE
    /\ tNext' = [tNext EXCEPT ![c] = 0]
    /\ tLast' = [tLast EXCEPT ![c] = 0]
    /\ pc' = [pc EXCEPT ![c] = "sample"]
    /\ UNCHANGED <<now, t_start, rate, tx_bytes, total_pkts, kind, tCur, tPast>>
    /\ UNCHANGED <<sampled, overlapped, tcpSeen>>

-----------------------------------------------------------------------------
(* update_rate.                                                            *)

ReadClock(c) ==
    /\ pc[c] = "sample"
    /\ tCur' = [tCur EXCEPT ![c] = now]
    /\ pc' = [pc EXCEPT ![c] = "compare"]
    /\ UNCHANGED <<now, stat, kind, tLast, tNext, tPast, history>>

\* t_past, an unsigned difference.
Past(c) == (tCur[c] - t_start) % Word

PeriodGoesOn(c) ==
    /\ pc[c] = "compare"
    /\ Past(c) <= Interval
    /\ pc' = [pc EXCEPT ![c] = "idle"]
    /\ tCur' = [tCur EXCEPT ![c] = 0]
    /\ UNCHANGED <<now, stat, kind, tLast, tNext, tPast, history>>

\* A fault: the next period would begin when the last packet leaves.
PeriodEndsAtDeparture(c) ==
    /\ pc[c] = "compare"
    /\ Past(c) > Interval
    /\ tPast' = [tPast EXCEPT ![c] = Past(c)]
    /\ t_start' = t_last
    /\ pc' = [pc EXCEPT ![c] = "rate"]
    /\ UNCHANGED <<now, t_last, rate, tx_bytes, total_pkts, kind, tLast, tNext>>
    /\ UNCHANGED <<tCur, history>>

PeriodEnds(c) ==
    /\ pc[c] = "compare"
    /\ Past(c) > Interval
    /\ tPast' = [tPast EXCEPT ![c] = Past(c)]
    /\ t_start' = tCur[c]
    /\ pc' = [pc EXCEPT ![c] = "rate"]
    /\ UNCHANGED <<now, t_last, rate, tx_bytes, total_pkts, kind, tLast, tNext>>
    /\ UNCHANGED <<tCur, history>>

UpdateRate(c) ==
    /\ pc[c] = "rate"
    /\ rate' = (7 * rate + (tx_bytes * Scale) \div tPast[c]) \div 8
    /\ sampled' = sampled + tx_bytes
    /\ tPast' = [tPast EXCEPT ![c] = 0]
    /\ pc' = [pc EXCEPT ![c] = "reset"]
    /\ UNCHANGED <<now, t_last, t_start, tx_bytes, total_pkts, kind, tLast, tNext>>
    /\ UNCHANGED <<tCur, departure, departed, overlapped, tcpSeen, rewound, cleared>>

ResetNever(c) ==
    /\ pc[c] = "reset"
    /\ tCur' = [tCur EXCEPT ![c] = 0]
    /\ pc' = [pc EXCEPT ![c] = "idle"]
    /\ UNCHANGED <<now, stat, kind, tLast, tNext, tPast, history>>

\* The counter restarts, unless another CPU has begun a period meanwhile.
Reset(c) ==
    /\ pc[c] = "reset"
    /\ tx_bytes' = IF t_start = tCur[c] THEN 0 ELSE tx_bytes
    /\ tCur' = [tCur EXCEPT ![c] = 0]
    /\ pc' = [pc EXCEPT ![c] = "idle"]
    /\ UNCHANGED <<now, t_last, t_start, rate, total_pkts, kind, tLast, tNext>>
    /\ UNCHANGED <<tPast, history>>

Packet(c) ==
    \/ Lookup(c) \/ stat_init(c) \/ Account(c) \/ Schedule(c) \/ Drop(c) \/ Commit(c)
    \/ ReadClock(c) \/ PeriodGoesOn(c) \/ PeriodEnds(c) \/ UpdateRate(c) \/ Reset(c)

Next == Tick \/ \E c \in CPUs : Packet(c)

Spec == Init /\ [][Next]_vars

-----------------------------------------------------------------------------
\* However many CPUs pass the test on the backlog with a t_last that is stale by
\* then, what waits of other than TCP exceeds MAX_DELAY_STAMP by at most one packet
\* per CPU, as long as no CPU, late with its write, has taken t_last back.  (Then it
\* may: the CPUs that read the low value pass the test, and their packets add up to
\* the high one that is written next.)
BacklogBounded ==
    ~tcpSeen /\ ~rewound => t_last <= now + MaxDelay + Cardinality(CPUs) * Delay

\* Pacing: as long as no two packets of the object are handled at once, a packet
\* leaves at least Delay after the one before it, whatever stamps the packets carry
\* and however long the object was idle between them.  The exception is the first
\* packet after the estimate has fallen to 0: stat_init takes the entry for a new one
\* and clears t_last, and that one packet does not wait for the packets before it.
Paced ==
    [][departed' # departed /\ ~overlapped /\ ~cleared
         => departure' >= departure + Delay]_vars

\* tc_edt.c:67 on the reset of tx_bytes: "we can safety update without lock".
\* Between packets every byte is either in tx_bytes or has been in exactly one
\* sampling period, as long as no two packets were handled at once.
BytesAccounted ==
    (\A c \in CPUs : pc[c] = "idle") /\ ~overlapped => total_pkts = sampled + tx_bytes
=============================================================================
