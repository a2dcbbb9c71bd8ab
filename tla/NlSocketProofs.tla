--------------------------- MODULE NlSocketProofs ---------------------------
(***************************************************************************)
(* What requests on netlink sockets get for any number of threads,         *)
(* requests and parts of a dump, whatever earlier requests have left in    *)
(* the queue of a handle's socket: answers of their own, complete and in   *)
(* order, and errors of their own.                                         *)
(***************************************************************************)
EXTENDS NlSocket, SequenceTheorems, TLAPS

Datagrams == [from : {"kernel", "overrun", "other"}, msgs : Seq(Messages)]

\* A datagram has a message of the request with this number.
Of(g, n) == \E j \in 1..Len(g.msgs) : g.msgs[j].seq = n

\* The datagrams of an answer, by their numbers; the final one is Last(r).
Last(r) == IF r.kind = "ack" THEN 1 ELSE IF r.kind = "one" THEN 2 ELSE Parts + 1
Nth(r, n) ==
    IF n = Last(r) THEN Datagram(<<DoneMsg(r)>>)
    ELSE IF r.kind = "dump" THEN Datagram(<<Data(r, n), Other(r, n)>>)
    ELSE Datagram(<<Data(r, n)>>)
Number(r, g) == IF g.msgs[1].type = "done" THEN Last(r) ELSE g.msgs[1].part
ErrorDatagram(r) == Datagram(<<ErrorMsg(r)>>)

\* A queue has nothing of a request.
Silent(q, n) == \A i \in 1..Len(q) : ~Of(q[i], n)

\* A queue has of a request's answer the datagrams lo to hi, once each and in order.
Holds(q, r, lo, hi) ==
    /\ \A i \in 1..Len(q) : Of(q[i], r.seq) =>
         Number(r, q[i]) \in lo..hi /\ q[i] = Nth(r, Number(r, q[i]))
    /\ \A i, j \in 1..Len(q) :
         i < j /\ Of(q[i], r.seq) /\ Of(q[j], r.seq) => Number(r, q[i]) < Number(r, q[j])
    /\ \A n \in lo..hi : \E i \in 1..Len(q) : Of(q[i], r.seq) /\ Number(r, q[i]) = n

\* A queue has nothing of a request but its refusal.
OnlyErrors(q, r) == \A i \in 1..Len(q) : Of(q[i], r.seq) => q[i] = ErrorDatagram(r)

-----------------------------------------------------------------------------
(* Queues.                                                                 *)

\* A datagram is put at the end of a queue.
LEMMA Appended ==
    ASSUME NEW q \in Seq(Datagrams), NEW g \in Datagrams
    PROVE  /\ Append(q, g) \in Seq(Datagrams) /\ Len(Append(q, g)) = Len(q) + 1
           /\ Len(q) \in Nat
           /\ \A i \in 1..Len(q) : Append(q, g)[i] = q[i]
           /\ Append(q, g)[Len(q) + 1] = g
OBVIOUS

\* A datagram is taken.
LEMMA Taken ==
    ASSUME NEW q \in Seq(Datagrams), q # << >>
    PROVE  /\ Tail(q) \in Seq(Datagrams) /\ Len(Tail(q)) = Len(q) - 1
           /\ Len(q) \in Nat /\ Len(q) >= 1 /\ Head(q) = q[1] /\ Head(q) \in Datagrams
           /\ \A i \in 1..Len(q) - 1 : Tail(q)[i] = q[i + 1]
OBVIOUS

\* The requests of which a queue has nothing.
LEMMA SilentAppended ==
    ASSUME NEW q \in Seq(Datagrams), NEW g \in Datagrams, NEW n, Silent(q, n), ~Of(g, n)
    PROVE  Silent(Append(q, g), n)
<1> SUFFICES ASSUME NEW i \in 1..(Len(q) + 1) PROVE ~Of(Append(q, g)[i], n)
  BY Appended DEF Silent
<1>1. CASE i \in 1..Len(q)
  BY <1>1, Appended DEF Silent
<1>2. CASE i = Len(q) + 1
  BY <1>2, Appended
<1> QED
  BY <1>1, <1>2, Appended

LEMMA SilentTaken ==
    ASSUME NEW q \in Seq(Datagrams), q # << >>, NEW n, Silent(q, n)
    PROVE  Silent(Tail(q), n)
<1> SUFFICES ASSUME NEW i \in 1..(Len(q) - 1) PROVE ~Of(Tail(q)[i], n)
  BY Taken DEF Silent
<1>1. i + 1 \in 1..Len(q) /\ Tail(q)[i] = q[i + 1]
  BY Taken
<1> QED
  BY <1>1 DEF Silent

LEMMA ErrorsAppended ==
    ASSUME NEW q \in Seq(Datagrams), NEW g \in Datagrams, NEW r, OnlyErrors(q, r),
           Of(g, r.seq) => g = ErrorDatagram(r)
    PROVE  OnlyErrors(Append(q, g), r)
<1> SUFFICES ASSUME NEW i \in 1..(Len(q) + 1), Of(Append(q, g)[i], r.seq)
             PROVE  Append(q, g)[i] = ErrorDatagram(r)
  BY Appended DEF OnlyErrors
<1>1. CASE i \in 1..Len(q)
  BY <1>1, Appended DEF OnlyErrors
<1>2. CASE i = Len(q) + 1
  BY <1>2, Appended
<1> QED
  BY <1>1, <1>2, Appended

LEMMA ErrorsTaken ==
    ASSUME NEW q \in Seq(Datagrams), q # << >>, NEW r, OnlyErrors(q, r)
    PROVE  OnlyErrors(Tail(q), r) /\ (Of(Head(q), r.seq) => Head(q) = ErrorDatagram(r))
<1>1. ASSUME NEW i \in 1..(Len(q) - 1), Of(Tail(q)[i], r.seq)
      PROVE  Tail(q)[i] = ErrorDatagram(r)
  <2>1. i + 1 \in 1..Len(q) /\ Tail(q)[i] = q[i + 1]
    BY Taken
  <2> QED
    BY <1>1, <2>1 DEF OnlyErrors
<1>2. 1 \in 1..Len(q) /\ Head(q) = q[1]
  BY Taken
<1> QED
  BY <1>1, <1>2, Taken DEF OnlyErrors

LEMMA HoldsAppended ==
    ASSUME NEW q \in Seq(Datagrams), NEW g \in Datagrams, NEW r, NEW lo, NEW hi,
           Holds(q, r, lo, hi), ~Of(g, r.seq)
    PROVE  Holds(Append(q, g), r, lo, hi)
<1> DEFINE p == Append(q, g)
<1>0. /\ Len(q) \in Nat /\ Len(p) = Len(q) + 1 /\ \A i \in 1..Len(q) : p[i] = q[i]
      /\ p[Len(q) + 1] = g
  BY Appended
<1> HIDE DEF p
<1>1. ASSUME NEW i \in 1..Len(p), Of(p[i], r.seq) PROVE i \in 1..Len(q) /\ p[i] = q[i]
  BY <1>0, <1>1
<1>2. 1..Len(q) \subseteq 1..Len(p)
  BY <1>0
<1>3. \A i \in 1..Len(p) : Of(p[i], r.seq) =>
         Number(r, p[i]) \in lo..hi /\ p[i] = Nth(r, Number(r, p[i]))
  BY <1>1 DEF Holds
<1>4. \A i, j \in 1..Len(p) :
         i < j /\ Of(p[i], r.seq) /\ Of(p[j], r.seq) => Number(r, p[i]) < Number(r, p[j])
  BY <1>1 DEF Holds
<1>5. ASSUME NEW n \in lo..hi
      PROVE  \E i \in 1..Len(p) : Of(p[i], r.seq) /\ Number(r, p[i]) = n
  <2>1. PICK i \in 1..Len(q) : Of(q[i], r.seq) /\ Number(r, q[i]) = n
    BY <1>5 DEF Holds
  <2>2. p[i] = q[i] /\ i \in 1..Len(p)
    BY <1>0, <1>2, <2>1
  <2> QED
    BY <2>1, <2>2
<1>6. Holds(p, r, lo, hi)
  BY <1>3, <1>4, <1>5 DEF Holds
<1> QED
  BY <1>6 DEF p

\* Nothing of an answer has been put there yet.
LEMMA HoldsNothing ==
    ASSUME NEW q \in Seq(Datagrams), NEW r, Silent(q, r.seq)
    PROVE  Holds(q, r, 1, 0)
<1>1. \A n : n \notin 1..0
  OBVIOUS
<1> QED
  BY <1>1 DEF Holds, Silent

\* A datagram of something else is taken.
LEMMA HoldsTaken ==
    ASSUME NEW q \in Seq(Datagrams), q # << >>, NEW r, NEW lo, NEW hi,
           Holds(q, r, lo, hi), ~Of(Head(q), r.seq)
    PROVE  Holds(Tail(q), r, lo, hi)
<1> DEFINE p == Tail(q)
<1>0. /\ Len(q) \in Nat /\ Len(p) = Len(q) - 1 /\ Len(q) >= 1 /\ Head(q) = q[1]
      /\ \A i \in 1..Len(q) - 1 : p[i] = q[i + 1]
  BY Taken
<1> HIDE DEF p
<1>1. ASSUME NEW i \in 1..Len(p) PROVE i + 1 \in 1..Len(q) /\ p[i] = q[i + 1]
  BY <1>0
<1>3. \A i \in 1..Len(p) : Of(p[i], r.seq) =>
         Number(r, p[i]) \in lo..hi /\ p[i] = Nth(r, Number(r, p[i]))
  BY <1>1 DEF Holds
<1>4. \A i, j \in 1..Len(p) :
         i < j /\ Of(p[i], r.seq) /\ Of(p[j], r.seq) => Number(r, p[i]) < Number(r, p[j])
  <2> SUFFICES ASSUME NEW i \in 1..Len(p), NEW j \in 1..Len(p), i < j,
                      Of(p[i], r.seq), Of(p[j], r.seq)
               PROVE  Number(r, p[i]) < Number(r, p[j])
    OBVIOUS
  <2>1. i + 1 < j + 1
    BY <1>0
  <2> QED
    BY <1>1, <2>1 DEF Holds
<1>5. ASSUME NEW n \in lo..hi
      PROVE  \E i \in 1..Len(p) : Of(p[i], r.seq) /\ Number(r, p[i]) = n
  <2>1. PICK i \in 1..Len(q) : Of(q[i], r.seq) /\ Number(r, q[i]) = n
    BY <1>5 DEF Holds
  <2>2. i # 1
    BY <1>0, <2>1
  <2>3. i - 1 \in 1..Len(p) /\ i - 1 \in 1..(Len(q) - 1) /\ (i - 1) + 1 = i
    BY <1>0, <2>1, <2>2
  <2>4. p[i - 1] = q[i]
    BY <1>0, <2>3
  <2> QED
    BY <2>1, <2>3, <2>4
<1>6. Holds(p, r, lo, hi)
  BY <1>3, <1>4, <1>5 DEF Holds
<1> QED
  BY <1>6 DEF p

\* The datagram of an answer that is taken is the first one that is there.
LEMMA HoldsFirst ==
    ASSUME NEW q \in Seq(Datagrams), q # << >>, NEW r, NEW lo \in Nat, NEW hi \in Nat,
           Holds(q, r, lo, hi), Of(Head(q), r.seq)
    PROVE  lo <= hi /\ Head(q) = Nth(r, lo) /\ Holds(Tail(q), r, lo + 1, hi)
<1> DEFINE p == Tail(q)
<1>0. /\ Len(q) \in Nat /\ Len(p) = Len(q) - 1 /\ Len(q) >= 1 /\ Head(q) = q[1]
      /\ \A i \in 1..Len(q) - 1 : p[i] = q[i + 1]
  BY Taken
<1>1. ASSUME NEW i \in 1..Len(p) PROVE i + 1 \in 1..Len(q) /\ p[i] = q[i + 1]
  BY <1>0
<1> HIDE DEF p
<1>2. 1 \in 1..Len(q) /\ Of(q[1], r.seq)
  BY <1>0
<1>3. Number(r, q[1]) \in lo..hi /\ q[1] = Nth(r, Number(r, q[1]))
  BY <1>2 DEF Holds
<1>4. Number(r, q[1]) = lo
  <2>1. lo \in lo..hi
    BY <1>3
  <2>2. PICK i \in 1..Len(q) : Of(q[i], r.seq) /\ Number(r, q[i]) = lo
    BY <2>1 DEF Holds
  <2>3. CASE i = 1
    BY <2>2, <2>3
  <2>4. CASE i # 1
    <3>1. 1 < i
      BY <1>0, <2>4
    <3>2. Number(r, q[1]) < lo
      BY <1>2, <2>2, <3>1 DEF Holds
    <3> QED
      BY <1>3, <3>2
  <2> QED
    BY <2>3, <2>4
<1>5. ASSUME NEW i \in 1..Len(p), Of(p[i], r.seq)
      PROVE  Number(r, p[i]) \in (lo + 1)..hi /\ p[i] = Nth(r, Number(r, p[i]))
  <2>1. i + 1 \in 1..Len(q) /\ p[i] = q[i + 1] /\ 1 < i + 1
    BY <1>0, <1>1
  <2>2. Number(r, p[i]) \in lo..hi /\ p[i] = Nth(r, Number(r, p[i]))
    BY <1>5, <2>1 DEF Holds
  <2>3. lo < Number(r, p[i])
    BY <1>2, <1>4, <1>5, <2>1 DEF Holds
  <2> QED
    BY <2>2, <2>3
<1>6. \A i, j \in 1..Len(p) :
         i < j /\ Of(p[i], r.seq) /\ Of(p[j], r.seq) => Number(r, p[i]) < Number(r, p[j])
  <2> SUFFICES ASSUME NEW i \in 1..Len(p), NEW j \in 1..Len(p), i < j,
                      Of(p[i], r.seq), Of(p[j], r.seq)
               PROVE  Number(r, p[i]) < Number(r, p[j])
    OBVIOUS
  <2>1. i + 1 < j + 1
    BY <1>0
  <2> QED
    BY <1>1, <2>1 DEF Holds
<1>7. ASSUME NEW n \in (lo + 1)..hi
      PROVE  \E i \in 1..Len(p) : Of(p[i], r.seq) /\ Number(r, p[i]) = n
  <2>0. n \in lo..hi /\ n # lo
    OBVIOUS
  <2>1. PICK i \in 1..Len(q) : Of(q[i], r.seq) /\ Number(r, q[i]) = n
    BY <2>0 DEF Holds
  <2>2. i # 1
    BY <1>4, <2>0, <2>1
  <2>3. i - 1 \in 1..Len(p) /\ i - 1 \in 1..(Len(q) - 1) /\ (i - 1) + 1 = i
    BY <1>0, <2>1, <2>2
  <2>4. p[i - 1] = q[i]
    BY <1>0, <2>3
  <2> QED
    BY <2>1, <2>3, <2>4
<1>8. Holds(p, r, lo + 1, hi)
  BY <1>5, <1>6, <1>7 DEF Holds
<1>9. lo <= hi
  BY <1>3
<1> QED
  BY <1>0, <1>3, <1>4, <1>8, <1>9 DEF p

\* The next datagram of an answer is put at the end.
LEMMA HoldsNext ==
    ASSUME NEW q \in Seq(Datagrams), NEW g \in Datagrams, NEW r, NEW lo \in Nat, NEW hi \in Nat,
           lo <= hi + 1, Holds(q, r, lo, hi), Of(g, r.seq),
           g = Nth(r, hi + 1), Number(r, g) = hi + 1
    PROVE  Holds(Append(q, g), r, lo, hi + 1)
<1> DEFINE p == Append(q, g)
<1>0. /\ Len(q) \in Nat /\ Len(p) = Len(q) + 1 /\ \A i \in 1..Len(q) : p[i] = q[i]
      /\ p[Len(q) + 1] = g
  BY Appended
<1> HIDE DEF p
<1>1. ASSUME NEW i \in 1..Len(p)
      PROVE  (i \in 1..Len(q) /\ p[i] = q[i]) \/ (i = Len(q) + 1 /\ p[i] = g)
  BY <1>0
<1>2. ASSUME NEW i \in 1..Len(q), Of(q[i], r.seq)
      PROVE  Number(r, q[i]) \in lo..(hi + 1) /\ Number(r, q[i]) < hi + 1
  <2>1. Number(r, q[i]) \in lo..hi
    BY <1>2 DEF Holds
  <2> QED
    BY <2>1
<1>3. ASSUME NEW i \in 1..Len(p), Of(p[i], r.seq)
      PROVE  Number(r, p[i]) \in lo..(hi + 1) /\ p[i] = Nth(r, Number(r, p[i]))
  <2>1. CASE i \in 1..Len(q) /\ p[i] = q[i]
    BY <1>2, <1>3, <2>1 DEF Holds
  <2>2. CASE p[i] = g
    <3>1. hi + 1 \in lo..(hi + 1)
      OBVIOUS
    <3> QED
      BY <2>2, <3>1
  <2> QED
    BY <1>1, <2>1, <2>2
<1>4. ASSUME NEW i \in 1..Len(p), NEW j \in 1..Len(p), i < j, Of(p[i], r.seq), Of(p[j], r.seq)
      PROVE  Number(r, p[i]) < Number(r, p[j])
  <2>0. i \in 1..Len(q) /\ p[i] = q[i]
    BY <1>0, <1>4
  <2>1. CASE j \in 1..Len(q) /\ p[j] = q[j]
    BY <1>4, <2>0, <2>1 DEF Holds
  <2>2. CASE p[j] = g
    BY <1>2, <1>4, <2>0, <2>2
  <2> QED
    BY <1>1, <2>1, <2>2
<1>5. ASSUME NEW n \in lo..(hi + 1)
      PROVE  \E i \in 1..Len(p) : Of(p[i], r.seq) /\ Number(r, p[i]) = n
  <2>1. CASE n = hi + 1
    <3>1. Len(q) + 1 \in 1..Len(p)
      BY <1>0
    <3> QED
      BY <1>0, <2>1, <3>1
  <2>2. CASE n \in lo..hi
    <3>1. PICK i \in 1..Len(q) : Of(q[i], r.seq) /\ Number(r, q[i]) = n
      BY <2>2 DEF Holds
    <3>2. p[i] = q[i] /\ i \in 1..Len(p)
      BY <1>0, <3>1
    <3> QED
      BY <3>1, <3>2
  <2> QED
    BY <2>1, <2>2
<1>6. Holds(p, r, lo, hi + 1)
  BY <1>3, <1>4, <1>5 DEF Holds
<1> QED
  BY <1>6 DEF p

-----------------------------------------------------------------------------
(* Datagrams.                                                              *)

\* Messages are messages.
LEMMA MessagesTyped ==
    ASSUME NEW r \in Requests, NEW n \in 0..Parts
    PROVE  /\ Data(r, n) \in Messages /\ Other(r, n) \in Messages
           /\ DoneMsg(r) \in Messages /\ ErrorMsg(r) \in Messages
<1>1. r.seq \in Nat /\ 0 \in 0..Parts
  BY SocketAssumption DEF Requests
<1>2. (r.kind = "dump") \in BOOLEAN
  OBVIOUS
<1> QED
  BY <1>1, <1>2 DEF Data, Other, DoneMsg, ErrorMsg, Messages

\* Whose a datagram of one or of two messages is.
LEMMA OneMessage ==
    ASSUME NEW m \in Messages
    PROVE  /\ Datagram(<<m>>) \in Datagrams /\ Datagram(<<m>>).msgs = <<m>>
           /\ Datagram(<<m>>).from = "kernel"
           /\ \A n : Of(Datagram(<<m>>), n) <=> m.seq = n
<1>1. /\ Datagram(<<m>>) \in Datagrams /\ Datagram(<<m>>).msgs = <<m>>
      /\ Datagram(<<m>>).from = "kernel"
  BY DEF Datagram, Datagrams
<1>2. Len(<<m>>) = 1 /\ <<m>>[1] = m
  OBVIOUS
<1>3. 1..1 = {1}
  OBVIOUS
<1> QED
  BY <1>1, <1>2, <1>3 DEF Of

LEMMA TwoMessages ==
    ASSUME NEW m \in Messages, NEW o \in Messages, m.seq = o.seq
    PROVE  /\ Datagram(<<m, o>>) \in Datagrams /\ Datagram(<<m, o>>).msgs = <<m, o>>
           /\ Datagram(<<m, o>>).from = "kernel"
           /\ \A n : Of(Datagram(<<m, o>>), n) <=> m.seq = n
<1>1. /\ Datagram(<<m, o>>) \in Datagrams /\ Datagram(<<m, o>>).msgs = <<m, o>>
      /\ Datagram(<<m, o>>).from = "kernel"
  BY DEF Datagram, Datagrams
<1>2. Len(<<m, o>>) = 2 /\ <<m, o>>[1] = m /\ <<m, o>>[2] = o
  OBVIOUS
<1>3. 1..2 = {1, 2}
  OBVIOUS
<1> QED
  BY <1>1, <1>2, <1>3 DEF Of

\* What is known of the number of datagrams of an answer.
LEMMA LastNumber ==
    ASSUME NEW r \in Requests
    PROVE  /\ Last(r) \in Nat /\ 1 <= Last(r)
           /\ r.kind = "dump" => Last(r) = Parts + 1
           /\ r.kind = "one" => Last(r) = 2
           /\ r.kind = "ack" => Last(r) = 1
           /\ r.kind \in {"ack", "one", "dump"} /\ Parts \in Nat /\ Parts >= 1
BY SocketAssumption DEF Last, Requests, KindsOfRequest

\* The datagrams of an answer are datagrams from the kernel, tell their number and
\* are of no other request.
LEMMA NthKnown ==
    ASSUME NEW r \in Requests, NEW n \in 1..Last(r)
    PROVE  /\ Nth(r, n) \in Datagrams /\ Nth(r, n).from = "kernel"
           /\ Number(r, Nth(r, n)) = n
           /\ \A m : Of(Nth(r, n), m) <=> r.seq = m
<1>0. /\ Last(r) \in Nat /\ Parts \in Nat /\ Parts >= 1
      /\ r.kind \in {"ack", "one", "dump"}
      /\ r.kind = "dump" => Last(r) = Parts + 1
      /\ r.kind = "one" => Last(r) = 2
      /\ r.kind = "ack" => Last(r) = 1
  BY LastNumber
<1>1. CASE n = Last(r)
  <2>1. Nth(r, n) = Datagram(<<DoneMsg(r)>>)
    BY <1>1 DEF Nth
  <2>2. DoneMsg(r) \in Messages /\ DoneMsg(r).seq = r.seq /\ DoneMsg(r).type = "done"
    <3>1. 0 \in 0..Parts
      BY <1>0
    <3> QED
      BY <3>1, MessagesTyped DEF DoneMsg
  <2>3. <<DoneMsg(r)>>[1] = DoneMsg(r)
    OBVIOUS
  <2> QED
    BY <1>1, <2>1, <2>2, <2>3, OneMessage DEF Number
<1>2. CASE n # Last(r)
  <2>0. n \in 0..Parts
    BY <1>0, <1>2
  <2>1. /\ Data(r, n) \in Messages /\ Data(r, n).seq = r.seq /\ Data(r, n).type = "data"
        /\ Data(r, n).part = n /\ Other(r, n) \in Messages /\ Other(r, n).seq = r.seq
    BY <2>0, MessagesTyped DEF Data, Other
  <2>2. CASE r.kind = "dump"
    <3>1. Nth(r, n) = Datagram(<<Data(r, n), Other(r, n)>>)
      BY <1>2, <2>2 DEF Nth
    <3>2. <<Data(r, n), Other(r, n)>>[1] = Data(r, n)
      OBVIOUS
    <3> QED
      BY <2>1, <3>1, <3>2, TwoMessages DEF Number
  <2>3. CASE r.kind # "dump"
    <3>1. Nth(r, n) = Datagram(<<Data(r, n)>>)
      BY <1>2, <2>3 DEF Nth
    <3>2. <<Data(r, n)>>[1] = Data(r, n)
      OBVIOUS
    <3> QED
      BY <2>1, <3>1, <3>2, OneMessage DEF Number
  <2> QED
    BY <2>2, <2>3
<1> QED
  BY <1>1, <1>2

\* The parts of a dump are its numbered datagrams.
LEMMA DumpPartKnown ==
    ASSUME NEW r \in Requests, r.kind = "dump", NEW n \in 1..(Parts + 1)
    PROVE  DumpPart(r, n) = Nth(r, n) /\ n \in 1..Last(r)
<1>1. Parts \in Nat /\ Last(r) = Parts + 1
  BY LastNumber
<1>2. n > Parts <=> n = Parts + 1
  BY <1>1
<1> QED
  BY <1>1, <1>2 DEF DumpPart, Nth

\* A refusal, and datagrams that no request is answered with.
LEMMA ErrorKnown ==
    ASSUME NEW r \in Requests
    PROVE  /\ ErrorDatagram(r) \in Datagrams /\ ErrorDatagram(r).msgs = <<ErrorMsg(r)>>
           /\ \A m : Of(ErrorDatagram(r), m) <=> r.seq = m
<1>1. ErrorMsg(r) \in Messages /\ ErrorMsg(r).seq = r.seq
  <2>1. 0 \in 0..Parts
    BY SocketAssumption
  <2> QED
    BY <2>1, MessagesTyped DEF ErrorMsg
<1> QED
  BY <1>1, OneMessage DEF ErrorDatagram

LEMMA WrongKnown ==
    /\ Overrun \in Datagrams /\ Foreign \in Datagrams
    /\ Overrun.msgs = << >> /\ Foreign.msgs = << >>
    /\ \A m : ~Of(Overrun, m) /\ ~Of(Foreign, m)
<1>1. /\ Overrun \in Datagrams /\ Foreign \in Datagrams
      /\ Overrun.msgs = << >> /\ Foreign.msgs = << >>
  BY DEF Overrun, Foreign, Datagrams
<1>2. Len(<< >>) = 0 /\ \A j : j \notin 1..0
  OBVIOUS
<1> QED
  BY <1>1, <1>2 DEF Of

\* What Send puts into the queue.
LEMMA AnswerKnown ==
    ASSUME NEW r \in Requests, NEW q \in Seq(Datagrams)
    PROVE  /\ r.kind # "one" => q \o Answer(r) = Append(q, Nth(r, 1))
           /\ r.kind = "one" => q \o Answer(r) = Append(Append(q, Nth(r, 1)), Nth(r, 2))
<1>0. /\ Parts \in Nat /\ Parts >= 1 /\ r.kind \in {"ack", "one", "dump"}
      /\ r.kind = "dump" => Last(r) = Parts + 1
      /\ r.kind = "one" => Last(r) = 2
      /\ r.kind = "ack" => Last(r) = 1
  BY LastNumber
<1>1. CASE r.kind = "ack"
  <2>1. Answer(r) = <<Nth(r, 1)>> /\ 1 \in 1..Last(r)
    BY <1>0, <1>1 DEF Answer, Nth
  <2>2. Nth(r, 1) \in Datagrams
    BY <2>1, NthKnown
  <2> QED
    BY <1>1, <2>1, <2>2
<1>2. CASE r.kind = "dump"
  <2>1. Answer(r) = <<DumpPart(r, 1)>> /\ 1 \in 1..(Parts + 1)
    BY <1>0, <1>2 DEF Answer
  <2>2. DumpPart(r, 1) = Nth(r, 1) /\ Nth(r, 1) \in Datagrams
    BY <1>2, <2>1, DumpPartKnown, NthKnown
  <2> QED
    BY <1>2, <2>1, <2>2
<1>3. CASE r.kind = "one"
  <2>1. Answer(r) = <<Nth(r, 1), Nth(r, 2)>>
    BY <1>0, <1>3 DEF Answer, Nth
  <2>2. Nth(r, 1) \in Datagrams /\ Nth(r, 2) \in Datagrams
    BY <1>0, <1>3, NthKnown
  <2>3. ASSUME NEW g \in Datagrams, NEW h \in Datagrams
        PROVE  q \o <<g, h>> = Append(Append(q, g), h)
    OBVIOUS
  <2> QED
    BY <1>3, <2>1, <2>2, <2>3
<1> QED
  BY <1>0, <1>1, <1>2, <1>3

-----------------------------------------------------------------------------
(* A request whose answer is awaited: r is the request, b what is left of  *)
(* the last datagram, rs the data collected, and q and d are the queue and *)
(* the dump of its socket.                                                 *)

OtherBatch(b, n) == \A j \in 1..Len(b) : b[j].seq # n
OwnDump(d, r) == d # None /\ d.req.seq = r.seq
UpTo(d, r) == IF OwnDump(d, r) THEN d.next - 1 ELSE Last(r)
Rest(r, q, d, lo) == lo <= UpTo(d, r) + 1 /\ Holds(q, r, lo, UpTo(d, r))

\* A request that was refused, or whose answer overran the receive buffer.
Unanswered(r, b, rs, q, d) ==
    /\ rs = << >> /\ ~OwnDump(d, r) /\ OnlyErrors(q, r)
    /\ b = <<ErrorMsg(r)>> \/ OtherBatch(b, r.seq)

\* The first data of the answer have been collected, and what comes next is in the
\* datagram being looked at or is the first of what the queue has of the answer.
Answered(r, b, rs, q, d) ==
    /\ \A i \in 1..Len(rs) : rs[i] = Data(r, i)
    /\ Len(rs) < Last(r)
    /\ r.kind # "dump" => Len(rs) = 0
    /\ OwnDump(d, r) => d.req = r /\ r.kind = "dump"
    /\ \/ OtherBatch(b, r.seq) /\ Rest(r, q, d, Len(rs) + 1)
       \/ b = <<Other(r, Len(rs))>> /\ Rest(r, q, d, Len(rs) + 1)
       \/ /\ b = <<Data(r, Len(rs) + 1), Other(r, Len(rs) + 1)>>
          /\ r.kind = "dump" /\ Len(rs) < Parts /\ Rest(r, q, d, Len(rs) + 2)
       \/ b = <<Data(r, 1)>> /\ r.kind = "one"
       \/ b = <<DoneMsg(r)>> /\ Len(rs) = Last(r) - 1 /\ r.kind # "one"

Awaiting(r, b, rs, q, d) == Unanswered(r, b, rs, q, d) \/ Answered(r, b, rs, q, d)

\* A socket is in no dump, or in one that was asked for.
DumpStates == {None} \cup {d \in Dumps : d.req.kind = "dump"}

\* Two sequences with the same elements are the same.
LEMMA SameMessages ==
    ASSUME NEW s \in Seq(Messages), NEW n \in Nat, NEW f, Len(s) = n,
           f = [i \in 1..n |-> f[i]], \A i \in 1..n : s[i] = f[i]
    PROVE  s = f
<1>1. s = [i \in 1..Len(s) |-> s[i]]
  OBVIOUS
<1> QED
  BY <1>1

\* The first datagrams of an answer are put where nothing of it is.
LEMMA SendAwaits ==
    ASSUME NEW r \in Requests, NEW q \in Seq(Datagrams), NEW d \in DumpStates,
           Silent(q, r.seq), ~OwnDump(d, r), r.kind = "dump" => d = None,
           NEW e, e = IF r.kind = "dump" THEN [req |-> r, next |-> 2] ELSE d
    PROVE  /\ q \o Answer(r) \in Seq(Datagrams) /\ e \in DumpStates
           /\ Answered(r, << >>, << >>, q \o Answer(r), e)
           /\ \A n : n # r.seq /\ Silent(q, n) => Silent(q \o Answer(r), n)
<1>0. /\ Parts \in Nat /\ Parts >= 1 /\ r.kind \in {"ack", "one", "dump"} /\ Last(r) \in Nat
      /\ r.kind = "dump" => Last(r) = Parts + 1
      /\ r.kind = "one" => Last(r) = 2
      /\ r.kind = "ack" => Last(r) = 1 /\ Last(r) >= 1
  BY LastNumber
<1> DEFINE g == Nth(r, 1)
           q1 == Append(q, g)
<1>1. /\ g \in Datagrams /\ Number(r, g) = 1 /\ \A n : Of(g, n) <=> r.seq = n
  BY <1>0, NthKnown
<1>2. q1 \in Seq(Datagrams) /\ Holds(q1, r, 1, 1)
  <2>1. Holds(q, r, 1, 0)
    BY HoldsNothing
  <2>2. g = Nth(r, 0 + 1) /\ Number(r, g) = 0 + 1 /\ 1 <= 0 + 1 /\ 1 \in Nat /\ 0 \in Nat
    BY <1>1
  <2>3. Holds(q1, r, 1, 0 + 1)
    BY <1>1, <2>1, <2>2, HoldsNext
  <2> QED
    BY <1>1, <2>3, Appended
<1>3. \A n : n # r.seq /\ Silent(q, n) => Silent(q1, n)
  BY <1>1, SilentAppended
<1> HIDE DEF q1
<1>4. Len(<< >>) = 0 /\ OtherBatch(<< >>, r.seq) /\ \A i : i \notin 1..0
  BY DEF OtherBatch
<1>5. CASE r.kind = "ack"
  <2>1. q \o Answer(r) = q1 /\ e = d
    BY <1>5, AnswerKnown DEF q1
  <2>2. UpTo(e, r) = 1 /\ ~OwnDump(e, r)
    BY <1>0, <1>5, <2>1 DEF UpTo
  <2>3. Rest(r, q1, e, 0 + 1)
    BY <1>2, <2>2 DEF Rest
  <2> QED
    BY <1>0, <1>2, <1>3, <1>4, <1>5, <2>1, <2>2, <2>3 DEF Answered
<1>6. CASE r.kind = "dump"
  <2>1. q \o Answer(r) = q1
    BY <1>6, AnswerKnown DEF q1
  <2>2. e = [req |-> r, next |-> 2]
    BY <1>6
  <2>3. e \in Dumps /\ e.req = r /\ e.next = 2
    BY <1>0, <2>2 DEF Dumps
  <2>4. e # None /\ e \in DumpStates /\ OwnDump(e, r) /\ UpTo(e, r) = 1
    BY <1>6, <2>3, NoDumpAssumption DEF DumpStates, OwnDump, UpTo
  <2>5. Rest(r, q1, e, 0 + 1)
    BY <1>2, <2>4 DEF Rest
  <2>6. 0 < Last(r)
    BY <1>0, <1>6
  <2> QED
    BY <1>2, <1>3, <1>4, <1>6, <2>1, <2>3, <2>4, <2>5, <2>6 DEF Answered
<1>7. CASE r.kind = "one"
  <2> DEFINE h == Nth(r, 2)
             q2 == Append(q1, h)
  <2>1. q \o Answer(r) = q2 /\ e = d
    BY <1>7, AnswerKnown DEF q1
  <2>2. h \in Datagrams /\ Number(r, h) = 1 + 1 /\ \A n : Of(h, n) <=> r.seq = n
    BY <1>0, <1>7, NthKnown
  <2>3. q2 \in Seq(Datagrams) /\ Holds(q2, r, 1, 1 + 1)
    <3>1. h = Nth(r, 1 + 1) /\ 1 <= 1 + 1 /\ 1 \in Nat
      OBVIOUS
    <3> QED
      BY <1>2, <2>2, <3>1, HoldsNext, Appended
  <2>4. \A n : n # r.seq /\ Silent(q, n) => Silent(q2, n)
    BY <1>2, <1>3, <2>2, SilentAppended
  <2> HIDE DEF q2
  <2>5. UpTo(e, r) = 1 + 1 /\ ~OwnDump(e, r)
    BY <1>0, <1>7, <2>1 DEF UpTo
  <2>6. Rest(r, q2, e, 0 + 1)
    BY <2>3, <2>5 DEF Rest
  <2> QED
    BY <1>0, <1>4, <1>7, <2>1, <2>3, <2>4, <2>5, <2>6 DEF Answered
<1> QED
  BY <1>0, <1>5, <1>6, <1>7

\* A refusal, or the mark of an overrun, is put there instead.
LEMMA RefusalAwaits ==
    ASSUME NEW r \in Requests, NEW q \in Seq(Datagrams), NEW d \in DumpStates,
           Silent(q, r.seq), ~OwnDump(d, r), NEW g, g \in {ErrorDatagram(r), Overrun}
    PROVE  /\ q \o <<g>> \in Seq(Datagrams) /\ q \o <<g>> = Append(q, g)
           /\ Unanswered(r, << >>, << >>, q \o <<g>>, d)
           /\ \A n : n # r.seq /\ Silent(q, n) => Silent(q \o <<g>>, n)
<1>1. g \in Datagrams /\ (Of(g, r.seq) => g = ErrorDatagram(r)) /\ \A n : n # r.seq => ~Of(g, n)
  BY ErrorKnown, WrongKnown
<1>2. q \o <<g>> = Append(q, g)
  BY <1>1
<1>3. OnlyErrors(q, r)
  BY DEF OnlyErrors, Silent
<1>4. OnlyErrors(Append(q, g), r) /\ Append(q, g) \in Seq(Datagrams)
  BY <1>1, <1>3, ErrorsAppended, Appended
<1>5. OtherBatch(<< >>, r.seq)
  BY DEF OtherBatch
<1> QED
  BY <1>1, <1>2, <1>4, <1>5, SilentAppended DEF Unanswered

\* The kernel goes on with a dump when a datagram is taken.
NextQueue(q, d) == IF d = None THEN Tail(q) ELSE Append(Tail(q), DumpPart(d.req, d.next))
NextDump(d) ==
    IF d = None THEN None
    ELSE IF d.next > Parts THEN None ELSE [req |-> d.req, next |-> d.next + 1]

\* What is known of a dump that goes on.
LEMMA DumpGoesOn ==
    ASSUME NEW d \in DumpStates, d # None
    PROVE  /\ d.req \in Requests /\ d.req.kind = "dump" /\ d.next \in 2..(Parts + 1)
           /\ Parts \in Nat
           /\ DumpPart(d.req, d.next) = Nth(d.req, d.next)
           /\ DumpPart(d.req, d.next) \in Datagrams
           /\ Number(d.req, DumpPart(d.req, d.next)) = d.next
           /\ \A n : Of(DumpPart(d.req, d.next), n) <=> d.req.seq = n
           /\ d.next > Parts => NextDump(d) = None /\ d.next = Parts + 1
           /\ ~(d.next > Parts) => /\ NextDump(d) \in Dumps /\ NextDump(d) # None
                                   /\ NextDump(d).req = d.req /\ NextDump(d).next = d.next + 1
<1>1. d \in Dumps /\ d.req.kind = "dump" /\ Parts \in Nat
  BY SocketAssumption DEF DumpStates
<1>2. d.req \in Requests /\ d.next \in 2..(Parts + 1)
  BY <1>1 DEF Dumps
<1>3. d.next \in 1..(Parts + 1)
  BY <1>1, <1>2
<1>4. DumpPart(d.req, d.next) = Nth(d.req, d.next) /\ d.next \in 1..Last(d.req)
  BY <1>1, <1>2, <1>3, DumpPartKnown
<1>5. /\ Nth(d.req, d.next) \in Datagrams /\ Number(d.req, Nth(d.req, d.next)) = d.next
      /\ \A n : Of(Nth(d.req, d.next), n) <=> d.req.seq = n
  BY <1>2, <1>4, NthKnown
<1>6. d.next > Parts => NextDump(d) = None /\ d.next = Parts + 1
  BY <1>1, <1>2 DEF NextDump
<1>7. ASSUME ~(d.next > Parts)
      PROVE  /\ NextDump(d) \in Dumps /\ NextDump(d) # None
             /\ NextDump(d).req = d.req /\ NextDump(d).next = d.next + 1
  <2>1. NextDump(d) = [req |-> d.req, next |-> d.next + 1]
    BY <1>7 DEF NextDump
  <2>2. d.next + 1 \in 2..(Parts + 1)
    BY <1>1, <1>2, <1>7
  <2>3. NextDump(d) \in Dumps
    BY <1>2, <2>1, <2>2 DEF Dumps
  <2> QED
    BY <2>1, <2>3, NoDumpAssumption
<1> QED
  BY <1>1, <1>2, <1>4, <1>5, <1>6, <1>7

\* Taking a datagram leaves silent what was silent.
LEMMA TakenKept ==
    ASSUME NEW q \in Seq(Datagrams), q # << >>, NEW d \in DumpStates
    PROVE  /\ NextQueue(q, d) \in Seq(Datagrams) /\ NextDump(d) \in DumpStates
           /\ \A n : Silent(q, n) /\ ~(d # None /\ d.req.seq = n) =>
                /\ Silent(NextQueue(q, d), n)
                /\ ~(NextDump(d) # None /\ NextDump(d).req.seq = n)
<1>1. Tail(q) \in Seq(Datagrams) /\ \A n : Silent(q, n) => Silent(Tail(q), n)
  BY Taken, SilentTaken
<1>2. CASE d = None
  BY <1>1, <1>2 DEF NextQueue, NextDump, DumpStates
<1>3. CASE d # None
  <2> DEFINE g == DumpPart(d.req, d.next)
  <2>1. g \in Datagrams /\ \A n : Of(g, n) <=> d.req.seq = n
    BY <1>3, DumpGoesOn
  <2>2. NextQueue(q, d) = Append(Tail(q), g)
    BY <1>3 DEF NextQueue
  <2>3. NextDump(d) = None \/ (NextDump(d) \in Dumps /\ NextDump(d).req = d.req)
    BY <1>3, DumpGoesOn
  <2>4. d.req.kind = "dump"
    BY <1>3, DumpGoesOn
  <2>5. NextDump(d) \in DumpStates
    BY <2>3, <2>4 DEF DumpStates
  <2> HIDE DEF g
  <2>6. Append(Tail(q), g) \in Seq(Datagrams)
    BY <1>1, <2>1, Appended
  <2>7. ASSUME NEW n, Silent(q, n), d.req.seq # n PROVE Silent(Append(Tail(q), g), n)
    BY <1>1, <2>1, <2>7, SilentAppended
  <2> QED
    BY <1>3, <2>2, <2>3, <2>5, <2>6, <2>7
<1> QED
  BY <1>2, <1>3

\* What the queue has of an answer when the kernel has gone on with a dump.
LEMMA RestGoesOn ==
    ASSUME NEW r \in Requests, NEW q \in Seq(Datagrams), q # << >>, NEW d \in DumpStates,
           NEW lo \in Nat, OwnDump(d, r) => d.req = r,
           lo <= UpTo(d, r) + 1, Holds(Tail(q), r, lo, UpTo(d, r))
    PROVE  /\ Rest(r, NextQueue(q, d), NextDump(d), lo)
           /\ OwnDump(NextDump(d), r) => OwnDump(d, r) /\ NextDump(d).req = d.req
<1>t. Tail(q) \in Seq(Datagrams) /\ Last(r) \in Nat
  BY Taken, LastNumber
<1>1. CASE d = None
  <2>1. NextQueue(q, d) = Tail(q) /\ NextDump(d) = d
    BY <1>1 DEF NextQueue, NextDump
  <2> QED
    BY <1>1, <2>1 DEF Rest, OwnDump
<1>2. CASE d # None
  <2> DEFINE g == DumpPart(d.req, d.next)
  <2>1. /\ g \in Datagrams /\ \A n : Of(g, n) <=> d.req.seq = n
        /\ d.next \in 2..(Parts + 1) /\ Parts \in Nat
        /\ g = Nth(d.req, d.next) /\ Number(d.req, g) = d.next
    BY <1>2, DumpGoesOn
  <2>2. NextQueue(q, d) = Append(Tail(q), g)
    BY <1>2 DEF NextQueue
  <2>3. \/ NextDump(d) = None /\ d.next = Parts + 1
        \/ NextDump(d) # None /\ NextDump(d).req = d.req /\ NextDump(d).next = d.next + 1
    BY <1>2, DumpGoesOn
  <2> HIDE DEF g
  <2>4. CASE OwnDump(d, r)
    <3>1. d.req = r /\ UpTo(d, r) = d.next - 1 /\ r.kind = "dump" /\ Last(r) = Parts + 1
      BY <1>2, <2>4, DumpGoesOn, LastNumber DEF UpTo
    <3>2. UpTo(d, r) \in Nat /\ UpTo(d, r) + 1 = d.next
      BY <2>1, <3>1
    <3>3. UpTo(NextDump(d), r) = d.next
      <4>1. CASE NextDump(d) = None /\ d.next = Parts + 1
        BY <3>1, <4>1 DEF UpTo, OwnDump
      <4>2. CASE NextDump(d) # None /\ NextDump(d).req = d.req /\ NextDump(d).next = d.next + 1
        <5>1. OwnDump(NextDump(d), r)
          BY <3>1, <4>2 DEF OwnDump
        <5>2. UpTo(NextDump(d), r) = (d.next + 1) - 1
          BY <4>2, <5>1 DEF UpTo
        <5> QED
          BY <2>1, <5>2
      <4> QED
        BY <2>3, <4>1, <4>2
    <3>4. Holds(Append(Tail(q), g), r, lo, UpTo(d, r) + 1)
      BY <1>t, <2>1, <3>1, <3>2, HoldsNext
    <3>5. lo <= d.next + 1
      BY <2>1, <3>2
    <3> QED
      BY <2>2, <2>3, <2>4, <3>2, <3>3, <3>4, <3>5 DEF Rest, OwnDump
  <2>5. CASE ~OwnDump(d, r)
    <3>1. ~Of(g, r.seq) /\ ~OwnDump(NextDump(d), r)
      BY <1>2, <2>1, <2>3, <2>5 DEF OwnDump
    <3>2. UpTo(d, r) = Last(r) /\ UpTo(NextDump(d), r) = Last(r)
      BY <2>5, <3>1 DEF UpTo
    <3>3. Holds(Append(Tail(q), g), r, lo, Last(r))
      BY <1>t, <2>1, <3>1, <3>2, HoldsAppended
    <3> QED
      BY <2>2, <3>1, <3>2, <3>3 DEF Rest
  <2> QED
    BY <2>4, <2>5
<1> QED
  BY <1>1, <1>2

\* A datagram from the kernel is taken to be looked at.
LEMMA ReceiveAwaits ==
    ASSUME NEW r \in Requests, NEW rs \in Seq(Messages), NEW q \in Seq(Datagrams), q # << >>,
           NEW d \in DumpStates, Awaiting(r, << >>, rs, q, d)
    PROVE  Awaiting(r, Head(q).msgs, rs, NextQueue(q, d), NextDump(d))
<1>o. ~Of(Head(q), r.seq) => OtherBatch(Head(q).msgs, r.seq)
  BY DEF Of, OtherBatch
<1>t. Tail(q) \in Seq(Datagrams)
  BY Taken
<1>1. CASE Unanswered(r, << >>, rs, q, d)
  <2>1. /\ OnlyErrors(Tail(q), r) /\ (Of(Head(q), r.seq) => Head(q) = ErrorDatagram(r))
        /\ ~OwnDump(d, r) /\ rs = << >>
    BY <1>1, ErrorsTaken DEF Unanswered
  <2>2. Head(q).msgs = <<ErrorMsg(r)>> \/ OtherBatch(Head(q).msgs, r.seq)
    BY <1>o, <2>1, ErrorKnown
  <2>3. OnlyErrors(NextQueue(q, d), r) /\ ~OwnDump(NextDump(d), r)
    <3>1. CASE d = None
      BY <2>1, <3>1 DEF NextQueue, NextDump, OwnDump
    <3>2. CASE d # None
      <4> DEFINE g == DumpPart(d.req, d.next)
      <4>1. /\ g \in Datagrams /\ \A n : Of(g, n) <=> d.req.seq = n
            /\ NextDump(d) = None \/ NextDump(d).req = d.req
        BY <3>2, DumpGoesOn
      <4>2. NextQueue(q, d) = Append(Tail(q), g)
        BY <3>2 DEF NextQueue
      <4> HIDE DEF g
      <4>3. ~Of(g, r.seq)
        BY <2>1, <3>2, <4>1 DEF OwnDump
      <4> QED
        BY <1>t, <2>1, <3>2, <4>1, <4>2, <4>3, ErrorsAppended DEF OwnDump
    <3> QED
      BY <3>1, <3>2
  <2> QED
    BY <2>1, <2>2, <2>3 DEF Awaiting, Unanswered
<1>2. CASE Answered(r, << >>, rs, q, d)
  <2> DEFINE k == Len(rs)
             hi == UpTo(d, r)
  <2>0. /\ k \in Nat /\ Last(r) \in Nat /\ Parts \in Nat
        /\ r.kind = "dump" => Last(r) = Parts + 1
        /\ r.kind = "one" => Last(r) = 2
        /\ r.kind = "ack" => Last(r) = 1
        /\ r.kind \in {"ack", "one", "dump"}
    BY LastNumber
  <2>1. /\ \A i \in 1..k : rs[i] = Data(r, i)
        /\ k < Last(r)
        /\ r.kind # "dump" => k = 0
        /\ OwnDump(d, r) => d.req = r /\ r.kind = "dump"
    BY <1>2 DEF Answered
  <2>2. Rest(r, q, d, k + 1)
    <3>1. /\ << >> # <<Other(r, k)>> /\ << >> # <<Data(r, k + 1), Other(r, k + 1)>>
          /\ << >> # <<Data(r, 1)>> /\ << >> # <<DoneMsg(r)>>
      OBVIOUS
    <3> QED
      BY <1>2, <3>1 DEF Answered
  <2>3. k + 1 <= hi + 1 /\ Holds(q, r, k + 1, hi)
    BY <2>2 DEF Rest
  <2>h. hi \in Nat
    <3>1. CASE OwnDump(d, r)
      <4>1. d.next \in 2..(Parts + 1)
        BY <3>1, DumpGoesOn DEF OwnDump
      <4> QED
        BY <2>0, <3>1, <4>1 DEF UpTo
    <3>2. CASE ~OwnDump(d, r)
      BY <2>0, <3>2 DEF UpTo
    <3> QED
      BY <3>1, <3>2
  <2>d. ASSUME OwnDump(NextDump(d), r), OwnDump(d, r), NextDump(d).req = d.req
        PROVE  NextDump(d).req = r /\ r.kind = "dump"
    BY <2>1, <2>d
  <2> HIDE DEF hi
  <2>4. CASE ~Of(Head(q), r.seq)
    <3>1. Holds(Tail(q), r, k + 1, hi)
      BY <2>3, <2>4, HoldsTaken
    <3>2. /\ Rest(r, NextQueue(q, d), NextDump(d), k + 1)
          /\ OwnDump(NextDump(d), r) => OwnDump(d, r) /\ NextDump(d).req = d.req
      BY <2>0, <2>1, <2>3, <3>1, RestGoesOn DEF hi
    <3> QED
      BY <1>o, <2>1, <2>4, <2>d, <3>2 DEF Awaiting, Answered
  <2>5. CASE Of(Head(q), r.seq)
    <3>1. k + 1 <= hi /\ Head(q) = Nth(r, k + 1) /\ Holds(Tail(q), r, (k + 1) + 1, hi)
      BY <2>0, <2>3, <2>5, <2>h, HoldsFirst
    <3>2. (k + 1) + 1 = k + 2 /\ k + 2 \in Nat /\ k + 2 <= hi + 1
      BY <2>0, <2>h, <3>1
    <3>3. /\ Rest(r, NextQueue(q, d), NextDump(d), k + 2)
          /\ OwnDump(NextDump(d), r) => OwnDump(d, r) /\ NextDump(d).req = d.req
      BY <2>1, <3>1, <3>2, RestGoesOn DEF hi
    <3>4. CASE k + 1 = Last(r)
      <4>1. Head(q).msgs = <<DoneMsg(r)>>
        BY <3>1, <3>4 DEF Nth, Datagram
      <4>2. k = Last(r) - 1 /\ r.kind # "one"
        BY <2>0, <2>1, <3>4
      <4> QED
        BY <2>1, <2>d, <3>3, <4>1, <4>2 DEF Awaiting, Answered
    <3>5. CASE k + 1 # Last(r) /\ r.kind = "dump"
      <4>1. Head(q).msgs = <<Data(r, k + 1), Other(r, k + 1)>>
        BY <3>1, <3>5 DEF Nth, Datagram
      <4>2. k < Parts
        BY <2>0, <2>1, <3>5
      <4> QED
        BY <2>1, <2>d, <3>3, <3>5, <4>1, <4>2 DEF Awaiting, Answered
    <3>6. CASE k + 1 # Last(r) /\ r.kind # "dump"
      <4>1. r.kind = "one" /\ k + 1 = 1
        BY <2>0, <2>1, <3>6
      <4>2. Head(q).msgs = <<Data(r, 1)>>
        BY <3>1, <3>6, <4>1 DEF Nth, Datagram
      <4> QED
        BY <2>1, <2>d, <3>3, <4>1, <4>2 DEF Awaiting, Answered
    <3> QED
      BY <3>4, <3>5, <3>6
  <2> QED
    BY <2>4, <2>5
<1> QED
  BY <1>1, <1>2 DEF Awaiting

\* Sequences of messages that begin with one, and their heads.
LEMMA Batches ==
    ASSUME NEW b \in Seq(Messages), b # << >>
    PROVE  /\ Head(b) \in Messages /\ Head(b) = b[1] /\ Tail(b) \in Seq(Messages)
           /\ Len(b) \in Nat /\ Len(b) >= 1 /\ 1 \in 1..Len(b) /\ Len(Tail(b)) = Len(b) - 1
           /\ \A j \in 1..(Len(b) - 1) : j + 1 \in 1..Len(b) /\ Tail(b)[j] = b[j + 1]
OBVIOUS

LEMMA ShortBatches ==
    ASSUME NEW m, NEW o
    PROVE  /\ Head(<<m>>) = m /\ Tail(<<m>>) = << >>
           /\ Head(<<m, o>>) = m /\ Tail(<<m, o>>) = <<o>>
OBVIOUS

\* The rest of a batch that is another request's is another request's, too.
LEMMA OtherRest ==
    ASSUME NEW b \in Seq(Messages), b # << >>, NEW n, OtherBatch(b, n)
    PROVE  Head(b).seq # n /\ OtherBatch(Tail(b), n)
<1>1. Head(b).seq # n
  BY Batches DEF OtherBatch
<1>2. ASSUME NEW j \in 1..(Len(b) - 1) PROVE Tail(b)[j].seq # n
  BY Batches DEF OtherBatch
<1> QED
  BY <1>1, <1>2, Batches DEF OtherBatch

\* What messages look like.
LEMMA MessageFields ==
    ASSUME NEW r \in Requests, NEW n
    PROVE  /\ ErrorMsg(r).type = "errno" /\ DoneMsg(r).type = "done"
           /\ Other(r, n).type = "other" /\ Data(r, n).type = "data"
           /\ ErrorMsg(r).seq = r.seq /\ DoneMsg(r).seq = r.seq
           /\ Other(r, n).seq = r.seq /\ Data(r, n).seq = r.seq
           /\ r.kind = "one" => ~Data(r, n).multi
           /\ r.kind = "dump" => Data(r, n).multi
BY DEF ErrorMsg, DoneMsg, Other, Data

\* A message that is not the request's is skipped.
LEMMA SkipAwaits ==
    ASSUME NEW r \in Requests, NEW b \in Seq(Messages), b # << >>, NEW rs, NEW q, NEW d,
           Head(b).seq # r.seq, Awaiting(r, b, rs, q, d)
    PROVE  Awaiting(r, Tail(b), rs, q, d)
<1>1. /\ b # <<ErrorMsg(r)>> /\ b # <<Other(r, Len(rs))>> /\ b # <<Data(r, 1)>>
      /\ b # <<Data(r, Len(rs) + 1), Other(r, Len(rs) + 1)>> /\ b # <<DoneMsg(r)>>
  BY MessageFields, ShortBatches
<1>2. OtherBatch(b, r.seq)
  BY <1>1 DEF Awaiting, Unanswered, Answered
<1>3. OtherBatch(Tail(b), r.seq)
  BY <1>2, OtherRest
<1> QED
  BY <1>1, <1>3 DEF Awaiting, Unanswered, Answered

\* So is one of the request's that is of the other type.
LEMMA OtherAwaits ==
    ASSUME NEW r \in Requests, NEW b \in Seq(Messages), b # << >>, NEW rs, NEW q, NEW d,
           Head(b).seq = r.seq, Head(b).type = "other", Awaiting(r, b, rs, q, d)
    PROVE  Awaiting(r, Tail(b), rs, q, d)
<1>1. /\ b # <<ErrorMsg(r)>> /\ b # <<Data(r, 1)>>
      /\ b # <<Data(r, Len(rs) + 1), Other(r, Len(rs) + 1)>> /\ b # <<DoneMsg(r)>>
  BY MessageFields, ShortBatches
<1>2. ~OtherBatch(b, r.seq)
  BY OtherRest
<1>3. b = <<Other(r, Len(rs))>> /\ Answered(r, b, rs, q, d)
  BY <1>1, <1>2 DEF Awaiting, Unanswered, Answered
<1>4. Tail(b) = << >> /\ OtherBatch(<< >>, r.seq)
  BY <1>3, ShortBatches DEF OtherBatch
<1>5. Rest(r, q, d, Len(rs) + 1)
  BY <1>1, <1>2, <1>3 DEF Answered
<1> QED
  BY <1>3, <1>4, <1>5 DEF Awaiting, Answered

\* A part of a dump is collected.
LEMMA CollectAwaits ==
    ASSUME NEW r \in Requests, NEW b \in Seq(Messages), b # << >>, NEW rs \in Seq(Messages),
           NEW q, NEW d, Head(b).seq = r.seq, Head(b).type = "data", Head(b).multi,
           Awaiting(r, b, rs, q, d)
    PROVE  Awaiting(r, Tail(b), Append(rs, Head(b)), q, d)
<1> DEFINE k == Len(rs)
<1>0. k \in Nat /\ Parts \in Nat /\ (r.kind = "dump" => Last(r) = Parts + 1)
  BY LastNumber
<1>1. /\ b # <<ErrorMsg(r)>> /\ b # <<Other(r, k)>> /\ b # <<DoneMsg(r)>>
      /\ ~(b = <<Data(r, 1)>> /\ r.kind = "one")
  BY MessageFields, ShortBatches
<1>2. ~OtherBatch(b, r.seq)
  BY OtherRest
<1>3. /\ b = <<Data(r, k + 1), Other(r, k + 1)>> /\ r.kind = "dump" /\ k < Parts
      /\ Rest(r, q, d, k + 2) /\ Answered(r, b, rs, q, d)
  BY <1>1, <1>2 DEF Awaiting, Unanswered, Answered
<1> DEFINE m == Data(r, k + 1)
           rt == Append(rs, m)
<1>4. Head(b) = m /\ Tail(b) = <<Other(r, k + 1)>> /\ m \in Messages
  <2>1. k + 1 \in 0..Parts
    BY <1>0, <1>3
  <2> QED
    BY <1>3, <2>1, ShortBatches, MessagesTyped
<1> HIDE DEF m
<1>5. Len(rt) = k + 1 /\ (\A i \in 1..k : rt[i] = rs[i]) /\ rt[k + 1] = m
  BY <1>4
<1> HIDE DEF rt
<1>6. ASSUME NEW i \in 1..Len(rt) PROVE rt[i] = Data(r, i)
  <2>1. CASE i \in 1..k
    BY <1>3, <1>5, <2>1 DEF Answered
  <2>2. CASE i = k + 1
    BY <1>5, <2>2 DEF m
  <2> QED
    BY <1>0, <1>5, <2>1, <2>2
<1>7. Len(rt) < Last(r) /\ Len(rt) + 1 = k + 2
  BY <1>0, <1>3, <1>5
<1>8. Tail(b) = <<Other(r, Len(rt))>> /\ Rest(r, q, d, Len(rt) + 1)
  BY <1>3, <1>4, <1>5, <1>7
<1>9. OwnDump(d, r) => d.req = r /\ r.kind = "dump"
  BY <1>3 DEF Answered
<1>10. Answered(r, Tail(b), rt, q, d)
  BY <1>3, <1>6, <1>7, <1>8, <1>9 DEF Answered
<1> QED
  BY <1>4, <1>10 DEF Awaiting, rt

\* The object that was asked for is the whole answer.
LEMMA SingleAnswers ==
    ASSUME NEW r \in Requests, NEW b \in Seq(Messages), b # << >>, NEW rs \in Seq(Messages),
           NEW q, NEW d, Head(b).seq = r.seq, Head(b).type = "data", ~Head(b).multi,
           Awaiting(r, b, rs, q, d)
    PROVE  Append(rs, Head(b)) = Wanted(r)
<1> DEFINE k == Len(rs)
<1>1. /\ b # <<ErrorMsg(r)>> /\ b # <<Other(r, k)>> /\ b # <<DoneMsg(r)>>
      /\ ~(b = <<Data(r, k + 1), Other(r, k + 1)>> /\ r.kind = "dump")
  BY MessageFields, ShortBatches
<1>2. ~OtherBatch(b, r.seq)
  BY OtherRest
<1>3. b = <<Data(r, 1)>> /\ r.kind = "one" /\ Answered(r, b, rs, q, d)
  BY <1>1, <1>2 DEF Awaiting, Unanswered, Answered
<1>4. Len(rs) = 0
  BY <1>3 DEF Answered
<1>5. rs = << >> /\ Head(b) = Data(r, 1)
  BY <1>3, <1>4, ShortBatches
<1>6. Append(<< >>, Data(r, 1)) = <<Data(r, 1)>>
  OBVIOUS
<1> QED
  BY <1>3, <1>5, <1>6 DEF Wanted

\* At the final message all data have been collected.
LEMMA DoneAnswers ==
    ASSUME NEW r \in Requests, NEW b \in Seq(Messages), b # << >>, NEW rs \in Seq(Messages),
           NEW q, NEW d, Head(b).seq = r.seq, Head(b).type = "done", Awaiting(r, b, rs, q, d)
    PROVE  rs = Wanted(r)
<1> DEFINE k == Len(rs)
<1>0. /\ Parts \in Nat /\ r.kind \in {"ack", "one", "dump"} /\ k \in Nat
      /\ r.kind = "dump" => Last(r) = Parts + 1
      /\ r.kind = "ack" => Last(r) = 1
  BY LastNumber
<1>1. /\ b # <<ErrorMsg(r)>> /\ b # <<Other(r, k)>> /\ b # <<Data(r, 1)>>
      /\ b # <<Data(r, k + 1), Other(r, k + 1)>>
  BY MessageFields, ShortBatches
<1>2. ~OtherBatch(b, r.seq)
  BY OtherRest
<1>3. k = Last(r) - 1 /\ r.kind # "one" /\ \A i \in 1..k : rs[i] = Data(r, i)
  BY <1>1, <1>2 DEF Awaiting, Unanswered, Answered
<1>4. CASE r.kind = "ack"
  <2>1. Len(rs) = 0
    BY <1>0, <1>3, <1>4
  <2> QED
    BY <1>4, <2>1 DEF Wanted
<1>5. CASE r.kind = "dump"
  <2> DEFINE f == [n \in 1..Parts |-> Data(r, n)]
  <2>1. Len(rs) = Parts
    BY <1>0, <1>3, <1>5
  <2>2. f = [i \in 1..Parts |-> f[i]] /\ \A i \in 1..Parts : rs[i] = f[i]
    BY <1>3, <2>1
  <2>3. Wanted(r) = f
    BY <1>5 DEF Wanted
  <2> HIDE DEF f
  <2> QED
    BY <1>0, <2>1, <2>2, <2>3, SameMessages
<1> QED
  BY <1>0, <1>3, <1>4, <1>5

\* Another process sends a datagram to the socket.
LEMMA ForeignAwaits ==
    ASSUME NEW r \in Requests, NEW b, NEW rs, NEW q \in Seq(Datagrams), NEW d,
           Awaiting(r, b, rs, q, d)
    PROVE  Awaiting(r, b, rs, Append(q, Foreign), d)
<1>1. Foreign \in Datagrams /\ ~Of(Foreign, r.seq)
  BY WrongKnown
<1>2. OnlyErrors(q, r) => OnlyErrors(Append(q, Foreign), r)
  BY <1>1, ErrorsAppended
<1>3. ASSUME NEW lo, Rest(r, q, d, lo) PROVE Rest(r, Append(q, Foreign), d, lo)
  BY <1>1, <1>3, HoldsAppended DEF Rest
<1> QED
  BY <1>2, <1>3 DEF Awaiting, Unanswered, Answered

-----------------------------------------------------------------------------
(* The invariant.                                                          *)

\* Neither a queue nor a dump has anything of the request with number n.
Quiet(q, d, n) == Silent(q, n) /\ ~(d # None /\ d.req.seq = n)

Typed == TypeOK /\ dump \in [Sockets -> DumpStates]

\* A request that was not sent yet finds nothing that bears its number; one that was
\* sent awaits what is left of its answer; one that succeeded has it all.
RequestInv(t) ==
    /\ pc[t] = "idle" => batch[t] = << >> /\ res[t] = << >> /\ req[t].sock = None
    /\ pc[t] \in {"lock", "send"} =>
         /\ batch[t] = << >> /\ res[t] = << >>
         /\ Quiet(queue[req[t].sock], dump[req[t].sock], req[t].seq)
    /\ pc[t] = "receive" =>
         Awaiting(req[t], batch[t], res[t], queue[req[t].sock], dump[req[t].sock])
    /\ pc[t] = "returned" => batch[t] = << >>
    /\ pc[t] # "returned" => out[t] = "none"
    /\ out[t] = "ok" => res[t] = Wanted(req[t])

\* Whose socket a thread uses, and what its own one has while it does not use it.
SocketInv(t) ==
    /\ pc[t] # "idle" => req[t].sock = Shared \/ req[t].sock = t
    /\ pc[t] = "lock" => req[t].sock = Shared
    /\ req[t].sock = Shared /\ pc[t] \in {"send", "receive"} => lock = t
    /\ ~(req[t].sock = t /\ pc[t] = "receive") => queue[t] = << >> /\ dump[t] = None

\* The numbers of the handle's requests.
NumbersInv ==
    /\ \A n \in Nat : n > sharedSeq => Quiet(queue[Shared], dump[Shared], n)
    /\ \A t \in Threads : req[t].sock = Shared => req[t].seq <= sharedSeq
    /\ \A t, u \in Threads :
         req[t].sock = Shared /\ req[u].sock = Shared /\ req[t].seq = req[u].seq => t = u

Inv ==
    /\ Typed
    /\ \A t \in Threads : RequestInv(t) /\ SocketInv(t)
    /\ NumbersInv

\* The values a thread and its socket have.
LEMMA Values ==
    ASSUME Typed, NEW t \in Threads
    PROVE  /\ req[t] \in Requests /\ batch[t] \in Seq(Messages) /\ res[t] \in Seq(Messages)
           /\ t \in Sockets /\ Shared \in Sockets /\ t # Shared /\ t # None /\ Shared # None
           /\ req[t].seq \in Nat
           /\ \A s \in Sockets : queue[s] \in Seq(Datagrams) /\ dump[s] \in DumpStates
           /\ pc \in [Threads -> {"idle", "lock", "send", "receive", "returned"}]
           /\ req \in [Threads -> Requests] /\ queue \in [Sockets -> Seq(Datagrams)]
           /\ batch \in [Threads -> Seq(Messages)] /\ res \in [Threads -> Seq(Messages)]
           /\ out \in [Threads -> {"none", "ok", "errno", "failed"}]
BY SocketAssumption DEF Typed, TypeOK, Sockets, Datagrams, Requests

\* A dump of the kind that was asked for is a dump.
LEMMA DumpsTyped == DumpStates \subseteq {None} \cup Dumps
BY DEF DumpStates

-----------------------------------------------------------------------------
(* What a step of a thread leaves to the others.                           *)

Acts(t) ==
    \A u \in Threads : u # t =>
      /\ pc'[u] = pc[u] /\ req'[u] = req[u] /\ batch'[u] = batch[u]
      /\ res'[u] = res[u] /\ out'[u] = out[u]

\* It changes only the socket that it uses, and makes nothing heard there of a
\* request that is neither there nor its own.
Confined(t) ==
    /\ pc[t] \in {"send", "receive"}
    /\ \A s \in Sockets : s # req[t].sock => queue'[s] = queue[s] /\ dump'[s] = dump[s]
    /\ \A n : n # req[t].seq /\ Quiet(queue[req[t].sock], dump[req[t].sock], n) =>
                Quiet(queue'[req[t].sock], dump'[req[t].sock], n)
SocketsKept(t) == (queue' = queue /\ dump' = dump) \/ Confined(t)

LockKept(t) ==
    \/ lock' = lock
    \/ lock = None /\ lock' = t
    \/ lock' = None /\ req[t].sock = Shared /\ pc[t] \in {"send", "receive"}

StepKept(t) == Acts(t) /\ SocketsKept(t) /\ LockKept(t)

\* The other threads are not disturbed.
LEMMA OthersKept ==
    ASSUME Inv, NEW t \in Threads, StepKept(t), NEW u \in Threads, u # t
    PROVE  RequestInv(u)' /\ SocketInv(u)'
<1>v. /\ req[u] \in Requests /\ u \in Sockets /\ t \in Sockets /\ Shared \in Sockets
      /\ u # Shared /\ t # Shared /\ u # None /\ Shared # None
  BY Values DEF Inv
<1>a. /\ pc'[u] = pc[u] /\ req'[u] = req[u] /\ batch'[u] = batch[u]
      /\ res'[u] = res[u] /\ out'[u] = out[u]
  BY DEF StepKept, Acts
<1>i. RequestInv(u) /\ SocketInv(u) /\ SocketInv(t)
  BY DEF Inv
<1>p. pc[t] \in {"send", "receive"} => req[t].sock = Shared \/ req[t].sock = t
  BY <1>i DEF SocketInv
<1>1. queue'[u] = queue[u] /\ dump'[u] = dump[u]
  BY <1>p, <1>v DEF StepKept, SocketsKept, Confined
<1>2. ASSUME req[u].sock = Shared, pc[u] \in {"send", "receive"}
      PROVE  /\ queue'[Shared] = queue[Shared] /\ dump'[Shared] = dump[Shared] /\ lock' = u
  <2>1. lock = u
    BY <1>2, <1>i DEF SocketInv
  <2>2. ~(req[t].sock = Shared /\ pc[t] \in {"send", "receive"})
    BY <1>i, <2>1 DEF SocketInv
  <2>3. lock' = u
    BY <1>v, <2>1, <2>2 DEF StepKept, LockKept
  <2>4. pc[t] \in {"send", "receive"} => req[t].sock = t
    BY <1>p, <2>2
  <2> QED
    BY <1>v, <2>3, <2>4 DEF StepKept, SocketsKept, Confined
<1>3. SocketInv(u)'
  BY <1>1, <1>2, <1>a, <1>i DEF SocketInv
<1>4. ASSUME pc[u] \in {"send", "receive"}
      PROVE  queue'[req[u].sock] = queue[req[u].sock] /\ dump'[req[u].sock] = dump[req[u].sock]
  <2>1. req[u].sock = Shared \/ req[u].sock = u
    BY <1>4, <1>i DEF SocketInv
  <2> QED
    BY <1>1, <1>2, <1>4, <2>1
<1>5. ASSUME pc[u] = "lock"
      PROVE  Quiet(queue'[req[u].sock], dump'[req[u].sock], req[u].seq)
  <2>1. req[u].sock = Shared /\ Quiet(queue[Shared], dump[Shared], req[u].seq)
    BY <1>5, <1>i DEF SocketInv, RequestInv
  <2>2. CASE queue' = queue /\ dump' = dump
    BY <2>1, <2>2
  <2>3. CASE Confined(t)
    <3>1. CASE req[t].sock = Shared
      <4>1. req[u].seq # req[t].seq
        BY <2>1, <3>1 DEF Inv, NumbersInv
      <4> QED
        BY <2>1, <2>3, <3>1, <4>1 DEF Confined
    <3>2. CASE req[t].sock # Shared
      BY <1>v, <2>1, <2>3, <3>2 DEF Confined
    <3> QED
      BY <3>1, <3>2
  <2> QED
    BY <2>2, <2>3 DEF StepKept, SocketsKept
<1>6. RequestInv(u)'
  BY <1>4, <1>5, <1>a, <1>i DEF RequestInv
<1> QED
  BY <1>3, <1>6

\* Nor are the numbers of the handle's requests.
LEMMA NumbersKept ==
    ASSUME Inv, NEW t \in Threads, StepKept(t), sharedSeq' = sharedSeq,
           req'[t] = req[t] \/ req'[t] = NoRequest
    PROVE  NumbersInv'
<1>v. /\ t \in Sockets /\ Shared \in Sockets /\ t # Shared /\ Shared # None /\ sharedSeq \in Nat
      /\ \A u \in Threads : req[u].seq \in Nat
  <2>1. sharedSeq \in Nat
    BY SocketAssumption DEF Inv, Typed, TypeOK
  <2> QED
    BY <2>1, Values DEF Inv
<1>n. NumbersInv
  BY DEF Inv
<1>1. ASSUME NEW n \in Nat, n > sharedSeq
      PROVE  Quiet(queue'[Shared], dump'[Shared], n)
  <2>1. Quiet(queue[Shared], dump[Shared], n)
    BY <1>1, <1>n DEF NumbersInv
  <2>2. CASE Confined(t) /\ req[t].sock = Shared
    <3>1. req[t].seq <= sharedSeq
      BY <1>n, <2>2 DEF NumbersInv
    <3>2. n # req[t].seq
      BY <1>v, <1>1, <3>1
    <3> QED
      BY <2>1, <2>2, <3>2 DEF Confined
  <2>3. CASE Confined(t) /\ req[t].sock # Shared
    BY <1>v, <2>1, <2>3 DEF Confined
  <2> QED
    BY <2>1, <2>2, <2>3 DEF StepKept, SocketsKept
<1>2. \A u \in Threads : req'[u].sock = Shared => req'[u] = req[u]
  BY <1>v DEF StepKept, Acts, NoRequest
<1>3. \A u \in Threads : req'[u].sock = Shared => req'[u].seq <= sharedSeq'
  BY <1>2, <1>n DEF NumbersInv
<1>4. \A u, w \in Threads :
         req'[u].sock = Shared /\ req'[w].sock = Shared /\ req'[u].seq = req'[w].seq => u = w
  BY <1>2, <1>n DEF NumbersInv
<1> QED
  BY <1>1, <1>3, <1>4 DEF NumbersInv

-----------------------------------------------------------------------------
(* The steps of a thread.                                                  *)

Kept(t) ==
    /\ Typed' /\ StepKept(t) /\ RequestInv(t)' /\ SocketInv(t)'
    /\ sharedSeq' = sharedSeq /\ (req'[t] = req[t] \/ req'[t] = NoRequest)

\* The call returns.
LEMMA ReturnKnown ==
    ASSUME Inv, NEW t \in Threads, pc[t] \in {"send", "receive"},
           NEW result \in {"ok", "errno", "failed"}, Return(t, result)
    PROVE  /\ pc' \in [Threads -> {"idle", "lock", "send", "receive", "returned"}]
           /\ out' \in [Threads -> {"none", "ok", "errno", "failed"}]
           /\ batch' \in [Threads -> Seq(Messages)] /\ lock' \in Threads \cup {None}
           /\ req' = req /\ sharedSeq' = sharedSeq /\ nextSeqNr' = nextSeqNr
           /\ pc'[t] = "returned" /\ out'[t] = result /\ batch'[t] = << >> /\ LockKept(t)
           /\ \A u \in Threads : u # t => /\ pc'[u] = pc[u] /\ batch'[u] = batch[u]
                                          /\ out'[u] = out[u]
<1>1. /\ pc' = [pc EXCEPT ![t] = "returned"] /\ out' = [out EXCEPT ![t] = result]
      /\ batch' = [batch EXCEPT ![t] = << >>]
      /\ req' = req /\ sharedSeq' = sharedSeq /\ nextSeqNr' = nextSeqNr
      /\ lock' = IF req[t].sock = Shared THEN None ELSE lock
  BY DEF Return
<1>2. /\ pc \in [Threads -> {"idle", "lock", "send", "receive", "returned"}]
      /\ out \in [Threads -> {"none", "ok", "errno", "failed"}]
      /\ batch \in [Threads -> Seq(Messages)] /\ lock \in Threads \cup {None}
  BY DEF Inv, Typed, TypeOK
<1>3. /\ pc' \in [Threads -> {"idle", "lock", "send", "receive", "returned"}]
      /\ pc'[t] = "returned" /\ \A u \in Threads : u # t => pc'[u] = pc[u]
  BY <1>1, <1>2
<1>4. /\ out' \in [Threads -> {"none", "ok", "errno", "failed"}]
      /\ out'[t] = result /\ \A u \in Threads : u # t => out'[u] = out[u]
  BY <1>1, <1>2
<1>5. /\ batch' \in [Threads -> Seq(Messages)]
      /\ batch'[t] = << >> /\ \A u \in Threads : u # t => batch'[u] = batch[u]
  <2>1. << >> \in Seq(Messages)
    OBVIOUS
  <2> QED
    BY <1>1, <1>2, <2>1
<1>6. lock' \in Threads \cup {None} /\ LockKept(t)
  BY <1>1, <1>2 DEF LockKept
<1> QED
  BY <1>1, <1>3, <1>4, <1>5, <1>6

\* A socket of the thread's own is closed with all that is in it, and what a handle's
\* holds stays there, or one datagram is taken.
LEMMA CloseKnown ==
    ASSUME Inv, NEW t \in Threads, pc[t] = "receive", NEW q,
           q = queue \/ (queue[req[t].sock] # << >>
                           /\ q = [queue EXCEPT ![req[t].sock] = Tail(@)]),
           queue' = Closed(t, q, << >>), dump' = Closed(t, dump, None)
    PROVE  /\ queue' \in [Sockets -> Seq(Datagrams)] /\ dump' \in [Sockets -> DumpStates]
           /\ Confined(t) /\ queue'[t] = << >> /\ dump'[t] = None
<1>v. /\ req[t].sock = Shared \/ req[t].sock = t
      /\ t \in Sockets /\ Shared \in Sockets /\ t # Shared
      /\ queue \in [Sockets -> Seq(Datagrams)] /\ dump \in [Sockets -> DumpStates]
  BY Values DEF Inv, SocketInv, Typed
<1> DEFINE s == req[t].sock
<1>1. /\ q \in [Sockets -> Seq(Datagrams)]
      /\ \A x \in Sockets : x # s => q[x] = queue[x]
      /\ \A n : Silent(queue[s], n) => Silent(q[s], n)
  <2>1. CASE q = queue
    BY <1>v, <2>1
  <2>2. CASE queue[s] # << >> /\ q = [queue EXCEPT ![s] = Tail(@)]
    <3>0. queue[s] \in Seq(Datagrams)
      BY <1>v
    <3>1. Tail(queue[s]) \in Seq(Datagrams)
      BY <2>2, <3>0, Taken
    <3>2. \A n : Silent(queue[s], n) => Silent(Tail(queue[s]), n)
      BY <2>2, <3>0, SilentTaken
    <3>3. q \in [Sockets -> Seq(Datagrams)] /\ q[s] = Tail(queue[s])
          /\ \A x \in Sockets : x # s => q[x] = queue[x]
      BY <1>v, <2>2, <3>1
    <3> QED
      BY <3>2, <3>3
  <2> QED
    BY <2>1, <2>2
<1>2. CASE s = Shared
  <2>1. queue' = q /\ dump' = dump
    BY <1>2 DEF Closed
  <2>2. queue[t] = << >> /\ dump[t] = None
    BY <1>2, <1>v DEF Inv, SocketInv
  <2> QED
    BY <1>1, <1>2, <1>v, <2>1, <2>2 DEF Confined, Quiet
<1>3. CASE s = t
  <2>1. queue' = [q EXCEPT ![t] = << >>] /\ dump' = [dump EXCEPT ![t] = None]
    BY <1>3, <1>v DEF Closed
  <2>2. << >> \in Seq(Datagrams) /\ None \in DumpStates
    BY DEF DumpStates
  <2>3. queue' \in [Sockets -> Seq(Datagrams)] /\ dump' \in [Sockets -> DumpStates]
    BY <1>1, <1>v, <2>1, <2>2
  <2>4. /\ queue'[t] = << >> /\ dump'[t] = None
        /\ \A x \in Sockets : x # s => queue'[x] = queue[x] /\ dump'[x] = dump[x]
    BY <1>1, <1>3, <1>v, <2>1
  <2>5. \A n : Quiet(<< >>, None, n)
    BY DEF Quiet, Silent
  <2> QED
    BY <1>3, <2>3, <2>4, <2>5 DEF Confined
<1> QED
  BY <1>2, <1>3, <1>v

\* The sequences of numbers are typed.
LEMMA Counted ==
    ASSUME Typed, sharedSeq' = sharedSeq, nextSeqNr' = nextSeqNr,
           pc' \in [Threads -> {"idle", "lock", "send", "receive", "returned"}],
           req' \in [Threads -> Requests], lock' \in Threads \cup {None},
           queue' \in [Sockets -> Seq(Datagrams)], dump' \in [Sockets -> DumpStates],
           batch' \in [Threads -> Seq(Messages)], res' \in [Threads -> Seq(Messages)],
           out' \in [Threads -> {"none", "ok", "errno", "failed"}]
    PROVE  Typed'
<1>1. dump' \in [Sockets -> {None} \cup Dumps]
  BY DumpsTyped
<1> QED
  BY <1>1 DEF Typed, TypeOK, Datagrams

\* A call that returns with its socket closed, if that is its own.
LEMMA LeaveKept ==
    ASSUME Inv, NEW t \in Threads, pc[t] = "receive",
           NEW result \in {"ok", "errno", "failed"}, Return(t, result), NEW q,
           q = queue \/ (queue[req[t].sock] # << >>
                           /\ q = [queue EXCEPT ![req[t].sock] = Tail(@)]),
           queue' = Closed(t, q, << >>), dump' = Closed(t, dump, None),
           res' \in [Threads -> Seq(Messages)], \A u \in Threads : u # t => res'[u] = res[u],
           result = "ok" => res'[t] = Wanted(req[t])
    PROVE  Kept(t)
<1>1. /\ pc' \in [Threads -> {"idle", "lock", "send", "receive", "returned"}]
      /\ out' \in [Threads -> {"none", "ok", "errno", "failed"}]
      /\ batch' \in [Threads -> Seq(Messages)] /\ lock' \in Threads \cup {None}
      /\ req' = req /\ sharedSeq' = sharedSeq /\ nextSeqNr' = nextSeqNr
      /\ pc'[t] = "returned" /\ out'[t] = result /\ batch'[t] = << >> /\ LockKept(t)
      /\ \A u \in Threads : u # t => /\ pc'[u] = pc[u] /\ batch'[u] = batch[u]
                                     /\ out'[u] = out[u]
  BY ReturnKnown
<1>2. /\ queue' \in [Sockets -> Seq(Datagrams)] /\ dump' \in [Sockets -> DumpStates]
      /\ Confined(t) /\ queue'[t] = << >> /\ dump'[t] = None
  BY CloseKnown
<1>3. Typed'
  <2>1. Typed /\ req' \in [Threads -> Requests]
    BY <1>1, Values DEF Inv
  <2> QED
    BY <1>1, <1>2, <2>1, Counted
<1>4. StepKept(t)
  BY <1>1, <1>2 DEF StepKept, Acts, SocketsKept
<1>5. RequestInv(t)'
  BY <1>1 DEF RequestInv
<1>6. SocketInv(t)'
  <2>1. SocketInv(t)
    BY DEF Inv
  <2> QED
    BY <1>1, <1>2, <2>1 DEF SocketInv
<1> QED
  BY <1>1, <1>3, <1>4, <1>5, <1>6 DEF Kept

\* A request is sent: something is put into the queue of the socket that it uses.
LEMMA SentKept ==
    ASSUME Inv, NEW t \in Threads, NEW ds, Sent(t, ds), NEW q, q = queue[req[t].sock] \o ds,
           q \in Seq(Datagrams), dump' \in [Sockets -> DumpStates],
           \A x \in Sockets : x # req[t].sock => dump'[x] = dump[x],
           Awaiting(req[t], << >>, << >>, q, dump'[req[t].sock]),
           \A n : n # req[t].seq /\ Quiet(queue[req[t].sock], dump[req[t].sock], n) =>
                    Quiet(q, dump'[req[t].sock], n)
    PROVE  Kept(t)
<1> DEFINE s == req[t].sock
<1>1. /\ pc[t] = "send" /\ pc' = [pc EXCEPT ![t] = "receive"]
      /\ queue' = [queue EXCEPT ![s] = q]
      /\ req' = req /\ lock' = lock /\ sharedSeq' = sharedSeq /\ nextSeqNr' = nextSeqNr
      /\ batch' = batch /\ res' = res /\ out' = out
  BY DEF Sent
<1>i. RequestInv(t) /\ SocketInv(t)
  BY DEF Inv
<1>v. /\ s = Shared \/ s = t
      /\ t \in Sockets /\ Shared \in Sockets /\ t # Shared
      /\ pc \in [Threads -> {"idle", "lock", "send", "receive", "returned"}]
      /\ req \in [Threads -> Requests] /\ queue \in [Sockets -> Seq(Datagrams)]
      /\ batch \in [Threads -> Seq(Messages)] /\ res \in [Threads -> Seq(Messages)]
      /\ out \in [Threads -> {"none", "ok", "errno", "failed"}]
      /\ lock \in Threads \cup {None} /\ Typed
  BY <1>1, <1>i, Values DEF Inv, SocketInv, Typed, TypeOK
<1>2. /\ queue' \in [Sockets -> Seq(Datagrams)] /\ queue'[s] = q
      /\ \A x \in Sockets : x # s => queue'[x] = queue[x]
  BY <1>1, <1>v
<1>3. /\ pc' \in [Threads -> {"idle", "lock", "send", "receive", "returned"}]
      /\ pc'[t] = "receive" /\ \A u \in Threads : u # t => pc'[u] = pc[u]
  BY <1>1, <1>v
<1>4. Typed'
  BY <1>1, <1>2, <1>3, <1>v, Counted
<1>5. Confined(t)
  BY <1>1, <1>2 DEF Confined
<1>6. StepKept(t)
  BY <1>1, <1>3, <1>5 DEF StepKept, Acts, SocketsKept, LockKept
<1>7. RequestInv(t)'
  BY <1>1, <1>2, <1>3, <1>i DEF RequestInv
<1>8. SocketInv(t)'
  BY <1>1, <1>2, <1>3, <1>i, <1>v DEF SocketInv
<1> QED
  BY <1>1, <1>4, <1>6, <1>7, <1>8 DEF Kept

\* What a request that is being sent finds.
LEMMA SendFinds ==
    ASSUME Inv, NEW t \in Threads, pc[t] = "send"
    PROVE  /\ req[t] \in Requests /\ req[t].sock \in Sockets
           /\ queue[req[t].sock] \in Seq(Datagrams) /\ dump[req[t].sock] \in DumpStates
           /\ Silent(queue[req[t].sock], req[t].seq)
           /\ ~OwnDump(dump[req[t].sock], req[t])
           /\ dump \in [Sockets -> DumpStates]
<1>1. RequestInv(t) /\ SocketInv(t) /\ Typed
  BY DEF Inv
<1>2. req[t].sock \in Sockets
  BY <1>1, Values DEF SocketInv
<1>3. Quiet(queue[req[t].sock], dump[req[t].sock], req[t].seq)
  BY <1>1 DEF RequestInv
<1> QED
  BY <1>1, <1>2, <1>3, Values DEF Quiet, OwnDump, Typed

LEMMA SendKept ==
    ASSUME Inv, NEW t \in Threads, Send(t)
    PROVE  Kept(t)
<1> DEFINE r == req[t]
           s == r.sock
           q == queue[s] \o Answer(r)
           e == IF r.kind = "dump" THEN [req |-> r, next |-> 2] ELSE dump[s]
<1>1. /\ pc[t] = "send" /\ (r.kind = "dump" => dump[s] = None) /\ Sent(t, Answer(r))
      /\ dump' = IF r.kind = "dump" THEN [dump EXCEPT ![s] = [req |-> r, next |-> 2]] ELSE dump
  BY DEF Send, Sent
<1>f. /\ r \in Requests /\ s \in Sockets /\ queue[s] \in Seq(Datagrams) /\ dump[s] \in DumpStates
      /\ Silent(queue[s], r.seq) /\ ~OwnDump(dump[s], r) /\ dump \in [Sockets -> DumpStates]
  BY <1>1, SendFinds
<1>2. /\ q \in Seq(Datagrams) /\ e \in DumpStates /\ Answered(r, << >>, << >>, q, e)
      /\ \A n : n # r.seq /\ Silent(queue[s], n) => Silent(q, n)
  BY <1>1, <1>f, SendAwaits
<1>3. /\ dump' \in [Sockets -> DumpStates] /\ dump'[s] = e
      /\ \A x \in Sockets : x # s => dump'[x] = dump[x]
  BY <1>1, <1>2, <1>f
<1>4. ASSUME NEW n, n # r.seq, Quiet(queue[s], dump[s], n) PROVE Quiet(q, e, n)
  <2>1. ~(e # None /\ e.req.seq = n)
    BY <1>4 DEF Quiet
  <2> QED
    BY <1>2, <1>4, <2>1 DEF Quiet
<1>5. Awaiting(r, << >>, << >>, q, e)
  BY <1>2 DEF Awaiting
<1> HIDE DEF e
<1> QED
  BY <1>1, <1>2, <1>3, <1>4, <1>5, SentKept

\* A refusal, or an answer that overran the receive buffer.
LEMMA RefusalKept ==
    ASSUME Inv, NEW t \in Threads, NEW g, g \in {ErrorDatagram(req[t]), Overrun},
           Sent(t, <<g>>), dump' = dump
    PROVE  Kept(t)
<1> DEFINE r == req[t]
           s == r.sock
           q == queue[s] \o <<g>>
<1>1. pc[t] = "send"
  BY DEF Sent
<1>f. /\ r \in Requests /\ s \in Sockets /\ queue[s] \in Seq(Datagrams) /\ dump[s] \in DumpStates
      /\ Silent(queue[s], r.seq) /\ ~OwnDump(dump[s], r) /\ dump \in [Sockets -> DumpStates]
  BY <1>1, SendFinds
<1>2. /\ q \in Seq(Datagrams) /\ Unanswered(r, << >>, << >>, q, dump[s])
      /\ \A n : n # r.seq /\ Silent(queue[s], n) => Silent(q, n)
  BY <1>f, RefusalAwaits
<1>3. \A n : n # r.seq /\ Quiet(queue[s], dump[s], n) => Quiet(q, dump'[s], n)
  BY <1>2 DEF Quiet
<1>4. Awaiting(r, << >>, << >>, q, dump'[s])
  BY <1>2 DEF Awaiting
<1> QED
  BY <1>2, <1>3, <1>4, <1>f, SentKept

LEMMA LockStepKept ==
    ASSUME Inv, NEW t \in Threads, Lock(t)
    PROVE  Kept(t)
<1>1. /\ pc[t] = "lock" /\ lock = None /\ lock' = t /\ pc' = [pc EXCEPT ![t] = "send"]
      /\ req' = req /\ sharedSeq' = sharedSeq /\ nextSeqNr' = nextSeqNr
      /\ batch' = batch /\ res' = res /\ out' = out /\ queue' = queue /\ dump' = dump
  BY DEF Lock, sockVars
<1>i. RequestInv(t) /\ SocketInv(t) /\ Typed
  BY DEF Inv
<1>v. /\ pc \in [Threads -> {"idle", "lock", "send", "receive", "returned"}]
      /\ req \in [Threads -> Requests] /\ queue \in [Sockets -> Seq(Datagrams)]
      /\ batch \in [Threads -> Seq(Messages)] /\ res \in [Threads -> Seq(Messages)]
      /\ out \in [Threads -> {"none", "ok", "errno", "failed"}]
      /\ dump \in [Sockets -> DumpStates]
  BY <1>i, Values DEF Typed
<1>3. /\ pc' \in [Threads -> {"idle", "lock", "send", "receive", "returned"}]
      /\ pc'[t] = "send" /\ \A u \in Threads : u # t => pc'[u] = pc[u]
  BY <1>1, <1>v
<1>4. Typed'
  BY <1>1, <1>3, <1>i, <1>v, Counted
<1>5. StepKept(t)
  BY <1>1, <1>3 DEF StepKept, Acts, SocketsKept, LockKept
<1>6. RequestInv(t)'
  BY <1>1, <1>3, <1>i DEF RequestInv
<1>7. SocketInv(t)'
  BY <1>1, <1>3, <1>i DEF SocketInv
<1> QED
  BY <1>1, <1>4, <1>5, <1>6, <1>7 DEF Kept

LEMMA SendFailsKept ==
    ASSUME Inv, NEW t \in Threads, SendFails(t)
    PROVE  Kept(t)
<1>0. /\ pc[t] = "send" /\ Return(t, "failed") /\ res' = res /\ queue' = queue /\ dump' = dump
  BY DEF SendFails, sockVars
<1>i. RequestInv(t) /\ SocketInv(t) /\ Typed
  BY DEF Inv
<1>1. /\ pc' \in [Threads -> {"idle", "lock", "send", "receive", "returned"}]
      /\ out' \in [Threads -> {"none", "ok", "errno", "failed"}]
      /\ batch' \in [Threads -> Seq(Messages)] /\ lock' \in Threads \cup {None}
      /\ req' = req /\ sharedSeq' = sharedSeq /\ nextSeqNr' = nextSeqNr
      /\ pc'[t] = "returned" /\ out'[t] = "failed" /\ batch'[t] = << >> /\ LockKept(t)
      /\ \A u \in Threads : u # t => /\ pc'[u] = pc[u] /\ batch'[u] = batch[u]
                                     /\ out'[u] = out[u]
  BY <1>0, ReturnKnown
<1>v. /\ req \in [Threads -> Requests] /\ queue \in [Sockets -> Seq(Datagrams)]
      /\ res \in [Threads -> Seq(Messages)] /\ dump \in [Sockets -> DumpStates]
  BY <1>i, Values DEF Typed
<1>4. Typed'
  BY <1>0, <1>1, <1>i, <1>v, Counted
<1>5. StepKept(t)
  BY <1>0, <1>1 DEF StepKept, Acts, SocketsKept
<1>6. RequestInv(t)'
  BY <1>1 DEF RequestInv
<1>7. SocketInv(t)'
  BY <1>0, <1>1, <1>i DEF SocketInv
<1> QED
  BY <1>1, <1>4, <1>5, <1>6, <1>7 DEF Kept

\* A datagram is taken, and the kernel goes on with a dump.
LEMMA ReceiveKept ==
    ASSUME Inv, NEW t \in Threads, Receive(t)
    PROVE  Kept(t)
<1> DEFINE s == req[t].sock
           q == NextQueue(queue[s], dump[s])
           e == NextDump(dump[s])
<1>0. /\ pc[t] = "receive" /\ batch[t] = << >> /\ queue[s] # << >>
      /\ batch' = [batch EXCEPT ![t] = Head(queue[s]).msgs]
      /\ pc' = pc /\ req' = req /\ lock' = lock /\ sharedSeq' = sharedSeq
      /\ nextSeqNr' = nextSeqNr /\ res' = res /\ out' = out
  BY DEF Receive
<1>i. RequestInv(t) /\ SocketInv(t) /\ Typed
  BY DEF Inv
<1>v. /\ s = Shared \/ s = t
      /\ t \in Sockets /\ Shared \in Sockets /\ t # Shared /\ s \in Sockets
      /\ pc \in [Threads -> {"idle", "lock", "send", "receive", "returned"}]
      /\ req \in [Threads -> Requests] /\ queue \in [Sockets -> Seq(Datagrams)]
      /\ batch \in [Threads -> Seq(Messages)] /\ res \in [Threads -> Seq(Messages)]
      /\ out \in [Threads -> {"none", "ok", "errno", "failed"}]
      /\ dump \in [Sockets -> DumpStates] /\ lock \in Threads \cup {None}
      /\ queue[s] \in Seq(Datagrams) /\ dump[s] \in DumpStates
      /\ req[t] \in Requests /\ res[t] \in Seq(Messages)
  <2>1. s = Shared \/ s = t
    BY <1>0, <1>i DEF SocketInv
  <2> QED
    BY <1>i, <2>1, Values DEF Typed, TypeOK
<1>1. queue' = [queue EXCEPT ![s] = q] /\ dump' = [dump EXCEPT ![s] = e]
  <2>1. CASE dump[s] = None
    <3>1. queue' = [queue EXCEPT ![s] = Tail(queue[s])] /\ dump' = dump
      BY <2>1 DEF Receive
    <3>2. dump = [dump EXCEPT ![s] = None]
      BY <1>v, <2>1
    <3> QED
      BY <2>1, <3>1, <3>2 DEF NextQueue, NextDump
  <2>2. CASE dump[s] # None
    BY <2>2 DEF Receive, NextQueue, NextDump
  <2> QED
    BY <2>1, <2>2
<1>2. /\ q \in Seq(Datagrams) /\ e \in DumpStates
      /\ \A n : Quiet(queue[s], dump[s], n) => Quiet(q, e, n)
  BY <1>0, <1>v, TakenKept DEF Quiet
<1>3. Awaiting(req[t], Head(queue[s]).msgs, res[t], q, e)
  <2>1. Awaiting(req[t], << >>, res[t], queue[s], dump[s])
    BY <1>0, <1>i DEF RequestInv
  <2> QED
    BY <1>0, <1>v, <2>1, ReceiveAwaits
<1> HIDE DEF q, e
<1>4. /\ queue' \in [Sockets -> Seq(Datagrams)] /\ queue'[s] = q
      /\ \A x \in Sockets : x # s => queue'[x] = queue[x]
  BY <1>1, <1>2, <1>v
<1>5. /\ dump' \in [Sockets -> DumpStates] /\ dump'[s] = e
      /\ \A x \in Sockets : x # s => dump'[x] = dump[x]
  BY <1>1, <1>2, <1>v
<1>6. /\ batch' \in [Threads -> Seq(Messages)] /\ batch'[t] = Head(queue[s]).msgs
      /\ \A u \in Threads : u # t => batch'[u] = batch[u]
  <2>1. Head(queue[s]) \in Datagrams
    BY <1>0, <1>v, Taken
  <2>2. Head(queue[s]).msgs \in Seq(Messages)
    BY <2>1 DEF Datagrams
  <2> QED
    BY <1>0, <1>v, <2>2
<1>7. Typed'
  BY <1>0, <1>4, <1>5, <1>6, <1>i, <1>v, Counted
<1>8. Confined(t)
  BY <1>0, <1>2, <1>4, <1>5 DEF Confined
<1>9. StepKept(t)
  BY <1>0, <1>6, <1>8 DEF StepKept, Acts, SocketsKept, LockKept
<1>10. RequestInv(t)'
  BY <1>0, <1>3, <1>4, <1>5, <1>6, <1>i DEF RequestInv
<1>11. SocketInv(t)'
  BY <1>0, <1>4, <1>5, <1>i, <1>v DEF SocketInv
<1> QED
  BY <1>0, <1>7, <1>9, <1>10, <1>11 DEF Kept

\* What cannot be used is taken and ends the call; so does a receive that fails.
LEMMA WrongKept ==
    ASSUME Inv, NEW t \in Threads, ReceiveWrong(t) \/ ReceiveFails(t)
    PROVE  Kept(t)
<1>v. res \in [Threads -> Seq(Messages)]
  BY Values DEF Inv
<1>1. CASE ReceiveWrong(t)
  <2>1. /\ pc[t] = "receive" /\ Return(t, "failed") /\ queue[req[t].sock] # << >>
        /\ queue' = Closed(t, [queue EXCEPT ![req[t].sock] = Tail(@)], << >>)
        /\ dump' = Closed(t, dump, None) /\ res' = res
    BY <1>1 DEF ReceiveWrong
  <2> DEFINE q == [queue EXCEPT ![req[t].sock] = Tail(@)]
  <2>2. q = [queue EXCEPT ![req[t].sock] = Tail(@)] /\ queue' = Closed(t, q, << >>)
    BY <2>1
  <2> HIDE DEF q
  <2> QED
    BY <1>v, <2>1, <2>2, LeaveKept
<1>2. CASE ReceiveFails(t)
  <2>1. /\ pc[t] = "receive" /\ Return(t, "failed")
        /\ queue' = Closed(t, queue, << >>) /\ dump' = Closed(t, dump, None) /\ res' = res
    BY <1>2 DEF ReceiveFails
  <2> QED
    BY <1>v, <2>1, LeaveKept
<1> QED
  BY <1>1, <1>2

-----------------------------------------------------------------------------
(* The messages of a datagram.                                             *)

\* A thread looks at messages only while it awaits its answer.
LEMMA LookingAt ==
    ASSUME Inv, NEW t \in Threads, batch[t] # << >>
    PROVE  /\ pc[t] = "receive"
           /\ Awaiting(req[t], batch[t], res[t], queue[req[t].sock], dump[req[t].sock])
           /\ req[t] \in Requests /\ batch[t] \in Seq(Messages) /\ res[t] \in Seq(Messages)
           /\ Head(batch[t]) \in Messages /\ Tail(batch[t]) \in Seq(Messages)
           /\ batch \in [Threads -> Seq(Messages)] /\ res \in [Threads -> Seq(Messages)]
<1>1. RequestInv(t) /\ Typed
  BY DEF Inv
<1>2. pc[t] \in {"idle", "lock", "send", "receive", "returned"}
  BY <1>1, Values
<1>3. pc[t] = "receive"
  BY <1>1, <1>2 DEF RequestInv
<1>4. batch[t] \in Seq(Messages)
  BY <1>1, Values
<1> QED
  BY <1>1, <1>3, <1>4, Values, Batches DEF RequestInv

\* A message is looked at, and the call goes on.
LEMMA GoesOnKept ==
    ASSUME Inv, NEW t \in Threads, batch[t] # << >>, NEW rs \in Seq(Messages),
           batch' = [batch EXCEPT ![t] = Tail(@)], res' = [res EXCEPT ![t] = rs],
           UNCHANGED <<pc, req, lock, sharedSeq, nextSeqNr, out, queue, dump>>,
           Awaiting(req[t], Tail(batch[t]), rs, queue[req[t].sock], dump[req[t].sock])
    PROVE  Kept(t)
<1>l. /\ pc[t] = "receive" /\ Tail(batch[t]) \in Seq(Messages)
      /\ batch \in [Threads -> Seq(Messages)] /\ res \in [Threads -> Seq(Messages)]
  BY LookingAt
<1>i. RequestInv(t) /\ SocketInv(t) /\ Typed
  BY DEF Inv
<1>v. /\ pc \in [Threads -> {"idle", "lock", "send", "receive", "returned"}]
      /\ req \in [Threads -> Requests] /\ queue \in [Sockets -> Seq(Datagrams)]
      /\ out \in [Threads -> {"none", "ok", "errno", "failed"}]
      /\ dump \in [Sockets -> DumpStates] /\ lock \in Threads \cup {None}
  BY <1>i, Values DEF Typed, TypeOK
<1>1. /\ batch' \in [Threads -> Seq(Messages)] /\ batch'[t] = Tail(batch[t])
      /\ \A u \in Threads : u # t => batch'[u] = batch[u]
  BY <1>l
<1>2. /\ res' \in [Threads -> Seq(Messages)] /\ res'[t] = rs
      /\ \A u \in Threads : u # t => res'[u] = res[u]
  BY <1>l
<1>3. Typed'
  BY <1>1, <1>2, <1>i, <1>v, Counted
<1>4. StepKept(t)
  BY <1>1, <1>2 DEF StepKept, Acts, SocketsKept, LockKept
<1>5. RequestInv(t)'
  BY <1>1, <1>2, <1>i, <1>l DEF RequestInv
<1>6. SocketInv(t)'
  BY <1>i DEF SocketInv
<1> QED
  BY <1>3, <1>4, <1>5, <1>6 DEF Kept

LEMMA SkipKept ==
    ASSUME Inv, NEW t \in Threads, SkipSeq(t) \/ SkipType(t)
    PROVE  Kept(t)
<1>1. /\ batch[t] # << >> /\ batch' = [batch EXCEPT ![t] = Tail(@)]
      /\ UNCHANGED <<pc, req, lock, sharedSeq, nextSeqNr, out, queue, dump>> /\ res' = res
  BY DEF SkipSeq, SkipType, sockVars
<1>2. /\ Awaiting(req[t], batch[t], res[t], queue[req[t].sock], dump[req[t].sock])
      /\ req[t] \in Requests /\ batch[t] \in Seq(Messages) /\ res[t] \in Seq(Messages)
      /\ res \in [Threads -> Seq(Messages)]
  BY <1>1, LookingAt
<1>3. \/ Head(batch[t]).seq # req[t].seq
      \/ Head(batch[t]).seq = req[t].seq /\ Head(batch[t]).type = "other"
  BY DEF SkipSeq, SkipType, Mine
<1>4. Awaiting(req[t], Tail(batch[t]), res[t], queue[req[t].sock], dump[req[t].sock])
  BY <1>1, <1>2, <1>3, SkipAwaits, OtherAwaits
<1>5. res' = [res EXCEPT ![t] = res[t]]
  BY <1>1, <1>2
<1> QED
  BY <1>1, <1>2, <1>4, <1>5, GoesOnKept

\* The final message ends the call, and at the acknowledgement everything is there.
LEMMA FinalKept ==
    ASSUME Inv, NEW t \in Threads, DoneOrError(t)
    PROVE  Kept(t)
<1> DEFINE m == Head(batch[t])
           result == IF m.type = "done" THEN "ok" ELSE "errno"
<1>1. /\ batch[t] # << >> /\ m.seq = req[t].seq /\ Return(t, result)
      /\ queue' = Closed(t, queue, << >>) /\ dump' = Closed(t, dump, None) /\ res' = res
  BY DEF DoneOrError, Leave, Mine
<1>2. /\ pc[t] = "receive"
      /\ Awaiting(req[t], batch[t], res[t], queue[req[t].sock], dump[req[t].sock])
      /\ req[t] \in Requests /\ batch[t] \in Seq(Messages) /\ res[t] \in Seq(Messages)
      /\ res \in [Threads -> Seq(Messages)]
  BY <1>1, LookingAt
<1>3. result = "ok" => res'[t] = Wanted(req[t])
  BY <1>1, <1>2, DoneAnswers
<1>4. result \in {"ok", "errno", "failed"}
  OBVIOUS
<1> HIDE DEF result
<1> QED
  BY <1>1, <1>2, <1>3, <1>4, LeaveKept

\* Data: one part of several, or the whole answer.
LEMMA CollectKept ==
    ASSUME Inv, NEW t \in Threads, Collect(t)
    PROVE  Kept(t)
<1> DEFINE m == Head(batch[t])
           rs == Append(res[t], m)
<1>1. /\ batch[t] # << >> /\ m.seq = req[t].seq /\ m.type = "data"
      /\ res' = [res EXCEPT ![t] = rs]
  BY DEF Collect, Mine
<1>2. /\ pc[t] = "receive"
      /\ Awaiting(req[t], batch[t], res[t], queue[req[t].sock], dump[req[t].sock])
      /\ req[t] \in Requests /\ batch[t] \in Seq(Messages) /\ res[t] \in Seq(Messages)
      /\ res \in [Threads -> Seq(Messages)] /\ m \in Messages
  BY <1>1, LookingAt
<1>3. rs \in Seq(Messages)
  BY <1>2
<1>4. CASE m.multi
  <2>1. /\ batch' = [batch EXCEPT ![t] = Tail(@)]
        /\ UNCHANGED <<pc, req, lock, sharedSeq, nextSeqNr, out, queue, dump>>
    BY <1>4 DEF Collect, sockVars
  <2>2. Awaiting(req[t], Tail(batch[t]), rs, queue[req[t].sock], dump[req[t].sock])
    BY <1>1, <1>2, <1>4, CollectAwaits
  <2> HIDE DEF rs
  <2> QED
    BY <1>1, <1>3, <2>1, <2>2, GoesOnKept
<1>5. CASE ~m.multi
  <2>1. /\ Return(t, "ok")
        /\ queue' = Closed(t, queue, << >>) /\ dump' = Closed(t, dump, None)
    BY <1>5 DEF Collect, Leave
  <2>2. rs = Wanted(req[t])
    BY <1>1, <1>2, <1>5, SingleAnswers
  <2> HIDE DEF rs
  <2>3. /\ res' \in [Threads -> Seq(Messages)] /\ res'[t] = Wanted(req[t])
        /\ \A u \in Threads : u # t => res'[u] = res[u]
    BY <1>1, <1>2, <1>3, <2>2
  <2> QED
    BY <1>2, <2>1, <2>3, LeaveKept
<1> QED
  BY <1>4, <1>5

\* The caller takes the result.
LEMMA ResultKept ==
    ASSUME Inv, NEW t \in Threads, Result(t)
    PROVE  Kept(t)
<1>1. /\ pc[t] = "returned" /\ pc' = [pc EXCEPT ![t] = "idle"]
      /\ req' = [req EXCEPT ![t] = NoRequest] /\ res' = [res EXCEPT ![t] = << >>]
      /\ out' = [out EXCEPT ![t] = "none"] /\ lock' = lock /\ sharedSeq' = sharedSeq
      /\ nextSeqNr' = nextSeqNr /\ batch' = batch /\ queue' = queue /\ dump' = dump
  BY DEF Result, sockVars
<1>i. RequestInv(t) /\ SocketInv(t) /\ Typed
  BY DEF Inv
<1>v. /\ pc \in [Threads -> {"idle", "lock", "send", "receive", "returned"}]
      /\ req \in [Threads -> Requests] /\ queue \in [Sockets -> Seq(Datagrams)]
      /\ batch \in [Threads -> Seq(Messages)] /\ res \in [Threads -> Seq(Messages)]
      /\ out \in [Threads -> {"none", "ok", "errno", "failed"}]
      /\ dump \in [Sockets -> DumpStates] /\ lock \in Threads \cup {None}
      /\ t # None /\ Shared # None
  BY <1>i, Values DEF Typed, TypeOK
<1>2. /\ pc' \in [Threads -> {"idle", "lock", "send", "receive", "returned"}]
      /\ pc'[t] = "idle" /\ \A u \in Threads : u # t => pc'[u] = pc[u]
  BY <1>1, <1>v
<1>3. /\ req' \in [Threads -> Requests] /\ req'[t] = NoRequest
      /\ \A u \in Threads : u # t => req'[u] = req[u]
  <2>1. NoRequest \in Requests
    BY DEF NoRequest, Requests, KindsOfRequest
  <2> QED
    BY <1>1, <1>v, <2>1
<1>4. /\ res' \in [Threads -> Seq(Messages)] /\ res'[t] = << >>
      /\ \A u \in Threads : u # t => res'[u] = res[u]
  <2>1. << >> \in Seq(Messages)
    OBVIOUS
  <2> QED
    BY <1>1, <1>v, <2>1
<1>5. /\ out' \in [Threads -> {"none", "ok", "errno", "failed"}] /\ out'[t] = "none"
      /\ \A u \in Threads : u # t => out'[u] = out[u]
  BY <1>1, <1>v
<1>6. Typed'
  BY <1>1, <1>2, <1>3, <1>4, <1>5, <1>i, <1>v, Counted
<1>7. StepKept(t)
  BY <1>1, <1>2, <1>3, <1>4, <1>5 DEF StepKept, Acts, SocketsKept, LockKept
<1>8. NoRequest.sock = None
  BY DEF NoRequest
<1>9. RequestInv(t)'
  BY <1>1, <1>2, <1>3, <1>4, <1>5, <1>8, <1>i DEF RequestInv
<1>10. SocketInv(t)'
  BY <1>1, <1>2, <1>3, <1>8, <1>i, <1>v DEF SocketInv
<1> QED
  BY <1>1, <1>3, <1>6, <1>7, <1>9, <1>10 DEF Kept

\* Every step of a call of Execute.
LEMMA EveryStepKept ==
    ASSUME Inv, NEW t \in Threads, Step(t)
    PROVE  Kept(t)
<1>1. CASE Lock(t)
  BY <1>1, LockStepKept
<1>2. CASE Send(t)
  BY <1>2, SendKept
<1>3. CASE SendRefused(t)
  <2>1. Sent(t, <<ErrorDatagram(req[t])>>) /\ dump' = dump
    BY <1>3 DEF SendRefused, ErrorDatagram
  <2> QED
    BY <2>1, RefusalKept
<1>4. CASE SendOverrun(t)
  BY <1>4, RefusalKept DEF SendOverrun
<1>5. CASE SendFails(t)
  BY <1>5, SendFailsKept
<1>6. CASE Receive(t)
  BY <1>6, ReceiveKept
<1>7. CASE ReceiveWrong(t) \/ ReceiveFails(t)
  BY <1>7, WrongKept
<1>8. CASE SkipSeq(t) \/ SkipType(t)
  BY <1>8, SkipKept
<1>9. CASE DoneOrError(t)
  BY <1>9, FinalKept
<1>10. CASE Collect(t)
  BY <1>10, CollectKept
<1>11. CASE Result(t)
  BY <1>11, ResultKept
<1> QED
  BY <1>1, <1>2, <1>3, <1>4, <1>5, <1>6, <1>7, <1>8, <1>9, <1>10, <1>11 DEF Step

LEMMA StepInv ==
    ASSUME Inv, NEW t \in Threads, Step(t)
    PROVE  Inv'
<1>1. Kept(t)
  BY EveryStepKept
<1>2. \A u \in Threads : u # t => RequestInv(u)' /\ SocketInv(u)'
  BY <1>1, OthersKept DEF Kept
<1>3. NumbersInv'
  BY <1>1, NumbersKept DEF Kept
<1> QED
  BY <1>1, <1>2, <1>3 DEF Kept, Inv

-----------------------------------------------------------------------------
(* New requests, and other processes.                                      *)

\* A thread takes a number for a request, of which nothing is to be found yet.
LEMMA NewRequest ==
    ASSUME Inv, NEW t \in Threads, pc[t] = "idle", NEW r \in Requests,
           req' = [req EXCEPT ![t] = r],
           \/ pc' = [pc EXCEPT ![t] = "lock"] /\ r.sock = Shared
           \/ pc' = [pc EXCEPT ![t] = "send"] /\ r.sock = t,
           Quiet(queue[r.sock], dump[r.sock], r.seq),
           sharedSeq' \in 0..MaxShared, nextSeqNr' \in 0..MaxPrivate,
           UNCHANGED <<lock, batch, res, out, queue, dump>>
    PROVE  /\ Typed' /\ \A u \in Threads : RequestInv(u)' /\ SocketInv(u)'
           /\ req'[t] = r /\ \A u \in Threads : u # t => req'[u] = req[u]
<1>i. RequestInv(t) /\ SocketInv(t) /\ Typed
  BY DEF Inv
<1>v. /\ pc \in [Threads -> {"idle", "lock", "send", "receive", "returned"}]
      /\ req \in [Threads -> Requests] /\ t # Shared
  BY <1>i, Values
<1>1. /\ pc' \in [Threads -> {"idle", "lock", "send", "receive", "returned"}]
      /\ \A u \in Threads : u # t => pc'[u] = pc[u]
      /\ (pc'[t] = "lock" /\ r.sock = Shared) \/ (pc'[t] = "send" /\ r.sock = t)
  <2>1. CASE pc' = [pc EXCEPT ![t] = "lock"] /\ r.sock = Shared
    BY <1>v, <2>1
  <2>2. CASE pc' = [pc EXCEPT ![t] = "send"] /\ r.sock = t
    BY <1>v, <2>2
  <2> QED
    BY <2>1, <2>2
<1>2. /\ req' \in [Threads -> Requests] /\ req'[t] = r
      /\ \A u \in Threads : u # t => req'[u] = req[u]
  BY <1>v
<1>3. Typed'
  BY <1>1, <1>2, <1>i DEF Typed, TypeOK
<1>4. StepKept(t)
  BY <1>1, <1>2 DEF StepKept, Acts, SocketsKept, LockKept
<1>5. RequestInv(t)'
  BY <1>1, <1>2, <1>i DEF RequestInv
<1>6. SocketInv(t)'
  <2>1. queue[t] = << >> /\ dump[t] = None
    BY <1>i DEF SocketInv
  <2>2. CASE pc'[t] = "lock" /\ r.sock = Shared
    BY <1>2, <2>1, <2>2 DEF SocketInv
  <2>3. CASE pc'[t] = "send" /\ r.sock = t
    BY <1>2, <1>v, <2>1, <2>3 DEF SocketInv
  <2> QED
    BY <1>1, <2>2, <2>3
<1>7. \A u \in Threads : u # t => RequestInv(u)' /\ SocketInv(u)'
  BY <1>4, OthersKept
<1> QED
  BY <1>2, <1>3, <1>5, <1>6, <1>7

LEMMA ExecuteSharedInv ==
    ASSUME Inv, NEW t \in Threads, ExecuteShared(t)
    PROVE  Inv'
<1>v. /\ sharedSeq \in Nat /\ MaxShared \in Nat /\ nextSeqNr \in 0..MaxPrivate
      /\ Shared \in Sockets /\ Typed /\ NumbersInv
      /\ \A u \in Threads : req[u].seq \in Nat
  <2>1. sharedSeq \in Nat /\ MaxShared \in Nat /\ nextSeqNr \in 0..MaxPrivate
    BY SocketAssumption DEF Inv, Typed, TypeOK
  <2> QED
    BY <2>1, Values DEF Inv
<1> DEFINE n == sharedSeq + 1
<1>1. PICK k \in KindsOfRequest :
         req' = [req EXCEPT ![t] = [seq |-> n, sock |-> Shared, kind |-> k]]
  BY DEF ExecuteShared
<1>2. /\ pc[t] = "idle" /\ pc' = [pc EXCEPT ![t] = "lock"] /\ sharedSeq < MaxShared
      /\ sharedSeq' = n /\ nextSeqNr' = nextSeqNr
      /\ UNCHANGED <<lock, batch, res, out, queue, dump>>
  BY DEF ExecuteShared, sockVars
<1> DEFINE r == [seq |-> n, sock |-> Shared, kind |-> k]
<1>n. n \in Nat /\ n > sharedSeq /\ n \in 0..MaxShared
  BY <1>2, <1>v
<1> HIDE DEF n
<1>3. r \in Requests /\ r.sock = Shared /\ r.seq = n
  BY <1>n, <1>v DEF Requests
<1> HIDE DEF r
<1>4. Quiet(queue[Shared], dump[Shared], n)
  BY <1>n, <1>v DEF NumbersInv
<1>5. /\ Typed' /\ \A u \in Threads : RequestInv(u)' /\ SocketInv(u)'
      /\ req'[t] = r /\ \A u \in Threads : u # t => req'[u] = req[u]
  <2>1. req' = [req EXCEPT ![t] = r]
    BY <1>1 DEF r
  <2>2. sharedSeq' \in 0..MaxShared /\ nextSeqNr' \in 0..MaxPrivate
    BY <1>2, <1>n, <1>v
  <2> QED
    BY <1>2, <1>3, <1>4, <2>1, <2>2, NewRequest
<1>6. \A x \in Nat : x > n => x > sharedSeq
  BY <1>v DEF n
<1>7. ASSUME NEW u \in Threads, req[u].sock = Shared
      PROVE  req[u].seq <= n /\ req[u].seq # n
  <2>1. req[u].seq <= sharedSeq
    BY <1>7, <1>v DEF NumbersInv
  <2> QED
    BY <1>v, <2>1 DEF n
<1>8. NumbersInv'
  <2>1. \A x \in Nat : x > n => Quiet(queue[Shared], dump[Shared], x)
    BY <1>6, <1>v DEF NumbersInv
  <2>2. n <= n
    BY <1>n
  <2>3. \A u \in Threads : req'[u].sock = Shared => req'[u].seq <= n
    BY <1>3, <1>5, <1>7, <2>2
  <2>4. \A u, w \in Threads :
           req'[u].sock = Shared /\ req'[w].sock = Shared /\ req'[u].seq = req'[w].seq => u = w
    BY <1>3, <1>5, <1>7, <1>v DEF NumbersInv
  <2> QED
    BY <1>2, <2>1, <2>3, <2>4 DEF NumbersInv
<1> QED
  BY <1>5, <1>8 DEF Inv

LEMMA ExecutePrivateInv ==
    ASSUME Inv, NEW t \in Threads, ExecutePrivate(t)
    PROVE  Inv'
<1>v. /\ nextSeqNr \in Nat /\ MaxPrivate \in Nat /\ sharedSeq \in 0..MaxShared
      /\ t \in Sockets /\ t # Shared /\ Typed /\ NumbersInv
  <2>1. nextSeqNr \in Nat /\ MaxPrivate \in Nat /\ sharedSeq \in 0..MaxShared
    BY SocketAssumption DEF Inv, Typed, TypeOK
  <2> QED
    BY <2>1, Values DEF Inv
<1> DEFINE n == nextSeqNr + 1
<1>1. PICK k \in KindsOfRequest :
         req' = [req EXCEPT ![t] = [seq |-> n, sock |-> t, kind |-> k]]
  BY DEF ExecutePrivate
<1>2. /\ pc[t] = "idle" /\ pc' = [pc EXCEPT ![t] = "send"] /\ nextSeqNr < MaxPrivate
      /\ nextSeqNr' = n /\ sharedSeq' = sharedSeq
      /\ UNCHANGED <<lock, batch, res, out, queue, dump>>
  BY DEF ExecutePrivate, sockVars
<1> DEFINE r == [seq |-> n, sock |-> t, kind |-> k]
<1>n. n \in Nat /\ n \in 0..MaxPrivate
  BY <1>2, <1>v
<1> HIDE DEF n
<1>3. r \in Requests /\ r.sock = t /\ r.seq = n
  BY <1>n, <1>v DEF Requests
<1> HIDE DEF r
<1>4. Quiet(queue[t], dump[t], n)
  <2>1. queue[t] = << >> /\ dump[t] = None
    BY <1>2 DEF Inv, SocketInv
  <2> QED
    BY <2>1 DEF Quiet, Silent
<1>5. /\ Typed' /\ \A u \in Threads : RequestInv(u)' /\ SocketInv(u)'
      /\ req'[t] = r /\ \A u \in Threads : u # t => req'[u] = req[u]
  <2>1. req' = [req EXCEPT ![t] = r]
    BY <1>1 DEF r
  <2>2. sharedSeq' \in 0..MaxShared /\ nextSeqNr' \in 0..MaxPrivate
    BY <1>2, <1>n, <1>v
  <2> QED
    BY <1>2, <1>3, <1>4, <2>1, <2>2, NewRequest
<1>6. \A u \in Threads : req'[u].sock = Shared => req'[u] = req[u]
  BY <1>3, <1>5, <1>v
<1>7. NumbersInv'
  BY <1>2, <1>6, <1>v DEF NumbersInv
<1> QED
  BY <1>5, <1>7 DEF Inv

LEMMA OtherSendsInv ==
    ASSUME Inv, OtherSends
    PROVE  Inv'
<1>1. /\ queue' = [queue EXCEPT ![Shared] = Append(queue[Shared], Foreign)] /\ dump' = dump
      /\ UNCHANGED <<pc, req, lock, sharedSeq, nextSeqNr, batch, res, out>>
  BY DEF OtherSends
<1>v. /\ queue \in [Sockets -> Seq(Datagrams)] /\ Shared \in Sockets /\ Typed
      /\ dump \in [Sockets -> DumpStates] /\ queue[Shared] \in Seq(Datagrams)
  BY DEF Inv, Typed, TypeOK, Sockets, Datagrams
<1>f. Foreign \in Datagrams /\ \A n : ~Of(Foreign, n)
  BY WrongKnown
<1> DEFINE q == Append(queue[Shared], Foreign)
<1>2. q \in Seq(Datagrams) /\ \A n : Silent(queue[Shared], n) => Silent(q, n)
  BY <1>f, <1>v, SilentAppended, Appended
<1>3. \A r \in Requests : \A b, rs : Awaiting(r, b, rs, queue[Shared], dump[Shared]) =>
                                     Awaiting(r, b, rs, q, dump[Shared])
  BY <1>v, ForeignAwaits
<1> HIDE DEF q
<1>4. /\ queue' \in [Sockets -> Seq(Datagrams)] /\ queue'[Shared] = q
      /\ \A x \in Sockets : x # Shared => queue'[x] = queue[x]
  BY <1>1, <1>2, <1>v DEF q
<1>5. Typed'
  BY <1>1, <1>4, <1>v DEF Typed, TypeOK, Datagrams
<1>6. ASSUME NEW t \in Threads PROVE RequestInv(t)' /\ SocketInv(t)'
  <2>v. /\ req[t] \in Requests /\ t \in Sockets /\ t # Shared
        /\ pc[t] # "idle" => req[t].sock = Shared \/ req[t].sock = t
    BY <1>v, Values DEF Inv, SocketInv
  <2>1. RequestInv(t) /\ SocketInv(t)
    BY DEF Inv
  <2>2. queue'[t] = queue[t]
    BY <1>4, <2>v
  <2>3. pc[t] # "idle" => req[t].sock = Shared \/ queue'[req[t].sock] = queue[req[t].sock]
    BY <2>2, <2>v
  <2>4. RequestInv(t)'
    BY <1>1, <1>2, <1>3, <1>4, <2>1, <2>3, <2>v DEF RequestInv, Quiet
  <2>5. SocketInv(t)'
    BY <1>1, <2>1, <2>2 DEF SocketInv
  <2> QED
    BY <2>4, <2>5
<1>7. NumbersInv'
  BY <1>1, <1>2, <1>4 DEF Inv, NumbersInv, Quiet
<1> QED
  BY <1>5, <1>6, <1>7 DEF Inv

LEMMA InitInv == Init => Inv
<1> SUFFICES ASSUME Init PROVE Inv
  OBVIOUS
<1>0. NoRequest \in Requests /\ NoRequest.sock = None /\ << >> \in Seq(Messages)
      /\ << >> \in Seq(Datagrams) /\ None \in DumpStates
  BY DEF NoRequest, Requests, KindsOfRequest, DumpStates
<1>1. Typed
  <2>1. 0 \in 0..MaxShared /\ 0 \in 0..MaxPrivate
    BY SocketAssumption
  <2>2. dump \in [Sockets -> DumpStates]
    BY <1>0 DEF Init
  <2> QED
    BY <1>0, <2>1, <2>2, DumpsTyped DEF Init, Typed, TypeOK, Datagrams
<1>2. \A s \in Sockets : queue[s] = << >> /\ dump[s] = None
  BY DEF Init
<1>3. \A n : Quiet(<< >>, None, n)
  BY DEF Quiet, Silent
<1>4. ASSUME NEW t \in Threads PROVE RequestInv(t) /\ SocketInv(t)
  <2>1. /\ pc[t] = "idle" /\ batch[t] = << >> /\ res[t] = << >> /\ req[t] = NoRequest
        /\ out[t] = "none" /\ queue[t] = << >> /\ dump[t] = None /\ t # None /\ Shared # None
    BY <1>2, SocketAssumption DEF Init, Sockets
  <2> QED
    BY <1>0, <2>1 DEF RequestInv, SocketInv
<1>5. NumbersInv
  <2>1. \A t \in Threads : req[t].sock # Shared
    BY <1>0, SocketAssumption DEF Init
  <2>2. queue[Shared] = << >> /\ dump[Shared] = None
    BY <1>2 DEF Sockets
  <2> QED
    BY <1>3, <2>1, <2>2 DEF NumbersInv
<1> QED
  BY <1>1, <1>4, <1>5 DEF Inv

LEMMA NextInv == Inv /\ [Next]_vars => Inv'
<1> SUFFICES ASSUME Inv, [Next]_vars PROVE Inv'
  OBVIOUS
<1>1. CASE UNCHANGED vars
  BY <1>1 DEF vars, sockVars, Inv, Typed, TypeOK, RequestInv, SocketInv, NumbersInv, Quiet
<1>2. ASSUME NEW t \in Threads, ExecuteShared(t) \/ ExecutePrivate(t) \/ Step(t) PROVE Inv'
  BY <1>2, ExecuteSharedInv, ExecutePrivateInv, StepInv
<1>3. CASE OtherSends
  BY <1>3, OtherSendsInv
<1> QED
  BY <1>1, <1>2, <1>3 DEF Next, AllDone

LEMMA AlwaysInv == Spec => []Inv
BY InitInv, NextInv, PTL DEF Spec

\* The socket's state stays of its types, whatever the threads, the kernel and other
\* processes do: a dump that the kernel is in never goes beyond its last part.
THEOREM SocketTypeCorrect == Spec => []TypeOK
<1>1. Inv => TypeOK
  BY DEF Inv, Typed
<1> QED
  BY <1>1, AlwaysInv, PTL

\* Execute (nl/nl_linux.go) gives a request that succeeds the data of its own answer,
\* all of it and in order, however many requests use the handle, and whatever earlier
\* ones have left in its socket when they timed out, were refused, or met an overrun
\* or another process's datagram.
THEOREM AnswersOwn == Spec => []OwnAnswer
<1>1. Inv => OwnAnswer
  BY DEF Inv, RequestInv, OwnAnswer
<1> QED
  BY <1>1, AlwaysInv, PTL

-----------------------------------------------------------------------------
(* Errors.                                                                 *)

\* How the history names a request.
Key(s, n) == <<s = Shared, n>>

\* The errors among the messages of a datagram, and of a queue, of socket s are of
\* requests in rf.
ErrnosIn(b, s, rf) == \A j \in 1..Len(b) : b[j].type = "errno" => Key(s, b[j].seq) \in rf
QueueErrnos(q, s, rf) == \A i \in 1..Len(q) : ErrnosIn(q[i].msgs, s, rf)

\* Errors in a socket, and in what a thread has taken from it, are of requests that
\* the kernel refused there.
ErrnoInv ==
    /\ \A s \in Sockets : QueueErrnos(queue[s], s, refused)
    /\ \A t \in Threads :
         /\ ErrnosIn(batch[t], req[t].sock, refused)
         /\ out[t] = "errno" => Key(req[t].sock, req[t].seq) \in refused

LEMMA ErrnosGrow ==
    ASSUME NEW rf, NEW rg, rf \subseteq rg, NEW s
    PROVE  /\ \A b : ErrnosIn(b, s, rf) => ErrnosIn(b, s, rg)
           /\ \A q : QueueErrnos(q, s, rf) => QueueErrnos(q, s, rg)
BY DEF ErrnosIn, QueueErrnos

LEMMA NoErrnos ==
    ASSUME NEW s, NEW rf
    PROVE  ErrnosIn(<< >>, s, rf) /\ QueueErrnos(<< >>, s, rf)
<1>1. Len(<< >>) = 0 /\ \A j : j \notin 1..0
  OBVIOUS
<1> QED
  BY <1>1 DEF ErrnosIn, QueueErrnos

LEMMA ErrnosAppended ==
    ASSUME NEW q \in Seq(Datagrams), NEW g \in Datagrams, NEW s, NEW rf,
           QueueErrnos(q, s, rf), ErrnosIn(g.msgs, s, rf)
    PROVE  QueueErrnos(Append(q, g), s, rf)
<1> SUFFICES ASSUME NEW i \in 1..(Len(q) + 1) PROVE ErrnosIn(Append(q, g)[i].msgs, s, rf)
  BY Appended DEF QueueErrnos
<1>1. CASE i \in 1..Len(q)
  BY <1>1, Appended DEF QueueErrnos
<1>2. CASE i = Len(q) + 1
  BY <1>2, Appended
<1> QED
  BY <1>1, <1>2, Appended

LEMMA ErrnosTaken ==
    ASSUME NEW q \in Seq(Datagrams), q # << >>, NEW s, NEW rf, QueueErrnos(q, s, rf)
    PROVE  QueueErrnos(Tail(q), s, rf) /\ ErrnosIn(Head(q).msgs, s, rf)
<1>1. ASSUME NEW i \in 1..(Len(q) - 1) PROVE ErrnosIn(Tail(q)[i].msgs, s, rf)
  <2>1. i + 1 \in 1..Len(q) /\ Tail(q)[i] = q[i + 1]
    BY Taken
  <2> QED
    BY <2>1 DEF QueueErrnos
<1>2. 1 \in 1..Len(q) /\ Head(q) = q[1]
  BY Taken
<1> QED
  BY <1>1, <1>2, Taken DEF QueueErrnos

LEMMA ErrnosRest ==
    ASSUME NEW b \in Seq(Messages), b # << >>, NEW s, NEW rf, ErrnosIn(b, s, rf)
    PROVE  /\ ErrnosIn(Tail(b), s, rf)
           /\ Head(b).type = "errno" => Key(s, Head(b).seq) \in rf
<1>1. ASSUME NEW j \in 1..(Len(b) - 1), Tail(b)[j].type = "errno"
      PROVE  Key(s, Tail(b)[j].seq) \in rf
  <2>1. j + 1 \in 1..Len(b) /\ Tail(b)[j] = b[j + 1]
    BY Batches
  <2> QED
    BY <1>1, <2>1 DEF ErrnosIn
<1> QED
  BY <1>1, Batches DEF ErrnosIn

\* An answer has no errors.
LEMMA AnswersWithout ==
    ASSUME NEW r \in Requests, NEW n \in 1..Last(r), NEW s, NEW rf
    PROVE  ErrnosIn(Nth(r, n).msgs, s, rf)
<1>0. 1..1 = {1} /\ 1..2 = {1, 2} /\ 0 \in 0..Parts
  BY SocketAssumption
<1>1. /\ DoneMsg(r).type # "errno" /\ Data(r, n).type # "errno" /\ Other(r, n).type # "errno"
  BY MessageFields
<1>2. ASSUME NEW m, m.type # "errno" PROVE ErrnosIn(Datagram(<<m>>).msgs, s, rf)
  <2>1. Datagram(<<m>>).msgs = <<m>> /\ Len(<<m>>) = 1 /\ <<m>>[1] = m
    BY DEF Datagram
  <2> QED
    BY <1>0, <1>2, <2>1 DEF ErrnosIn
<1>3. ASSUME NEW m, NEW o, m.type # "errno", o.type # "errno"
      PROVE  ErrnosIn(Datagram(<<m, o>>).msgs, s, rf)
  <2>1. /\ Datagram(<<m, o>>).msgs = <<m, o>> /\ Len(<<m, o>>) = 2
        /\ <<m, o>>[1] = m /\ <<m, o>>[2] = o
    BY DEF Datagram
  <2> QED
    BY <1>0, <1>3, <2>1 DEF ErrnosIn
<1> QED
  BY <1>1, <1>2, <1>3 DEF Nth

LEMMA RefusalNamed ==
    ASSUME NEW r \in Requests, NEW s, NEW rf, Key(s, r.seq) \in rf
    PROVE  ErrnosIn(ErrorDatagram(r).msgs, s, rf)
<1>1. /\ ErrorDatagram(r).msgs = <<ErrorMsg(r)>> /\ Len(<<ErrorMsg(r)>>) = 1
      /\ <<ErrorMsg(r)>>[1] = ErrorMsg(r) /\ ErrorMsg(r).seq = r.seq
  BY ErrorKnown, MessageFields
<1>2. 1..1 = {1}
  OBVIOUS
<1> QED
  BY <1>1, <1>2 DEF ErrnosIn

\* What a step of a thread has to do for this.
LEMMA ErrnoStep ==
    ASSUME Inv, ErrnoInv, NEW t \in Threads, Kept(t), refused \subseteq refused',
           queue' = queue \/ QueueErrnos(queue'[req[t].sock], req[t].sock, refused'),
           ErrnosIn(batch'[t], req'[t].sock, refused'),
           out'[t] = "errno" => Key(req'[t].sock, req'[t].seq) \in refused'
    PROVE  ErrnoInv'
<1>1. ASSUME NEW s \in Sockets PROVE QueueErrnos(queue'[s], s, refused')
  <2>1. QueueErrnos(queue[s], s, refused')
    BY ErrnosGrow DEF ErrnoInv
  <2>2. queue'[s] = queue[s] \/ (s = req[t].sock /\ Confined(t))
    BY DEF Kept, StepKept, SocketsKept, Confined
  <2> QED
    BY <2>1, <2>2
<1>2. ASSUME NEW u \in Threads
      PROVE  /\ ErrnosIn(batch'[u], req'[u].sock, refused')
             /\ out'[u] = "errno" => Key(req'[u].sock, req'[u].seq) \in refused'
  <2>1. CASE u = t
    BY <2>1
  <2>2. CASE u # t
    <3>1. req'[u] = req[u] /\ batch'[u] = batch[u] /\ out'[u] = out[u]
      BY <2>2 DEF Kept, StepKept, Acts
    <3>2. ErrnosIn(batch[u], req[u].sock, refused')
      BY ErrnosGrow DEF ErrnoInv
    <3> QED
      BY <3>1, <3>2 DEF ErrnoInv
  <2> QED
    BY <2>1, <2>2
<1> QED
  BY <1>1, <1>2 DEF ErrnoInv

LEMMA SentErrnos ==
    ASSUME Inv, ErrnoInv, NEW t \in Threads, Send(t) \/ SendRefused(t) \/ SendOverrun(t)
    PROVE  ErrnoInv'
<1> DEFINE r == req[t]
           s == r.sock
<1>k. Kept(t)
  BY EveryStepKept DEF Step
<1>0. pc[t] = "send" /\ batch' = batch /\ out' = out /\ req' = req
  BY DEF Send, SendRefused, SendOverrun, Sent
<1>f. r \in Requests /\ s \in Sockets /\ queue[s] \in Seq(Datagrams)
      /\ queue \in [Sockets -> Seq(Datagrams)]
  <2>1. queue \in [Sockets -> Seq(Datagrams)]
    BY Values DEF Inv
  <2> QED
    BY <1>0, <2>1, SendFinds
<1>1. refused \subseteq refused'
  BY DEF Send, SendRefused, SendOverrun
<1>e. QueueErrnos(queue[s], s, refused')
  BY <1>1, <1>f, ErrnosGrow DEF ErrnoInv
<1>2. QueueErrnos(queue'[s], s, refused')
  <2>1. CASE Send(t)
    <3>0. queue'[s] = queue[s] \o Answer(r)
      BY <1>f, <2>1 DEF Send, Sent
    <3>1. /\ r.kind # "one" => queue'[s] = Append(queue[s], Nth(r, 1))
          /\ r.kind = "one" => queue'[s] = Append(Append(queue[s], Nth(r, 1)), Nth(r, 2))
      BY <1>f, <3>0, AnswerKnown
    <3>2. 1 \in 1..Last(r) /\ (r.kind = "one" => 2 \in 1..Last(r))
      BY <1>f, LastNumber
    <3>3. Nth(r, 1) \in Datagrams /\ ErrnosIn(Nth(r, 1).msgs, s, refused')
      BY <1>f, <3>2, NthKnown, AnswersWithout
    <3>4. /\ Append(queue[s], Nth(r, 1)) \in Seq(Datagrams)
          /\ QueueErrnos(Append(queue[s], Nth(r, 1)), s, refused')
      BY <1>e, <1>f, <3>3, Appended, ErrnosAppended
    <3>5. CASE r.kind = "one"
      <4>1. Nth(r, 2) \in Datagrams /\ ErrnosIn(Nth(r, 2).msgs, s, refused')
        BY <1>f, <3>2, <3>5, NthKnown, AnswersWithout
      <4> QED
        BY <3>1, <3>4, <3>5, <4>1, ErrnosAppended
    <3> QED
      BY <3>1, <3>4, <3>5
  <2>2. CASE SendRefused(t)
    <3>1. queue'[s] = queue[s] \o <<ErrorDatagram(r)>>
      BY <1>f, <2>2 DEF SendRefused, Sent, ErrorDatagram
    <3>2. ErrorDatagram(r) \in Datagrams
      BY <1>f, ErrorKnown
    <3>3. queue'[s] = Append(queue[s], ErrorDatagram(r))
      BY <1>f, <3>1, <3>2
    <3>4. Key(s, r.seq) \in refused'
      BY <2>2, Zenon DEF SendRefused, Key
    <3> QED
      BY <1>e, <1>f, <3>2, <3>3, <3>4, RefusalNamed, ErrnosAppended
  <2>3. CASE SendOverrun(t)
    <3>1. queue'[s] = queue[s] \o <<Overrun>>
      BY <1>f, <2>3 DEF SendOverrun, Sent
    <3>2. Overrun \in Datagrams /\ Overrun.msgs = << >>
      BY WrongKnown
    <3>3. queue'[s] = Append(queue[s], Overrun)
      BY <1>f, <3>1, <3>2
    <3> QED
      BY <1>e, <1>f, <3>2, <3>3, NoErrnos, ErrnosAppended
  <2> QED
    BY <2>1, <2>2, <2>3
<1>3. ErrnosIn(batch[t], s, refused') /\ (out[t] = "errno" => Key(s, r.seq) \in refused')
  BY <1>1, ErrnosGrow DEF ErrnoInv
<1> QED
  BY <1>0, <1>1, <1>2, <1>3, <1>k, ErrnoStep

LEMMA ReceiveErrnos ==
    ASSUME Inv, ErrnoInv, NEW t \in Threads, Receive(t)
    PROVE  ErrnoInv'
<1> DEFINE s == req[t].sock
<1>k. Kept(t)
  BY EveryStepKept DEF Step
<1>0. /\ pc[t] = "receive" /\ queue[s] # << >> /\ refused' = refused /\ out' = out /\ req' = req
      /\ batch' = [batch EXCEPT ![t] = Head(queue[s]).msgs]
  BY DEF Receive
<1>f. /\ s \in Sockets /\ queue[s] \in Seq(Datagrams) /\ dump[s] \in DumpStates
      /\ queue \in [Sockets -> Seq(Datagrams)] /\ batch \in [Threads -> Seq(Messages)]
  <2>1. s \in Sockets
    BY <1>0, Values DEF Inv, SocketInv
  <2> QED
    BY <2>1, Values DEF Inv
<1>1. QueueErrnos(Tail(queue[s]), s, refused) /\ ErrnosIn(Head(queue[s]).msgs, s, refused)
  BY <1>0, <1>f, ErrnosTaken DEF ErrnoInv
<1>2. QueueErrnos(queue'[s], s, refused)
  <2>1. CASE dump[s] = None
    BY <1>1, <1>f, <2>1 DEF Receive
  <2>2. CASE dump[s] # None
    <3> DEFINE g == DumpPart(dump[s].req, dump[s].next)
    <3>1. queue'[s] = Append(Tail(queue[s]), g)
      BY <1>f, <2>2 DEF Receive
    <3>2. /\ g \in Datagrams /\ g = Nth(dump[s].req, dump[s].next) /\ dump[s].req \in Requests
          /\ dump[s].req.kind = "dump" /\ dump[s].next \in 2..(Parts + 1) /\ Parts \in Nat
      BY <1>f, <2>2, DumpGoesOn
    <3>3. dump[s].next \in 1..(Parts + 1)
      BY <3>2
    <3>4. dump[s].next \in 1..Last(dump[s].req)
      BY <3>2, <3>3, DumpPartKnown
    <3>5. ErrnosIn(g.msgs, s, refused)
      BY <3>2, <3>4, AnswersWithout
    <3>6. Tail(queue[s]) \in Seq(Datagrams)
      BY <1>0, <1>f, Taken
    <3> HIDE DEF g
    <3> QED
      BY <1>1, <3>1, <3>2, <3>5, <3>6, ErrnosAppended
  <2> QED
    BY <2>1, <2>2
<1>3. batch'[t] = Head(queue[s]).msgs
  BY <1>0, <1>f
<1>4. out[t] = "errno" => Key(s, req[t].seq) \in refused
  BY DEF ErrnoInv
<1> QED
  BY <1>0, <1>1, <1>2, <1>3, <1>4, <1>k, ErrnoStep

\* What is left in a socket that a call is done with.
LEMMA ClosedErrnos ==
    ASSUME Inv, ErrnoInv, NEW t \in Threads, pc[t] = "receive", NEW q,
           q = queue \/ (queue[req[t].sock] # << >>
                           /\ q = [queue EXCEPT ![req[t].sock] = Tail(@)]),
           queue' = Closed(t, q, << >>)
    PROVE  QueueErrnos(queue'[req[t].sock], req[t].sock, refused)
<1> DEFINE s == req[t].sock
<1>f. /\ s = Shared \/ s = t
      /\ s \in Sockets /\ queue[s] \in Seq(Datagrams) /\ t # Shared
      /\ queue \in [Sockets -> Seq(Datagrams)]
  <2>1. s = Shared \/ s = t
    BY DEF Inv, SocketInv
  <2> QED
    BY <2>1, Values DEF Inv
<1>1. QueueErrnos(q[s], s, refused)
  <2>1. CASE q = queue
    BY <1>f, <2>1 DEF ErrnoInv
  <2>2. CASE queue[s] # << >> /\ q = [queue EXCEPT ![s] = Tail(@)]
    <3>1. q[s] = Tail(queue[s])
      BY <1>f, <2>2
    <3> QED
      BY <1>f, <2>2, <3>1, ErrnosTaken DEF ErrnoInv
  <2> QED
    BY <2>1, <2>2
<1>2. CASE s = Shared
  BY <1>1, <1>2 DEF Closed
<1>3. CASE s = t
  <2>1. queue' = [q EXCEPT ![t] = << >>] /\ t \in DOMAIN q
    BY <1>3, <1>f DEF Closed
  <2> QED
    BY <1>3, <2>1, NoErrnos
<1> QED
  BY <1>2, <1>3, <1>f

\* A call returns: an errno is reported only for a message that bears the request's
\* number.
LEMMA ReturnErrnos ==
    ASSUME Inv, ErrnoInv, NEW t \in Threads, Step(t), NEW result, Return(t, result),
           pc[t] \in {"send", "receive"}, refused' = refused,
           queue' = queue \/ QueueErrnos(queue'[req[t].sock], req[t].sock, refused),
           result = "errno" => Key(req[t].sock, req[t].seq) \in refused
    PROVE  ErrnoInv'
<1>k. Kept(t)
  BY EveryStepKept
<1>1. batch \in [Threads -> Seq(Messages)]
      /\ out \in [Threads -> {"none", "ok", "errno", "failed"}]
  BY Values DEF Inv
<1>2. batch'[t] = << >> /\ out'[t] = result /\ req' = req
  BY <1>1 DEF Return
<1> QED
  BY <1>2, <1>k, NoErrnos, ErrnoStep

\* A message is looked at, or none.
LEMMA LookErrnos ==
    ASSUME Inv, ErrnoInv, NEW t \in Threads, Step(t), queue' = queue, refused' = refused,
           req'[t] = req[t], out'[t] = out[t],
           \/ batch' = batch
           \/ batch[t] # << >> /\ batch' = [batch EXCEPT ![t] = Tail(@)]
    PROVE  ErrnoInv'
<1>k. Kept(t)
  BY EveryStepKept
<1>1. /\ ErrnosIn(batch[t], req[t].sock, refused)
      /\ out[t] = "errno" => Key(req[t].sock, req[t].seq) \in refused
  BY DEF ErrnoInv
<1>2. batch \in [Threads -> Seq(Messages)] /\ batch[t] \in Seq(Messages)
  BY Values DEF Inv
<1>3. ErrnosIn(batch'[t], req[t].sock, refused)
  <2>1. CASE batch' = batch
    BY <1>1, <2>1
  <2>2. CASE batch[t] # << >> /\ batch' = [batch EXCEPT ![t] = Tail(@)]
    <3>1. batch'[t] = Tail(batch[t])
      BY <1>2, <2>2
    <3> QED
      BY <1>1, <1>2, <2>2, <3>1, ErrnosRest
  <2> QED
    BY <2>1, <2>2
<1> QED
  BY <1>1, <1>3, <1>k, ErrnoStep

LEMMA StepErrnos ==
    ASSUME Inv, ErrnoInv, NEW t \in Threads, Step(t)
    PROVE  ErrnoInv'
<1>1. CASE Lock(t)
  BY <1>1, LookErrnos DEF Lock, sockVars
<1>2. CASE Send(t) \/ SendRefused(t) \/ SendOverrun(t)
  BY <1>2, SentErrnos
<1>3. CASE SendFails(t)
  <2>1. pc[t] = "send" /\ Return(t, "failed") /\ queue' = queue /\ refused' = refused
    BY <1>3 DEF SendFails, sockVars
  <2> QED
    BY <2>1, ReturnErrnos
<1>4. CASE Receive(t)
  BY <1>4, ReceiveErrnos
<1>5. CASE ReceiveWrong(t)
  <2> DEFINE q == [queue EXCEPT ![req[t].sock] = Tail(@)]
  <2>1. /\ pc[t] = "receive" /\ Return(t, "failed") /\ queue[req[t].sock] # << >>
        /\ queue' = Closed(t, q, << >>) /\ refused' = refused
    BY <1>5 DEF ReceiveWrong
  <2>2. q = [queue EXCEPT ![req[t].sock] = Tail(@)]
    OBVIOUS
  <2> HIDE DEF q
  <2>3. QueueErrnos(queue'[req[t].sock], req[t].sock, refused)
    BY <2>1, <2>2, ClosedErrnos
  <2> QED
    BY <2>1, <2>3, ReturnErrnos
<1>6. CASE ReceiveFails(t)
  <2>1. /\ pc[t] = "receive" /\ Return(t, "failed") /\ queue' = Closed(t, queue, << >>)
        /\ refused' = refused
    BY <1>6 DEF ReceiveFails
  <2>2. QueueErrnos(queue'[req[t].sock], req[t].sock, refused)
    BY <2>1, ClosedErrnos
  <2> QED
    BY <2>1, <2>2, ReturnErrnos
<1>7. CASE SkipSeq(t) \/ SkipType(t)
  <2>1. /\ batch[t] # << >> /\ batch' = [batch EXCEPT ![t] = Tail(@)]
        /\ queue' = queue /\ refused' = refused /\ req' = req /\ out' = out
    BY <1>7 DEF SkipSeq, SkipType, sockVars
  <2> QED
    BY <2>1, LookErrnos
<1>8. CASE DoneOrError(t)
  <2> DEFINE m == Head(batch[t])
             result == IF m.type = "done" THEN "ok" ELSE "errno"
  <2>1. /\ batch[t] # << >> /\ m.seq = req[t].seq /\ m.type \in {"done", "errno"}
        /\ Return(t, result) /\ queue' = Closed(t, queue, << >>) /\ refused' = refused
    BY <1>8 DEF DoneOrError, Leave, Mine
  <2>2. pc[t] = "receive" /\ batch[t] \in Seq(Messages)
    BY <2>1, LookingAt
  <2>3. QueueErrnos(queue'[req[t].sock], req[t].sock, refused)
    BY <2>1, <2>2, ClosedErrnos
  <2>4. ErrnosIn(batch[t], req[t].sock, refused)
    BY DEF ErrnoInv
  <2>5. m.type = "errno" => Key(req[t].sock, m.seq) \in refused
    BY <2>1, <2>2, <2>4, ErrnosRest
  <2>6. result = "errno" => m.type = "errno"
    BY <2>1
  <2>7. result = "errno" => Key(req[t].sock, req[t].seq) \in refused
    BY <2>1, <2>5, <2>6
  <2> HIDE DEF result
  <2> QED
    BY <2>1, <2>2, <2>3, <2>7, ReturnErrnos
<1>9. CASE Collect(t)
  <2>1. batch[t] # << >>
    BY <1>9 DEF Collect
  <2>2. pc[t] = "receive"
    BY <2>1, LookingAt
  <2>3. CASE Head(batch[t]).multi
    <3>1. /\ batch' = [batch EXCEPT ![t] = Tail(@)]
          /\ queue' = queue /\ refused' = refused /\ req' = req /\ out' = out
      BY <1>9, <2>3 DEF Collect, sockVars
    <3> QED
      BY <2>1, <3>1, LookErrnos
  <2>4. CASE ~Head(batch[t]).multi
    <3>1. Return(t, "ok") /\ queue' = Closed(t, queue, << >>) /\ refused' = refused
      BY <1>9, <2>4 DEF Collect, Leave
    <3>2. QueueErrnos(queue'[req[t].sock], req[t].sock, refused)
      BY <2>2, <3>1, ClosedErrnos
    <3> QED
      BY <2>2, <3>1, <3>2, ReturnErrnos
  <2> QED
    BY <2>3, <2>4
<1>10. CASE Result(t)
  <2>k. Kept(t)
    BY EveryStepKept
  <2>1. /\ pc[t] = "returned" /\ out' = [out EXCEPT ![t] = "none"] /\ batch' = batch
        /\ queue' = queue /\ refused' = refused
    BY <1>10 DEF Result, sockVars
  <2>2. out \in [Threads -> {"none", "ok", "errno", "failed"}] /\ batch[t] = << >>
    BY <2>1, Values DEF Inv, RequestInv
  <2>3. out'[t] = "none" /\ batch'[t] = << >>
    BY <2>1, <2>2
  <2> QED
    BY <2>1, <2>3, <2>k, NoErrnos, ErrnoStep
<1> QED
  BY <1>1, <1>2, <1>3, <1>4, <1>5, <1>6, <1>7, <1>8, <1>9, <1>10 DEF Step

LEMMA NewErrnos ==
    ASSUME Inv, ErrnoInv, NEW t \in Threads, ExecuteShared(t) \/ ExecutePrivate(t)
    PROVE  ErrnoInv'
<1>1. /\ pc[t] = "idle" /\ batch' = batch /\ out' = out /\ queue' = queue /\ refused' = refused
  BY DEF ExecuteShared, ExecutePrivate, sockVars
<1>2. \A u \in Threads : u # t => req'[u] = req[u]
  <2>1. req \in [Threads -> Requests]
    BY Values DEF Inv
  <2>2. PICK r : req' = [req EXCEPT ![t] = r]
    BY DEF ExecuteShared, ExecutePrivate
  <2> QED
    BY <2>1, <2>2
<1>3. batch[t] = << >> /\ out[t] # "errno"
  BY <1>1 DEF Inv, RequestInv
<1>4. ASSUME NEW u \in Threads
      PROVE  /\ ErrnosIn(batch'[u], req'[u].sock, refused')
             /\ out'[u] = "errno" => Key(req'[u].sock, req'[u].seq) \in refused'
  <2>1. CASE u = t
    BY <1>1, <1>3, <2>1, NoErrnos
  <2>2. CASE u # t
    BY <1>1, <1>2, <2>2 DEF ErrnoInv
  <2> QED
    BY <2>1, <2>2
<1> QED
  BY <1>1, <1>4 DEF ErrnoInv

LEMMA OtherErrnos ==
    ASSUME Inv, ErrnoInv, OtherSends
    PROVE  ErrnoInv'
<1>1. /\ queue' = [queue EXCEPT ![Shared] = Append(queue[Shared], Foreign)]
      /\ refused' = refused /\ batch' = batch /\ req' = req /\ out' = out
  BY DEF OtherSends
<1>2. /\ queue \in [Sockets -> Seq(Datagrams)] /\ Shared \in Sockets
      /\ queue[Shared] \in Seq(Datagrams)
  BY DEF Inv, Typed, TypeOK, Sockets, Datagrams
<1>3. Foreign \in Datagrams /\ Foreign.msgs = << >>
  BY WrongKnown
<1>4. QueueErrnos(Append(queue[Shared], Foreign), Shared, refused)
  BY <1>2, <1>3, NoErrnos, ErrnosAppended DEF ErrnoInv
<1>5. \A s \in Sockets : QueueErrnos(queue'[s], s, refused)
  BY <1>1, <1>2, <1>4 DEF ErrnoInv
<1> QED
  BY <1>1, <1>5 DEF ErrnoInv

LEMMA AlwaysErrnos == Spec => []ErrnoInv
<1>1. Init => ErrnoInv
  <2> SUFFICES ASSUME Init PROVE ErrnoInv
    OBVIOUS
  <2>1. \A s \in Sockets : queue[s] = << >>
    BY DEF Init
  <2>2. \A t \in Threads : batch[t] = << >> /\ out[t] = "none"
    BY DEF Init
  <2> QED
    BY <2>1, <2>2, NoErrnos DEF ErrnoInv
<1>2. Inv /\ ErrnoInv /\ [Next]_vars => ErrnoInv'
  <2> SUFFICES ASSUME Inv, ErrnoInv, [Next]_vars PROVE ErrnoInv'
    OBVIOUS
  <2>1. CASE UNCHANGED vars
    BY <2>1 DEF vars, sockVars, ErrnoInv
  <2>2. ASSUME NEW t \in Threads, ExecuteShared(t) \/ ExecutePrivate(t) \/ Step(t)
        PROVE  ErrnoInv'
    BY <2>2, NewErrnos, StepErrnos
  <2>3. CASE OtherSends
    BY <2>3, OtherErrnos
  <2> QED
    BY <2>1, <2>2, <2>3 DEF Next, AllDone
<1> QED
  BY <1>1, <1>2, AlwaysInv, PTL DEF Spec

\* No request is told of another's failure: an errno that Execute returns is one that
\* the kernel answered this very request with, on this very socket.
THEOREM ErrnosOwn == Spec => []OwnErrno
<1>1. ErrnoInv => OwnErrno
  <2> SUFFICES ASSUME ErrnoInv, NEW t \in Threads, out[t] = "errno"
               PROVE  <<req[t].sock = Shared, req[t].seq>> \in refused
    BY DEF OwnErrno
  <2>1. Key(req[t].sock, req[t].seq) \in refused
    BY DEF ErrnoInv
  <2> QED
    BY <2>1, Zenon DEF Key
<1> QED
  BY <1>1, AlwaysErrnos, PTL
=============================================================================
