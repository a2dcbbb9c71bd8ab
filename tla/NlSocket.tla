------------------------------ MODULE NlSocket ------------------------------
(***************************************************************************)
(* Requests and their answers in the netlink library (nl/nl_linux.go,      *)
(* handle_linux.go).  Threads execute requests on the socket of a Handle   *)
(* that they share, under its mutex, or each on a socket of its own.  An   *)
(* answer is data messages and a final one; a message bears the sequence   *)
(* number of its request.  A thread that gives up leaves the answer to     *)
(* come in the socket's queue, where later requests of the handle find it. *)
(***************************************************************************)
EXTENDS Naturals, Sequences

CONSTANTS Threads, Shared, None,
          MaxShared,        \* bound: requests on the handle's socket
          MaxPrivate,       \* bound: requests on sockets of their own
          MaxFaults,        \* bound: strangers' datagrams and answers that overrun
                            \* the receive buffer
          Parts             \* datagrams of a dump

ASSUME SocketAssumption ==
    /\ Shared \notin Threads /\ None \notin Threads /\ None # Shared
    /\ MaxShared \in Nat /\ MaxPrivate \in Nat /\ MaxFaults \in Nat /\ Parts \in Nat \ {0}

VARIABLES pc,           \* thread -> where it is in Execute
          req,          \* thread -> its request
          lock,         \* the thread that holds the shared socket, or None
          sharedSeq,    \* SocketHandle.Seq
          nextSeqNr,    \* of the requests on a socket of their own
          queue,        \* socket -> datagrams to be received
          dump,         \* socket -> the dump that the kernel is in
          batch,        \* thread -> messages of its last datagram to be looked at
          res,          \* thread -> data collected
          out,          \* thread -> how its last request ended
          refused,      \* history: requests that the kernel answered with an error
          faults        \* counted against MaxFaults

sockVars == <<queue, dump, refused, faults>>
vars == <<pc, req, lock, sharedSeq, nextSeqNr, batch, res, out, sockVars>>

Sockets == Threads \cup {Shared}

\* A request wants an acknowledgement only, one object and an acknowledgement
\* after it, or a dump of which it wants only the messages of one type.
KindsOfRequest == {"ack", "one", "dump"}

Requests == [seq : Nat, sock : Sockets \cup {None}, kind : KindsOfRequest]
NoRequest == [seq |-> 0, sock |-> None, kind |-> "ack"]

\* A dump that the kernel is in: its request and the part that comes next.
Dumps == [req : Requests, next : 2..(Parts + 1)]
ASSUME NoDumpAssumption == None \notin Dumps

-----------------------------------------------------------------------------
(* Messages.                                                               *)

Data(r, n)  == [seq |-> r.seq, type |-> "data", part |-> n, multi |-> r.kind = "dump"]
Other(r, n) == [seq |-> r.seq, type |-> "other", part |-> n, multi |-> TRUE]
DoneMsg(r)  == [seq |-> r.seq, type |-> "done", part |-> 0, multi |-> FALSE]
ErrorMsg(r) == [seq |-> r.seq, type |-> "errno", part |-> 0, multi |-> FALSE]

Datagram(messages) == [from |-> "kernel", msgs |-> messages]
Overrun == [from |-> "overrun", msgs |-> << >>]
Foreign == [from |-> "other", msgs |-> << >>]

\* A dump's datagram has messages of two types.
DumpPart(r, n) ==
    IF n > Parts THEN Datagram(<<DoneMsg(r)>>) ELSE Datagram(<<Data(r, n), Other(r, n)>>)

\* What the kernel answers a request that it does not refuse.
Answer(r) ==
    CASE r.kind = "ack"  -> <<Datagram(<<DoneMsg(r)>>)>>
      [] r.kind = "one" -> <<Datagram(<<Data(r, 1)>>), Datagram(<<DoneMsg(r)>>)>>
      [] r.kind = "dump" -> <<DumpPart(r, 1)>>

\* The data that the request asks for.
Wanted(r) ==
    CASE r.kind = "ack"  -> << >>
      [] r.kind = "one"  -> <<Data(r, 1)>>
      [] r.kind = "dump" -> [n \in 1..Parts |-> Data(r, n)]

-----------------------------------------------------------------------------
Init ==
    /\ pc = [t \in Threads |-> "idle"]
    /\ req = [t \in Threads |-> NoRequest]
    /\ lock = None /\ sharedSeq = 0 /\ nextSeqNr = 0
    /\ queue = [s \in Sockets |-> << >>]
    /\ dump = [s \in Sockets |-> None]
    /\ batch = [t \in Threads |-> << >>]
    /\ res = [t \in Threads |-> << >>]
    /\ out = [t \in Threads |-> "none"]
    /\ refused = {} /\ faults = 0

\* A handle's request takes its number before it waits for the mutex.
ExecuteShared(t) ==
    /\ pc[t] = "idle" /\ sharedSeq < MaxShared
    /\ \E k \in KindsOfRequest :
         req' = [req EXCEPT ![t] = [seq |-> sharedSeq + 1, sock |-> Shared, kind |-> k]]
    /\ sharedSeq' = sharedSeq + 1
    /\ pc' = [pc EXCEPT ![t] = "lock"]
    /\ UNCHANGED <<lock, nextSeqNr, batch, res, out, sockVars>>

\* Without a handle, getNetlinkSocket opens one, with the default timeouts.
ExecutePrivate(t) ==
    /\ pc[t] = "idle" /\ nextSeqNr < MaxPrivate
    /\ \E k \in KindsOfRequest :
         req' = [req EXCEPT ![t] = [seq |-> nextSeqNr + 1, sock |-> t, kind |-> k]]
    /\ nextSeqNr' = nextSeqNr + 1
    /\ pc' = [pc EXCEPT ![t] = "send"]
    /\ UNCHANGED <<lock, sharedSeq, batch, res, out, sockVars>>

Lock(t) ==
    /\ pc[t] = "lock" /\ lock = None
    /\ lock' = t
    /\ pc' = [pc EXCEPT ![t] = "send"]
    /\ UNCHANGED <<req, sharedSeq, nextSeqNr, batch, res, out, sockVars>>

ReturnLocked(t, result) ==
    /\ out' = [out EXCEPT ![t] = result]
    /\ pc' = [pc EXCEPT ![t] = "returned"]
    /\ batch' = [batch EXCEPT ![t] = << >>]
    /\ lock' = IF req[t].sock = Shared /\ result # "failed" THEN None ELSE lock
    /\ UNCHANGED <<req, sharedSeq, nextSeqNr>>

\* The deferred calls: the mutex is unlocked, or the socket closed with all that
\* is in it.
Return(t, result) ==
    /\ out' = [out EXCEPT ![t] = result]
    /\ pc' = [pc EXCEPT ![t] = "returned"]
    /\ batch' = [batch EXCEPT ![t] = << >>]
    /\ lock' = IF req[t].sock = Shared THEN None ELSE lock
    /\ UNCHANGED <<req, sharedSeq, nextSeqNr>>

\* The caller takes the result.
Result(t) ==
    /\ pc[t] = "returned"
    /\ pc' = [pc EXCEPT ![t] = "idle"]
    /\ req' = [req EXCEPT ![t] = NoRequest]
    /\ res' = [res EXCEPT ![t] = << >>]
    /\ out' = [out EXCEPT ![t] = "none"]
    /\ UNCHANGED <<lock, sharedSeq, nextSeqNr, batch, sockVars>>

Closed(t, f, empty) == IF req[t].sock = Shared THEN f ELSE [f EXCEPT ![t] = empty]

\* The kernel answers within the system call that sends the request.
Sent(t, datagrams) ==
    /\ pc[t] = "send"
    /\ pc' = [pc EXCEPT ![t] = "receive"]
    /\ queue' = [queue EXCEPT ![req[t].sock] = @ \o datagrams]
    /\ UNCHANGED <<req, lock, sharedSeq, nextSeqNr, batch, res, out>>

Send(t) ==
    LET r == req[t] IN
    /\ r.kind = "dump" => dump[r.sock] = None
    /\ Sent(t, Answer(r))
    /\ dump' = IF r.kind = "dump" THEN [dump EXCEPT ![r.sock] = [req |-> r, next |-> 2]] ELSE dump
    /\ UNCHANGED <<refused, faults>>

\* An error: the request's own, or a dump while another one goes on.
SendRefused(t) ==
    /\ Sent(t, <<Datagram(<<ErrorMsg(req[t])>>)>>)
    /\ refused' = refused \cup {<<req[t].sock = Shared, req[t].seq>>}
    /\ UNCHANGED <<dump, faults>>

SendOverrun(t) ==
    /\ faults < MaxFaults
    /\ Sent(t, <<Overrun>>)
    /\ faults' = faults + 1
    /\ UNCHANGED <<dump, refused>>

SendFails(t) ==
    /\ pc[t] = "send"
    /\ Return(t, "failed")
    /\ UNCHANGED <<res, sockVars>>

ReceiveLeavesDump(t) ==
    LET s == req[t].sock IN
    /\ pc[t] = "receive" /\ batch[t] = << >> /\ queue[s] # << >>
    /\ Head(queue[s]).from = "kernel"
    /\ batch' = [batch EXCEPT ![t] = Head(queue[s]).msgs]
    /\ IF dump[s] = None
       THEN queue' = [queue EXCEPT ![s] = Tail(@)] /\ UNCHANGED dump
       ELSE /\ queue' = [queue EXCEPT ![s] = Append(Tail(@), DumpPart(dump[s].req, dump[s].next))]
            /\ dump' = [dump EXCEPT ![s].next = @ + 1]
    /\ UNCHANGED <<pc, req, lock, sharedSeq, nextSeqNr, res, out, refused, faults>>

\* The kernel goes on with a dump whenever a datagram is taken.
Receive(t) ==
    LET s == req[t].sock IN
    /\ pc[t] = "receive" /\ batch[t] = << >> /\ queue[s] # << >>
    /\ Head(queue[s]).from = "kernel"
    /\ batch' = [batch EXCEPT ![t] = Head(queue[s]).msgs]
    /\ IF dump[s] = None
       THEN queue' = [queue EXCEPT ![s] = Tail(@)] /\ UNCHANGED dump
       ELSE /\ queue' = [queue EXCEPT ![s] = Append(Tail(@), DumpPart(dump[s].req, dump[s].next))]
            /\ dump' = [dump EXCEPT ![s] = IF @.next > Parts THEN None
                                           ELSE [req |-> @.req, next |-> @.next + 1]]
    /\ UNCHANGED <<pc, req, lock, sharedSeq, nextSeqNr, res, out, refused, faults>>

\* A datagram that another process sent to the socket, or an overrun, ends the
\* call; what the socket still holds stays there.
ReceiveWrong(t) ==
    LET s == req[t].sock IN
    /\ pc[t] = "receive" /\ batch[t] = << >> /\ queue[s] # << >>
    /\ Head(queue[s]).from # "kernel"
    /\ Return(t, "failed")
    /\ queue' = Closed(t, [queue EXCEPT ![s] = Tail(@)], << >>)
    /\ dump' = Closed(t, dump, None)
    /\ UNCHANGED <<res, refused, faults>>

\* A timeout or a signal: the answer stays in a handle's socket.
ReceiveFails(t) ==
    /\ pc[t] = "receive" /\ batch[t] = << >>
    /\ Return(t, "failed")
    /\ queue' = Closed(t, queue, << >>)
    /\ dump' = Closed(t, dump, None)
    /\ UNCHANGED <<res, refused, faults>>

-----------------------------------------------------------------------------
(* The messages of a datagram, one by one.                                 *)

MineAlways(t, m) == TRUE

Mine(t, m) == m.seq = req[t].seq

\* Another request's: of a handle's socket, it is skipped.
SkipSeq(t) ==
    /\ batch[t] # << >> /\ ~ Mine(t, Head(batch[t]))
    /\ req[t].sock = Shared
    /\ batch' = [batch EXCEPT ![t] = Tail(@)]
    /\ UNCHANGED <<pc, req, lock, sharedSeq, nextSeqNr, res, out, sockVars>>

\* The call returns: the rest of the datagram is dropped.
Leave(t, result) ==
    /\ Return(t, result)
    /\ queue' = Closed(t, queue, << >>)
    /\ dump' = Closed(t, dump, None)
    /\ UNCHANGED <<refused, faults>>

DoneOrError(t) ==
    /\ batch[t] # << >> /\ Mine(t, Head(batch[t]))
    /\ Head(batch[t]).type \in {"done", "errno"}
    /\ Leave(t, IF Head(batch[t]).type = "done" THEN "ok" ELSE "errno")
    /\ UNCHANGED res

SkipType(t) ==
    /\ batch[t] # << >> /\ Mine(t, Head(batch[t]))
    /\ Head(batch[t]).type = "other"
    /\ batch' = [batch EXCEPT ![t] = Tail(@)]
    /\ UNCHANGED <<pc, req, lock, sharedSeq, nextSeqNr, res, out, sockVars>>

\* Data; a message that is not one of several is the whole answer.
Collect(t) ==
    LET m == Head(batch[t]) IN
    /\ batch[t] # << >> /\ Mine(t, m)
    /\ m.type = "data"
    /\ res' = [res EXCEPT ![t] = Append(@, m)]
    /\ IF m.multi
       THEN /\ batch' = [batch EXCEPT ![t] = Tail(@)]
            /\ UNCHANGED <<pc, req, lock, sharedSeq, nextSeqNr, out, sockVars>>
       ELSE Leave(t, "ok")

-----------------------------------------------------------------------------
\* Another process sends a datagram to the handle's socket.
OtherSends ==
    /\ faults < MaxFaults
    /\ faults' = faults + 1
    /\ queue' = [queue EXCEPT ![Shared] = Append(@, Foreign)]
    /\ UNCHANGED <<pc, req, lock, sharedSeq, nextSeqNr, dump, batch, res, out, refused>>

-----------------------------------------------------------------------------
Step(t) ==
    \/ Lock(t) \/ Send(t) \/ SendRefused(t) \/ SendOverrun(t) \/ SendFails(t)
    \/ Receive(t) \/ ReceiveWrong(t) \/ ReceiveFails(t)
    \/ SkipSeq(t) \/ DoneOrError(t) \/ SkipType(t) \/ Collect(t) \/ Result(t)

\* Every request has been made and has ended.
AllDone ==
    /\ sharedSeq = MaxShared /\ nextSeqNr = MaxPrivate
    /\ \A t \in Threads : pc[t] = "idle"
    /\ UNCHANGED vars

Next ==
    \/ \E t \in Threads : ExecuteShared(t) \/ ExecutePrivate(t) \/ Step(t)
    \/ OtherSends \/ AllDone

\* Threads run; no call is counted on to fail, or a receive to time out.
Fairness ==
    \A t \in Threads :
      WF_vars(Lock(t) \/ Send(t) \/ SendRefused(t) \/ Receive(t) \/ ReceiveWrong(t) \/ SkipSeq(t)
              \/ DoneOrError(t) \/ SkipType(t) \/ Collect(t) \/ Result(t))

Spec == Init /\ [][Next]_vars /\ Fairness

-----------------------------------------------------------------------------
Messages == [seq : Nat, type : {"data", "other", "done", "errno"},
             part : 0..Parts, multi : BOOLEAN]

TypeOK ==
    /\ pc \in [Threads -> {"idle", "lock", "send", "receive", "returned"}]
    /\ req \in [Threads -> Requests]
    /\ lock \in Threads \cup {None}
    /\ sharedSeq \in 0..MaxShared /\ nextSeqNr \in 0..MaxPrivate
    /\ queue \in [Sockets -> Seq([from : {"kernel", "overrun", "other"}, msgs : Seq(Messages)])]
    /\ dump \in [Sockets -> {None} \cup Dumps]
    /\ batch \in [Threads -> Seq(Messages)] /\ res \in [Threads -> Seq(Messages)]
    /\ out \in [Threads -> {"none", "ok", "errno", "failed"}]

\* A request that succeeds has collected the data of its own answer, all of it and
\* in order, whatever requests before it have left in the handle's socket when
\* they timed out, were interrupted or met a stranger's datagram.
OwnAnswer == \A t \in Threads : out[t] = "ok" => res[t] = Wanted(req[t])

\* A request that reports an errno is one that the kernel refused: no thread is
\* told of another request's failure.
OwnErrno ==
    \A t \in Threads : out[t] = "errno" => <<req[t].sock = Shared, req[t].seq>> \in refused

\* Every call of Execute returns, without any timeout: an answer that was left
\* behind, lost in an overrun or refused never makes a thread wait for ever, nor
\* keep the mutex from the others.
ExecuteReturns == \A t \in Threads : pc[t] # "idle" ~> pc[t] = "idle"
=============================================================================
