------------------------------ MODULE UnixSock ------------------------------
(***************************************************************************)
(* The in-memory socket pair of src/fd/unixsock.cpp: two halves joined by  *)
(* socketpair(), each with a queue of received messages, a byte count      *)
(* num_recv_bytes bounded by MAX_SIZE_BUFFERS and a status.              *)
(* Kernel threads of the processes that hold the halves call sock_send,    *)
(* sock_recv (which may sleep on recv_messages_cv), sock_shutdown, close   *)
(* the capability, or poll a half's recv_signaler or send_signaler; the    *)
(* last reference going away runs the destructor.  The scheduler is        *)
(* cooperative: everything a call does between two waits is one step.     *)
(* The error slot a call sets is left out: no property reads it.           *)
(*                                                                         *)
(* Payload bytes are abstracted to their number; a message is a record     *)
(* [len, off, fds] where off is stream_data_recv and fds the capabilities  *)
(* sent with it.  A process's capability table is abstracted to the number *)
(* of slots naming each capability.                                        *)
(***************************************************************************)
EXTENDS Naturals, Sequences, FiniteSets, SequencesExt, Functions

CONSTANTS
  Socks,        \* the two halves of the pair
  Peer,         \* Peer[s]: the half that s's othersock points at
  Procs,        \* processes holding capabilities
  Threads,      \* kernel threads issuing socket calls
  Owner,        \* Owner[t]: the process of thread t
  Files,        \* other capabilities that can be passed in a message
  Passable,     \* the capabilities a sock_send may carry (halves included)
  SockType,     \* "dgram" or "stream" (both halves have the same type)
  MaxBuffered,  \* MAX_SIZE_BUFFERS
  WordBits,     \* width of size_t in the model (num_recv_bytes wraps)
  NonBlock,     \* the halves whose flags contain CLOUDABI_FDFLAG_NONBLOCK
  SendLens,     \* payload lengths a sender may pass
  RecvReqs,     \* receive requests: [len, fdsLen, flags]
  ShutHows,     \* the masks sock_shutdown may be called with
  InitTable,    \* InitTable[p][c]: slots of p naming c after socketpair()
  MaxQueue,     \* bound: messages queued on one half
  MaxRefs,      \* bound: references to one capability, slots of one process
  PollDirs,     \* the signalers a poller may wait on: "read", "write"
  NoSock        \* "no socket" for an idle thread

Caps == Socks \cup Files

ASSUME /\ Peer \in [Socks -> Socks] /\ \A s \in Socks : Peer[Peer[s]] = s /\ Peer[s] # s
       /\ Owner \in [Threads -> Procs]
       /\ SockType \in {"dgram", "stream"}
       /\ MaxBuffered \in Nat \ {0} /\ MaxBuffered < 2^WordBits
       /\ SendLens \subseteq Nat /\ NonBlock \subseteq Socks
       /\ \A r \in RecvReqs : r.flags \subseteq {"PEEK", "WAITALL"}
       /\ ShutHows \subseteq SUBSET {"RD", "WR"}
       /\ InitTable \in [Procs -> [Caps -> Nat]]
       /\ PollDirs \subseteq {"read", "write"} /\ Passable \subseteq Socks \cup Files
       /\ NoSock \notin Socks

VARIABLES
  sk,        \* sk[s]: [alive, status, q, n] of half s
  thr,       \* thr[t]: [pc, sock, req]; pc is "idle", "wait", "woken",
             \* "pollread", "pollwrite" or "pollwoken"
  table,     \* table[p][c]: number of slots of p naming capability c
  panicked   \* a kernel assertion failed

vars == <<sk, thr, table, panicked>>

Msg == [len : 0..MaxBuffered, off : 0..MaxBuffered, fds : Seq(Caps)]
Idle == [pc |-> "idle", sock |-> NoSock, req |-> CHOOSE r \in RecvReqs : TRUE]
SendFdSeqs == {<<>>} \cup {<<c>> : c \in Passable}

-----------------------------------------------------------------------------
(* Helpers of unixsock.cpp                                                 *)

\* The bytes of a message not yet delivered by a stream recv.
Remaining(m) == m.len - m.off
\* The waitall loop of sock_recv: bytes present in the whole queue.
BytesPresent(q) == FoldLeft(LAMBDA acc, m : acc + Remaining(m), 0, q)
\* unixsock::is_shutdown: the peer is destroyed or shut down for writing.
IsShutdown(s, skx) == ~skx[Peer[s]].alive \/ skx[Peer[s]].status = "shutdown"
\* num_recv_bytes is a size_t.
Word == 2^WordBits
Copies(seq, c) == Cardinality({k \in 1..Len(seq) : seq[k] = c})
\* process_fd::add_fd for every capability of seq, in order.
AddFds(tb, p, seq) == [tb EXCEPT ![p] = [c \in Caps |-> @[c] + Copies(seq, c)]]
\* Copies of capability c carried by the messages queued on the live
\* halves (a queue holds at most MaxQueue messages).
QueuedCopies(c, skx) ==
  LET held == {<<s, i>> \in Socks \X (1..MaxQueue) : skx[s].alive /\ i <= Len(skx[s].q)}
  IN Cardinality(UNION {{<<h, k>> : k \in {j \in DOMAIN skx[h[1]].q[h[2]].fds :
                                             skx[h[1]].q[h[2]].fds[j] = c}} : h \in held})
\* References to a capability: table slots, threads inside a call on it,
\* and copies queued in messages.
Refs(c, skx, th, tb) ==
  SumFunction([p \in Procs |-> tb[p][c]])
    + Cardinality({u \in Threads : th[u].pc # "idle" /\ th[u].sock = c})
    + QueuedCopies(c, skx)
min(a, b) == IF a < b THEN a ELSE b

\* The threads asleep on recv_messages_cv of half s.
Waiters(s, th) == {u \in Threads : th[u].pc = "wait" /\ th[u].sock = s}
\* cv.broadcast() on the recv_messages_cv of every half in S.
Wake(th, S) == [u \in Threads |->
                  IF th[u].pc = "wait" /\ th[u].sock \in S
                  THEN [th[u] EXCEPT !.pc = "woken"] ELSE th[u]]
\* cv.notify(): one sleeper, if any, is woken.
\* Variant of sock_send without recv_messages_cv.notify().
NotifiedNobody(s, th) == {th}
Notified(s, th) == IF Waiters(s, th) = {} THEN {th}
                   ELSE {[th EXCEPT ![u].pc = "woken"] : u \in Waiters(s, th)}

\* unixsock::is_readable, the predicate behind recv_signaler: a message is
\* queued or the peer is gone or shut down (hangup).
IsReadable(s, skx) == skx[s].q # <<>> \/ IsShutdown(s, skx)
\* unixsock::is_writeable, the predicate behind send_signaler, once its
\* asserts hold: s is connected and the peer's buffer is not full.
Writeable(s, skx) ==
  skx[s].status = "connected" /\ skx[Peer[s]].alive
    /\ skx[Peer[s]].n # MaxBuffered
\* condition_broadcast() on the signaler of every half in S: the pollers
\* attached to it (pc = how) are woken.
PollWake(th, S, how) == [u \in Threads |->
                          IF th[u].pc = how /\ th[u].sock \in S
                          THEN [th[u] EXCEPT !.pc = "pollwoken"] ELSE th[u]]

-----------------------------------------------------------------------------
(* sock_shutdown, as a function of the state it starts from.  selfLive is  *)
(* FALSE when it runs from the destructor: the peer's othersock.lock()     *)
(* then fails.  It returns the new socket states and the halves whose      *)
(* recv_messages_cv is broadcast.                                          *)

\* Variant without the broadcast that lets a reader of the peer see EOF.
ShutWrWakesMissing(o, oLive) == {}
\* SHUT_WR broadcasts the peer's recv_messages_cv if the peer can be locked.
ShutWrWakes(o, oLive) == IF oLive THEN {o} ELSE {}
\* SHUT_RD is forwarded to the peer as SHUT_WR.
ShutForwards(how) == "RD" \in how

\* other->sock_shutdown(CLOUDABI_SHUT_WR), called on o on behalf of s.
InnerShutWr(o, s, selfLive, skx) ==
  IF skx[o].status # "connected"
  THEN [sk |-> skx, wake |-> {}]
  ELSE [sk |-> [skx EXCEPT ![o].status = "shutdown"],
        wake |-> ShutWrWakes(s, selfLive)]

SockShutdown(s, how, selfLive, skx) ==
  LET o == Peer[s]
      oLive == skx[o].alive
      fwd == IF oLive /\ ShutForwards(how) THEN InnerShutWr(o, s, selfLive, skx)
             ELSE [sk |-> skx, wake |-> {}]
  IN IF skx[s].status # "connected"
     THEN [sk |-> skx, wake |-> {}]
     ELSE IF "WR" \in how
     THEN [sk |-> [fwd.sk EXCEPT ![s].status = "shutdown"],
           wake |-> fwd.wake \cup ShutWrWakes(o, oLive)]
     ELSE fwd

\* unixsock::~unixsock: shut down both ways, reset the peer, drop the queue
\* (and the capabilities queued in it).
Destructor(s, skx, th) ==
  LET o == Peer[s]
      r == SockShutdown(s, {"RD", "WR"}, FALSE, skx)
  IN [sk |-> [r.sk EXCEPT ![s].alive = FALSE, ![s].q = <<>>, ![s].n = 0],
      th |-> Wake(th, r.wake)]

\* The halves named by the capability lists of the messages of q.
QueuedSocks(q) == UNION {Range(q[i].fds) : i \in 1..Len(q)} \cap Socks

\* Variant of Release whose destructor drops the queue without releasing
\* the capabilities queued in it (remove_all of fd_list with a no-op
\* deallocator).
RECURSIVE ReleaseNoCascade(_, _, _, _)
ReleaseNoCascade(S, skx, th, tb) ==
  LET dead == {s \in S : skx[s].alive /\ Refs(s, skx, th, tb) = 0}
  IN IF dead = {} THEN [sk |-> skx, th |-> th]
     ELSE LET s == CHOOSE x \in dead : TRUE
              d == Destructor(s, skx, th)
          IN ReleaseNoCascade(S \ {s}, d.sk, d.th, tb)

\* Dropping references to the halves in S: a half left with none runs its
\* destructor, whose remove_all over recv_messages deallocates every
\* fd_list entry and so drops the references to the halves queued there,
\* which may in turn run their destructors.  A half destroyed this way
\* finds its peer already unlockable when the peer is the one whose
\* destructor released it.
RECURSIVE Release(_, _, _, _)
Release(S, skx, th, tb) ==
  LET dead == {s \in S : skx[s].alive /\ Refs(s, skx, th, tb) = 0}
  IN IF dead = {} THEN [sk |-> skx, th |-> th]
     ELSE LET s == CHOOSE x \in dead : TRUE
              d == Destructor(s, skx, th)
          IN Release((S \ {s}) \cup QueuedSocks(skx[s].q), d.sk, d.th, tb)

-----------------------------------------------------------------------------
(* sock_send                                                               *)

\* The payload is cut to the room left in the peer's buffer.
SendTotalUncapped(n, used) == n
SendTotal(n, used) ==
  IF n + used > MaxBuffered THEN MaxBuffered - used ELSE n

\* sock_send returns error e having changed nothing.
SendFails(t, s, e) == UNCHANGED <<sk, thr, table, panicked>>

Panic == panicked' = TRUE /\ UNCHANGED <<sk, thr, table>>

\* Variant of sock_send that never broadcasts the peer's recv_signaler.
RecvSignaledNone(o) == {}
\* sock_send broadcasts the recv_signaler of the half it queued on.
RecvSignaled(o) == {o}

Send(t, s, n, fds) ==
  LET o == Peer[s]
      p == Owner[t]
      total == SendTotal(n, sk[o].n)
  IN
  /\ ~panicked
  /\ thr[t].pc = "idle"
  /\ table[p][s] > 0
  /\ Len(sk[o].q) < MaxQueue
  /\ \A k \in 1..Len(fds) : Refs(fds[k], sk, thr, table) < MaxRefs
  /\ IF sk[s].status = "shutdown" THEN SendFails(t, s, "EPIPE")
     ELSE IF ~sk[o].alive THEN Panic                        \* assert(other)
     ELSE IF sk[o].n > MaxBuffered THEN Panic               \* is_writeable's assert
     ELSE IF sk[o].n = MaxBuffered THEN SendFails(t, s, "EAGAIN")
     ELSE IF \E k \in 1..Len(fds) : table[p][fds[k]] = 0 THEN SendFails(t, s, "EBADF")
     ELSE LET msg == [len |-> total, off |-> 0, fds |-> fds]
              sk1 == [sk EXCEPT ![o].q = Append(@, msg), ![o].n = @ + total]
          IN /\ sk' = sk1
             /\ thr' \in Notified(o, PollWake(thr, RecvSignaled(o), "pollread"))
             /\ UNCHANGED <<table, panicked>>

-----------------------------------------------------------------------------
(* sock_recv                                                               *)

\* The wait condition at the top of sock_recv's loop.
RecvReady(s, r, skx) ==
  IF SockType = "stream" /\ "WAITALL" \in r.flags
  THEN BytesPresent(skx[s].q) >= r.len
  ELSE skx[s].q # <<>>

\* The stream copy loop: walk the queue from message i, whose
\* stream_data_recv is sdr, with room bytes left in the iovecs.  Returns
\* the bytes written, the messages fully consumed, whether the message
\* where it stopped was partly read, and that message's new offset.
\* Variant of the copy loop without the fd read boundary: it reads on into
\* a message that carries capabilities.
RECURSIVE StreamWalkNoBoundary(_, _, _, _, _)
StreamWalkNoBoundary(q, i, sdr, room, cons) ==
  IF room = 0 \/ i > Len(q)
  THEN [written |-> 0, consumed |-> cons, nextRead |-> FALSE, sdr |-> sdr]
  ELSE
    LET copy == min(room, q[i].len - sdr)
        j == i + 1
    IN IF q[i].len - sdr - copy > 0
       THEN [written |-> copy, consumed |-> cons, nextRead |-> TRUE, sdr |-> sdr + copy]
       ELSE [StreamWalkNoBoundary(q, j, IF j <= Len(q) THEN q[j].off ELSE 0,
                                  room - copy, cons + 1) EXCEPT !.written = @ + copy]

RECURSIVE StreamWalk(_, _, _, _, _)
StreamWalk(q, i, sdr, room, cons) ==
  IF room = 0 \/ i > Len(q)
  THEN [written |-> 0, consumed |-> cons, nextRead |-> FALSE, sdr |-> sdr]
  ELSE
    LET copy == min(room, q[i].len - sdr)
    IN IF q[i].len - sdr - copy > 0
       THEN [written |-> copy, consumed |-> cons, nextRead |-> TRUE, sdr |-> sdr + copy]
       ELSE LET j == i + 1
                rest == IF j <= Len(q) /\ q[j].fds # <<>>   \* fd read boundary
                        THEN [written |-> 0, consumed |-> cons + 1,
                              nextRead |-> FALSE, sdr |-> q[j].off]
                        ELSE StreamWalk(q, j, IF j <= Len(q) THEN q[j].off ELSE 0,
                                        room - copy, cons + 1)
            IN [rest EXCEPT !.written = @ + copy]

\* The capabilities the stream fd loop hands out: for each of the fdMsgs
\* messages it reads recv_messages->data->fd_list, the head's list, which a
\* non-peeking call clears after the first pass.
StreamFdsOffered(q, fdMsgs, peek) ==
  IF fdMsgs = 0 THEN <<>>
  ELSE IF peek THEN FlattenSeq([k \in 1..fdMsgs |-> q[1].fds])
  ELSE q[1].fds

\* The queue after a non-peeking stream recv: consumed messages popped, the
\* partly read one advanced (and its list cleared if it was the head).
\* Variant that advances the partly read head but keeps its fd list.
StreamQueueAfterKeepFds(q, w) ==
  LET rest == SubSeq(q, w.consumed + 1, Len(q))
  IN IF w.nextRead THEN [rest EXCEPT ![1].off = w.sdr] ELSE rest
StreamQueueAfter(q, w) ==
  LET rest == SubSeq(q, w.consumed + 1, Len(q))
  IN IF w.nextRead
     THEN [rest EXCEPT ![1].off = w.sdr,
                       ![1].fds = IF w.consumed = 0 THEN <<>> ELSE @]
     ELSE rest

\* The thread leaves sock_recv: its reference to s is dropped, and so are
\* the fd_list entries the fd loop deallocated without installing them.
RecvReturns(t, s, skx, tb, th) ==
  LET rel == Release({s} \cup QueuedSocks(sk[s].q), skx, [th EXCEPT ![t] = Idle], tb)
  IN /\ \A c \in Caps : tb[Owner[t]][c] <= MaxRefs    \* bound on installed slots
     /\ sk' = rel.sk
     /\ thr' = rel.th
     /\ table' = tb
     /\ UNCHANGED panicked

\* The half whose send_signaler a non-peeking recv on s broadcasts once it
\* has taken bytes off the queue: s itself.
SendSignaled(s, peek, took) == IF ~peek /\ took THEN {s} ELSE {}

\* The datagram queue after a recv: the head is unlinked unless peeking.
DgramQueueAfter(q, peek) == IF peek THEN q ELSE Tail(q)

\* Variant that unlinks the message first and then reads the fd list
\* through recv_messages, which now names the next message.
DgramRecvFdsAfterPop(t, s, r) ==
  LET m == Head(sk[s].q)
      peek == "PEEK" \in r.flags
      rest == DgramQueueAfter(sk[s].q, peek)
      fds == IF rest = <<>> THEN <<>> ELSE Head(rest).fds
      given == SubSeq(fds, 1, min(r.fdsLen, Len(fds)))
      sk1 == [sk EXCEPT ![s].q = rest, ![s].n = (@ - min(r.len, m.len)) % Word]
  IN RecvReturns(t, s, sk1, AddFds(table, Owner[t], given),
                 PollWake(thr, SendSignaled(s, peek, TRUE), "pollwrite"))

DgramRecv(t, s, r) ==
  LET m == Head(sk[s].q)
      peek == "PEEK" \in r.flags
      copied == min(r.len, m.len)
      given == SubSeq(m.fds, 1, min(r.fdsLen, Len(m.fds)))
      sk1 == [sk EXCEPT ![s].q = DgramQueueAfter(@, peek),
                        ![s].n = (@ - copied) % Word]
  IN RecvReturns(t, s, sk1, AddFds(table, Owner[t], given),
                 PollWake(thr, SendSignaled(s, peek, TRUE), "pollwrite"))

StreamRecv(t, s, r) ==
  LET q == sk[s].q
      peek == "PEEK" \in r.flags
      w == StreamWalk(q, 1, q[1].off, r.len, 0)
      offered == StreamFdsOffered(q, w.consumed + (IF w.nextRead THEN 1 ELSE 0), peek)
      given == SubSeq(offered, 1, min(r.fdsLen, Len(offered)))
      sk1 == [sk EXCEPT ![s].q = IF peek THEN @ ELSE StreamQueueAfter(@, w),
                        ![s].n = (@ - w.written) % Word]
  IN RecvReturns(t, s, sk1, AddFds(table, Owner[t], given),
                 PollWake(thr, SendSignaled(s, peek, w.written > 0), "pollwrite"))

\* One pass of sock_recv's wait loop, from its top.
RecvLoop(t, s, r) ==
  IF RecvReady(s, r, sk)
  THEN IF SockType = "dgram" THEN DgramRecv(t, s, r) ELSE StreamRecv(t, s, r)
  ELSE IF IsShutdown(s, sk)                                 \* EOF
  THEN RecvReturns(t, s, sk, table, thr)
  ELSE IF s \in NonBlock                                    \* EAGAIN
  THEN RecvReturns(t, s, sk, table, thr)
  ELSE \* recv_messages_cv.wait()
       /\ thr' = [thr EXCEPT ![t] = [pc |-> "wait", sock |-> s, req |-> r]]
       /\ UNCHANGED <<sk, table, panicked>>

RecvStart(t, s, r) ==
  /\ ~panicked
  /\ thr[t].pc = "idle"
  /\ table[Owner[t]][s] > 0
  /\ RecvLoop(t, s, r)

\* A thread woken from recv_messages_cv runs the loop again.
RecvRetry(t) ==
  /\ ~panicked
  /\ thr[t].pc = "woken"
  /\ RecvLoop(t, thr[t].sock, thr[t].req)

-----------------------------------------------------------------------------
(* sock_shutdown and close                                                 *)

Shutdown(t, s, how) ==
  LET r == SockShutdown(s, how, TRUE, sk)
  IN /\ ~panicked
     /\ thr[t].pc = "idle"
     /\ table[Owner[t]][s] > 0
     /\ sk' = r.sk
     /\ thr' = Wake(thr, r.wake)
     /\ UNCHANGED <<table, panicked>>

\* process_fd::close_fd: the slot's reference is dropped.
Close(t, c) ==
  LET p == Owner[t]
      tb == [table EXCEPT ![p][c] = @ - 1]
      rel == IF c \in Socks THEN Release({c}, sk, thr, tb) ELSE [sk |-> sk, th |-> thr]
  IN /\ ~panicked
     /\ thr[t].pc = "idle"
     /\ table[p][c] > 0
     /\ table' = tb
     /\ sk' = rel.sk
     /\ thr' = rel.th
     /\ UNCHANGED panicked

-----------------------------------------------------------------------------
(* Polling a half: get_read_signaler / get_write_signaler, then attach.    *)
(* attach runs the already-satisfied hook (unixsock_is_readable or         *)
(* unixsock_is_writeable) and returns at once when it holds; otherwise the *)
(* poller sleeps, holding its reference to the half, until a               *)
(* condition_broadcast() of that signaler wakes it.                        *)

PollStart(t, s, dir) ==
  LET o == Peer[s]
      sleep(how) == /\ thr' = [thr EXCEPT ![t] = [pc |-> how, sock |-> s,
                                                  req |-> Idle.req]]
                    /\ UNCHANGED <<sk, table, panicked>>
  IN
  /\ ~panicked
  /\ thr[t].pc = "idle"
  /\ table[Owner[t]][s] > 0
  /\ dir \in PollDirs
  /\ IF dir = "read"
     THEN IF IsReadable(s, sk) THEN UNCHANGED vars ELSE sleep("pollread")
     ELSE IF sk[s].status # "connected" THEN UNCHANGED vars      \* EPIPE
     ELSE IF ~sk[o].alive THEN Panic                             \* assert(other)
     ELSE IF sk[o].n > MaxBuffered THEN Panic
     ELSE IF Writeable(s, sk) THEN UNCHANGED vars
     ELSE sleep("pollwrite")

\* A woken poller returns from the poll and drops its reference.
PollReturn(t) ==
  LET rel == Release({thr[t].sock}, sk, [thr EXCEPT ![t] = Idle], table)
  IN /\ ~panicked
     /\ thr[t].pc = "pollwoken"
     /\ sk' = rel.sk
     /\ thr' = rel.th
     /\ UNCHANGED <<table, panicked>>

-----------------------------------------------------------------------------
(* unixsock::read and unixsock::write, the fd_t byte interface: one iovec  *)
(* of count bytes, no FD slots, no flags.                                  *)

ReadReq(n) == [len |-> n, fdsLen |-> 0, flags |-> {}]

\* sock_recv with ri_fds_len = 0: queued capabilities are dropped, so
\* ro_fdslen is 0 and the assert after the call holds.
Read(t, s, n) == RecvStart(t, s, ReadReq(n))

Write(t, s, n) == Send(t, s, n, <<>>)

-----------------------------------------------------------------------------

\* unixsock::socketpair has joined the two halves; the creating call has
\* installed them (and any other capability) into the processes' tables.
Init ==
  /\ sk = [s \in Socks |-> [alive |-> TRUE, status |-> "connected", q |-> <<>>,
                            n |-> 0]]
  /\ thr = [t \in Threads |-> Idle]
  /\ table = InitTable
  /\ panicked = FALSE

Next ==
  \E t \in Threads :
    \/ \E s \in Socks, n \in SendLens, fds \in SendFdSeqs : Send(t, s, n, fds)
    \/ \E s \in Socks, r \in RecvReqs : RecvStart(t, s, r)
    \/ RecvRetry(t)
    \/ \E s \in Socks, how \in ShutHows : Shutdown(t, s, how)
    \/ \E c \in Caps : Close(t, c)
    \/ \E s \in Socks, dir \in PollDirs : PollStart(t, s, dir)
    \/ PollReturn(t)
    \/ \E s \in Socks, r \in RecvReqs : Read(t, s, r.len)
    \/ \E s \in Socks, n \in SendLens : Write(t, s, n)

\* The scheduler eventually runs a thread that a cv or a signaler woke.
Fairness == \A t \in Threads : WF_vars(RecvRetry(t)) /\ WF_vars(PollReturn(t))

Spec == Init /\ [][Next]_vars /\ Fairness

-----------------------------------------------------------------------------
(* Properties                                                              *)

TypeOK ==
  /\ sk \in [Socks -> [alive : BOOLEAN, status : {"connected", "shutdown"},
                       q : Seq(Msg), n : 0..MaxBuffered]]
  /\ \A t \in Threads : thr[t] = Idle \/
        thr[t] \in [pc : {"wait", "woken", "pollread", "pollwrite", "pollwoken"},
                    sock : Socks, req : RecvReqs \cup {ReadReq(r.len) : r \in RecvReqs}]
  /\ table \in [Procs -> [Caps -> Nat]]
  /\ panicked \in BOOLEAN

\* No kernel assertion fires: sock_send's assert(other), is_writeable's
\* assert(num_recv_bytes <= MAX_SIZE_BUFFERS).
NoKernelPanic == ~panicked

\* The kernel never mints capabilities: the slots a step adds for a
\* capability are moved out of the queues (a recv that consumes) or copied
\* from copies still queued (a PEEK, which leaves every queue as it was).
\* Catches an fd loop of sock_recv that installs a list twice or leaves a
\* delivered list in the queue to be delivered again.
NoCapabilityMinted ==
  [][\A c \in Files :
       LET added == SumFunction([p \in Procs |-> table'[p][c] - table[p][c]])
       IN added > 0 =>
            added <= IF \A s \in Socks : sk'[s].q = sk[s].q
                     THEN QueuedCopies(c, sk)
                     ELSE QueuedCopies(c, sk) - QueuedCopies(c, sk')]_vars

\* A live half is referenced by something: the last close, the
\* last call returning, and the destructor of a half whose queue held the
\* last copy of another (the cascade of ~unixsock's remove_all) each run the
\* destructor.  Reference cycles through queues satisfy this while being
\* unreachable, which no state predicate over counts can tell apart.
LiveHalfReferenced ==
  \A s \in Socks : sk[s].alive => Refs(s, sk, thr, table) > 0

\* A thread asleep in sock_recv whose wait condition holds (data, or a
\* peer that is gone or shut down) is eventually woken and returns, or the
\* condition stops holding: sock_send's notify, sock_shutdown's broadcast
\* and the destructor between them lose no wake-up.
Stranded(t) == thr[t].pc = "wait" /\
               (RecvReady(thr[t].sock, thr[t].req, sk) \/ IsShutdown(thr[t].sock, sk))
ReaderNotStranded == \A t \in Threads : Stranded(t) ~> ~Stranded(t)

\* A poller attached to a half's signaler whose predicate holds (for
\* recv_signaler: a message or a hangup; for send_signaler: room in the
\* peer's buffer) is eventually woken, or the predicate stops holding:
\* every transition that makes is_readable or is_writeable true broadcasts
\* the signaler a poller of that predicate sleeps on (spec 4.1).
PollStranded(t) ==
  \/ thr[t].pc = "pollread" /\ IsReadable(thr[t].sock, sk)
  \/ thr[t].pc = "pollwrite" /\ Writeable(thr[t].sock, sk)
PollerNotStranded == \A t \in Threads : PollStranded(t) ~> ~PollStranded(t)

\* A poller of recv_signaler whose half has a message queued is eventually
\* woken, or the queue empties again: sock_send's condition_broadcast on
\* the peer's recv_signaler, and attach's already-satisfied check, leave no
\* gap between a message arriving and a poller sleeping.
DataPending(t) == thr[t].pc = "pollread" /\ sk[thr[t].sock].q # <<>>
ReadPollerGetsData == \A t \in Threads : DataPending(t) ~> ~DataPending(t)
=============================================================================
