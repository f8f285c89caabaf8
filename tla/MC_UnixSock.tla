----------------------------- MODULE MC_UnixSock -----------------------------
(* Small instances of UnixSock for TLC: one pair A/B, process p1 holding A *)
(* and a file f1, process p2 holding B, one or two threads per process.   *)
EXTENDS UnixSock, TLC

CONSTANTS A, B, p1, p2, t1, t2, t3, f1

MCSocks == {A, B}
MCPeer == (A :> B) @@ (B :> A)
MCProcs == {p1, p2}
MCFiles == {f1}
\* t1 runs in p1; t2 and t3 in p2 (two readers of B).
MCThreads2 == {t1, t2}
MCThreads3 == {t1, t2, t3}
MCOwner2 == (t1 :> p1) @@ (t2 :> p2)
MCOwner3 == (t1 :> p1) @@ (t2 :> p2) @@ (t3 :> p2)
MCInitTable ==
  [p \in MCProcs |-> [c \in MCSocks \cup MCFiles |->
      IF (p = p1 /\ c \in {A, f1}) \/ (p = p2 /\ c = B) THEN 1 ELSE 0]]

\* Only half A may be passed: queued on B it dies with B (the cascade),
\* and a holder of B may queue it on A itself.
MCPassA == {A}

\* Without files to pass (for questions about wake-ups, not fds).
MCNoFiles == {}
MCInitTableNoFiles == [p \in MCProcs |-> [c \in MCSocks |-> IF MCOwner2[t1] = p THEN (IF c = A THEN 1 ELSE 0) ELSE (IF c = B THEN 1 ELSE 0)]]

\* Receive requests.  Whole: buffers as large as any message, no flags.
MCReqsWhole == [len : {2}, fdsLen : {0, 1}, flags : {{}}]
MCReqsWaitallNoFds == [len : {1, 2}, fdsLen : {0}, flags : {{}, {"WAITALL"}}]
\* Short buffers (datagram truncation).
MCReqsShort == [len : {1}, fdsLen : {0, 1}, flags : {{}}]
\* Stream readers that may ask for WAITALL.
MCReqsWaitall == [len : {1, 2}, fdsLen : {0, 1}, flags : {{}, {"WAITALL"}}]
\* Readers that may PEEK.
MCReqsPeek == [len : {1, 2}, fdsLen : {0, 1}, flags : {{}, {"PEEK"}}]
MCReqsPeekFds == [len : {2}, fdsLen : {2}, flags : {{"PEEK"}}]

MCNonBlockA == {A}
MCNonBlockNone == {}
\* Readers that peek or take a whole two-byte datagram, without FD slots.
MCReqsPeekWhole == [len : {2}, fdsLen : {0}, flags : {{}, {"PEEK"}}]
MCReqsPeekNoFds == [len : {1}, fdsLen : {0}, flags : {{}, {"PEEK"}}]

MCHowsBoth == {{"RD", "WR"}}
MCHowsAll == {{"RD"}, {"WR"}, {"RD", "WR"}}

\* Which signalers pollers may attach to.
MCPollNone == {}
MCPollWrite == {"write"}
MCPollBoth == {"read", "write"}

\* The stream refinement: the bytes of half s not yet delivered, message by
\* message, each message's capabilities on its first remaining byte; a
\* destroyed half has none.
ChanOf(q) ==
  FlattenSeq([i \in 1..Len(q) |->
                [k \in 1..Remaining(q[i]) |-> IF k = 1 THEN q[i].fds ELSE <<>>]])
Chan == [s \in Socks |-> IF sk[s].alive THEN ChanOf(sk[s].q) ELSE <<>>]
Channel == INSTANCE StreamChannel WITH chan <- Chan, FdSeqs <- SendFdSeqs

\* Without PEEK, a stream pair behaves as two FIFOs of bytes on which the
\* capabilities of a sock_send ride on its first byte: every sock_send,
\* sock_recv (its copy loop, fd read boundary and fd loop), close and
\* destructor of unixsock.cpp is a step of StreamChannel.
StreamRefinesChannel == Channel!Spec

\* The datagram refinement: the queue as whole messages, each its length
\* and capabilities; a destroyed half has none.
DgramChanOf(q) == [i \in 1..Len(q) |-> [len |-> q[i].len, fds |-> q[i].fds]]
DgramChan == [s \in Socks |-> IF sk[s].alive THEN DgramChanOf(sk[s].q) ELSE <<>>]
Datagrams == INSTANCE DgramChannel WITH chan <- DgramChan, FdSeqs <- SendFdSeqs

\* Without PEEK, a datagram pair behaves as two FIFOs of whole messages:
\* every sock_send (with its truncation to the room left), sock_recv
\* (the datagram path and its fd loop), close and destructor of
\* unixsock.cpp is a step of DgramChannel.
DgramRefinesChannel == Datagrams!Spec
=============================================================================
