---------------------------- MODULE StreamChannel ----------------------------
(***************************************************************************)
(* What a SOCK_STREAM pair promises (spec section 4.3), with no reference  *)
(* to messages, offsets or threads: each half's FIFO holds bytes, and the  *)
(* capabilities sent with a payload travel on its first byte.              *)
(*  - a send appends its bytes to the peer's FIFO;                         *)
(*  - a recv takes a non-empty prefix of the FIFO in which no byte but the *)
(*    first carries capabilities (the fd read boundary), and installs some *)
(*    leading part of the first byte's capabilities in the receiver's      *)
(*    table; the others are dropped.                                       *)
(***************************************************************************)
EXTENDS CapChannel

\* The bytes of a payload of n bytes sent with capabilities fds.
Bytes(n, fds) == [k \in 1..n |-> IF k = 1 THEN fds ELSE <<>>]

Send(p, s, n, fds) ==
  /\ MaySend(p, s, fds)
  /\ chan' = [chan EXCEPT ![Peer[s]] = @ \o Bytes(n, fds)]
  /\ UNCHANGED table

\* Receive k bytes of s's FIFO into process p, installing the first m
\* capabilities of the first byte; halves in D are dropped as well.
Recv(p, s, k, m, D) ==
  LET tb == Installed(table, p, SubSeq(chan[s][1], 1, m))
  IN /\ \A j \in 2..k : chan[s][j] = <<>>
     /\ table' = tb
     /\ chan' \in Dropped([chan EXCEPT ![s] = SubSeq(@, k + 1, Len(@))], D, tb)

Next ==
  \/ \E p \in Procs, s \in Socks, n \in 1..MaxBuffered, fds \in FdSeqs :
       Send(p, s, n, fds)
  \/ \E p \in Procs, s \in Socks, D \in SUBSET Socks :
       \E k \in 1..Len(chan[s]) : \E m \in 0..Len(chan[s][1]) :
         Recv(p, s, k, m, D)
  \/ Common

Spec == Init /\ [][Next]_<<chan, table>>
=============================================================================
