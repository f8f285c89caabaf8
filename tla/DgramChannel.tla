---------------------------- MODULE DgramChannel ----------------------------
(***************************************************************************)
(* What a SOCK_DGRAM pair promises (spec section 4.3): each half's FIFO    *)
(* holds whole messages, each a length and the capabilities sent with it.  *)
(*  - a send appends one message to the peer's FIFO;                       *)
(*  - a recv takes exactly the first message, never part of one or two at  *)
(*    once, and installs some leading part of its capabilities in the      *)
(*    receiver's table; the others are dropped.                            *)
(***************************************************************************)
EXTENDS CapChannel

Send(p, s, n, fds) ==
  /\ MaySend(p, s, fds)
  /\ chan' = [chan EXCEPT ![Peer[s]] = Append(@, [len |-> n, fds |-> fds])]
  /\ UNCHANGED table

\* Receive the first message of s into process p, installing its first m
\* capabilities; halves in D are dropped as well.
Recv(p, s, m, D) ==
  LET tb == Installed(table, p, SubSeq(Head(chan[s]).fds, 1, m))
  IN /\ table' = tb
     /\ chan' \in Dropped([chan EXCEPT ![s] = Tail(@)], D, tb)

Next ==
  \/ \E p \in Procs, s \in Socks, n \in 1..MaxBuffered, fds \in FdSeqs :
       Send(p, s, n, fds)
  \/ \E p \in Procs, s \in Socks, D \in SUBSET Socks :
       chan[s] # <<>> /\ \E m \in 0..Len(Head(chan[s]).fds) : Recv(p, s, m, D)
  \/ Common

Spec == Init /\ [][Next]_<<chan, table>>
=============================================================================
