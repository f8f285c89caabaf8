----------------------------- MODULE CapChannel -----------------------------
(***************************************************************************)
(* What the two kinds of socket pair promise in common (spec 4.2, 4.3):    *)
(* each half has a FIFO of what was sent to it, processes hold slots for   *)
(* capabilities, a close drops one slot, and a half's FIFO (with the       *)
(* capabilities queued in it) is dropped only once no process has a slot   *)
(* for the half.  StreamChannel and DgramChannel say what the FIFO holds   *)
(* and what a send and a recv do to it.                                    *)
(***************************************************************************)
EXTENDS Naturals, Sequences, SequencesExt

CONSTANTS Procs, Socks, Files, Peer, InitTable,
  MaxBuffered,  \* a send queues at most this many bytes (the buffer size)
  FdSeqs        \* the capability lists a send may carry

VARIABLES
  chan,   \* chan[s]: what is queued for half s
  table   \* table[p][c]: the slots process p has for capability c

Caps == Socks \cup Files

\* table after process p installs every capability of seq.
Installed(tb, p, seq) ==
  [tb EXCEPT ![p] = [c \in Caps |-> @[c] + Cardinality({k \in 1..Len(seq) : seq[k] = c})]]

\* The FIFOs after those of the halves in D are dropped, provided no
\* process has a slot for them in tb.
Dropped(ch, D, tb) ==
  IF \A s \in D, p \in Procs : tb[p][s] = 0
  THEN {[s \in Socks |-> IF s \in D THEN <<>> ELSE ch[s]]}
  ELSE {}

\* A process sending on s holds s and every capability it sends.
MaySend(p, s, fds) ==
  /\ table[p][s] > 0
  /\ \A k \in 1..Len(fds) : table[p][fds[k]] > 0

Close(p, c, D) ==
  LET tb == [table EXCEPT ![p][c] = @ - 1]
  IN /\ table[p][c] > 0
     /\ table' = tb
     /\ chan' \in Dropped(chan, D, tb)

Drop(D) ==
  /\ chan' \in Dropped(chan, D, table)
  /\ UNCHANGED table

Init ==
  /\ chan = [s \in Socks |-> <<>>]
  /\ table = InitTable

\* The steps that are the same for both kinds.
Common ==
  \/ \E p \in Procs, c \in Caps, D \in SUBSET Socks : Close(p, c, D)
  \/ \E D \in SUBSET Socks : Drop(D)
=============================================================================
