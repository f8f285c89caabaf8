----------------------------- MODULE IfStoreSock -----------------------------
(***************************************************************************)
(* The control socket of src/fd/ifstoresock.cpp: a one-slot mailbox whose  *)
(* peer is the kernel.  sock_send waits on write_cv until the slot is      *)
(* free, runs a textual command and leaves the reply (message_buf) and the *)
(* numbers of the capabilities it installed (message_fds) for the next     *)
(* sock_recv, which drains them, frees the slot and signals write_cv.      *)
(*                                                                         *)
(* Commands and arguments are abstracted to what decides the control path: *)
(* the command name and a class of argument.  Reply text is abstracted to  *)
(* its kind.  Process capability tables are modelled with slot numbers,    *)
(* because the reply carries numbers that only mean something in the      *)
(* table they were allocated in.  known[p] is a ghost variable: the slot   *)
(* numbers process p has been told about.                                  *)
(***************************************************************************)
EXTENDS Naturals, Sequences, FiniteSets, FiniteSetsExt, SequencesExt

CONSTANTS
  Procs,        \* processes holding the control socket
  Threads,      \* kernel threads calling it
  Owner,        \* Owner[t]: the process of thread t
  MaxSlots,     \* bound: slots of a process table (numbers 0..MaxSlots-1)
  NonBlock,     \* the socket's flags contain CLOUDABI_FDFLAG_NONBLOCK
  Requests,     \* commands a sender may send: [cmd, arg, fits]
  FdsLens,      \* ri_fds_len values a receiver may pass
  ShutHows,     \* masks sock_shutdown may be called with
  NoProc        \* no process

Slots == 0..MaxSlots-1
CtlSlot == 0                         \* where each process holds the socket
Kinds == {"ctl", "reverse", "pseudo", "rawsock"}
Replies == {"OK", "ERROR", "NOIFACE", "INFO"}

ASSUME /\ Owner \in [Threads -> Procs] /\ MaxSlots \in Nat \ {0}
       /\ NonBlock \in BOOLEAN /\ FdsLens \subseteq Nat
       /\ \A r \in Requests :
            /\ r.cmd \in {"LIST", "PSEUDOPAIR", "COPY", "MAC", "HWTYPE", "RAWSOCK", "OTHER"}
            /\ r.arg \in {"null", "empty", "num", "junk", "iface", "noiface"}
            /\ r.fits \in BOOLEAN
       /\ NoProc \notin Procs

VARIABLES
  status,    \* sockstatus_t of the socket
  hasMsg,    \* has_message
  reply,     \* the kind of message_buf
  msgFds,    \* message_fds: slot numbers, in order
  msgProc,   \* ghost: the process whose table msgFds was allocated in
  table,     \* table[p][i]: the kind of capability in slot i, or "empty"
  known,     \* ghost: known[p], the slot numbers p was told about
  thr,       \* thr[t]: [pc, req, fdsLen]
  ret,       \* ret[t]: what t's last call returned
  panicked   \* a kernel assertion failed or a null pointer was dereferenced

vars == <<status, hasMsg, reply, msgFds, msgProc, table, known, thr, ret, panicked>>

NoReq == CHOOSE r \in Requests : TRUE
Idle == [pc |-> "idle", req |-> NoReq, fdsLen |-> 0]
NoRet == [op |-> "none", err |-> "none", reply |-> "none", nfds |-> 0]

-----------------------------------------------------------------------------
(* process_fd::add_fd: the lowest free slot (modelled from the spec).      *)

\* A slot is free when its fd_mapping_t holds no fd: the mapping is unused
\* and can be reused (process_fd.hpp).
FreeSlots(row) == {i \in Slots : row[i] = "empty"}
\* Variant that allocates past the highest used slot instead of reusing one.
LowestFreeAfterTop(row) == Max({i \in Slots : row[i] # "empty"}) + 1
LowestFree(row) == Min(FreeSlots(row))

\* add_fd for each kind of ks in order: the new table row and the numbers.
RECURSIVE AddFds(_, _)
AddFds(row, ks) ==
  IF ks = <<>> THEN [row |-> row, nums |-> <<>>]
  ELSE LET i == LowestFree(row)
           rest == AddFds([row EXCEPT ![i] = Head(ks)], Tail(ks))
       IN [row |-> rest.row, nums |-> <<i>> \o rest.nums]

-----------------------------------------------------------------------------
(* The command interpreter of sock_send (lines 107-223): the reply, the    *)
(* capabilities it installs with add_fd in order, whether their numbers    *)
(* become message_fds, and whether it dereferences a null arg.             *)

Outcome(rp, ks, pend) == [reply |-> rp, kinds |-> ks, pend |-> pend, crash |-> FALSE]
Crash == [reply |-> "ERROR", kinds |-> <<>>, pend |-> FALSE, crash |-> TRUE]

\* atoi_s(arg) succeeds and 0 <= filetype <= 0xff.
ParsesFiletype(arg) == arg = "num"

Interpret(cmd, arg) ==
  IF cmd = "LIST" THEN Outcome("INFO", <<>>, FALSE)
  ELSE IF cmd = "PSEUDOPAIR"
  THEN IF arg = "null" \/ ~ParsesFiletype(arg)
       THEN Outcome("ERROR", <<"reverse">>, FALSE)     \* reverse_fd already added
       ELSE Outcome("OK", <<"reverse", "pseudo">>, TRUE)
  ELSE IF cmd = "COPY" THEN Outcome("OK", <<"ctl">>, TRUE)
  ELSE IF arg = "null" THEN Crash                        \* arg[0] with arg == nullptr
  ELSE IF arg = "empty" THEN Outcome("ERROR", <<>>, FALSE)
  ELSE IF arg # "iface" THEN Outcome("NOIFACE", <<>>, FALSE)
  ELSE IF cmd \in {"MAC", "HWTYPE"} THEN Outcome("INFO", <<>>, FALSE)
  ELSE IF cmd = "RAWSOCK" THEN Outcome("OK", <<"rawsock">>, TRUE)
  ELSE Outcome("ERROR", <<>>, FALSE)

-----------------------------------------------------------------------------
(* The two condition variables (modelled from the spec).                   *)

Waiting(pc, th) == {u \in Threads : th[u].pc = pc}
\* cv.notify(): one thread waiting with pc w, if any, becomes runnable as pc r.
Notify(th, w, r) == IF Waiting(w, th) = {} THEN {th}
                    ELSE {[th EXCEPT ![u].pc = r] : u \in Waiting(w, th)}

Finish(t, op, e, rp, n) ==
  ret' = [ret EXCEPT ![t] = [op |-> op, err |-> e, reply |-> rp, nfds |-> n]]

Fails(t, op, e) ==
  /\ thr' = [thr EXCEPT ![t] = Idle]
  /\ Finish(t, op, e, "none", 0)
  /\ UNCHANGED <<status, hasMsg, reply, msgFds, msgProc, table, known, panicked>>

Panic == /\ panicked' = TRUE
         /\ UNCHANGED <<status, hasMsg, reply, msgFds, msgProc, table, known, thr, ret>>

-----------------------------------------------------------------------------
(* sock_send                                                               *)

\* message_fds after a command: the numbers it added, in order, if the
\* command returns FDs; untouched otherwise.
PendingFds(pend, nums, old) == IF pend THEN nums ELSE old

\* After the wait loop: the size check, the command and the reply.
Execute(t, r) ==
  LET p == Owner[t]
      o == Interpret(r.cmd, r.arg)
      add == AddFds(table[p], o.kinds)
  IN IF ~r.fits THEN Fails(t, "send", "EMSGSIZE")
     ELSE IF o.crash THEN Panic
     ELSE IF o.pend /\ msgFds # <<>> THEN Panic      \* assert(message_fds == nullptr)
     ELSE /\ Cardinality(FreeSlots(table[p])) >= Len(o.kinds)   \* bound MaxSlots
          /\ table' = [table EXCEPT ![p] = add.row]
          /\ msgFds' = PendingFds(o.pend, add.nums, msgFds)
          /\ msgProc' = IF o.pend THEN p ELSE msgProc
          /\ reply' = o.reply
          /\ hasMsg' = TRUE
          /\ thr' \in Notify([thr EXCEPT ![t] = Idle], "recvwait", "recvwoken")
          /\ Finish(t, "send", "none", "none", 0)
          /\ UNCHANGED <<status, known, panicked>>

\* The while(has_message) write_cv.wait() loop, from its test.
SendLoop(t, r) ==
  IF hasMsg
  THEN /\ thr' = [thr EXCEPT ![t] = [pc |-> "sendwait", req |-> r, fdsLen |-> 0]]
       /\ UNCHANGED <<status, hasMsg, reply, msgFds, msgProc, table, known, ret, panicked>>
  ELSE Execute(t, r)

SendStart(t, r) ==
  /\ ~panicked
  /\ thr[t].pc = "idle"
  /\ IF status = "shutdown" THEN Fails(t, "send", "EPIPE")
     ELSE IF hasMsg /\ NonBlock THEN Fails(t, "send", "EAGAIN")
     ELSE SendLoop(t, r)

SendRetry(t) ==
  /\ ~panicked
  /\ thr[t].pc = "sendwoken"
  /\ SendLoop(t, thr[t].req)

-----------------------------------------------------------------------------
(* sock_recv                                                               *)

\* write_cv.notify(): one sender waiting for the slot may run.
WakeWriter(th) == Notify(th, "sendwait", "sendwoken")

\* Variant of the fd drain that walks message_fds without unlinking it.
DrainedKeeps(fds) == fds
\* The drain loop leaves message_fds empty.
Drained(fds) == <<>>

\* Reply and fds handed out: at most ri_fds_len numbers, the rest dropped.
Deliver(t, n) ==
  LET given == SubSeq(msgFds, 1, IF n < Len(msgFds) THEN n ELSE Len(msgFds))
      p == Owner[t]
  IN /\ msgFds' = Drained(msgFds)
     /\ msgProc' = NoProc
     /\ hasMsg' = FALSE
     /\ reply' = "none"
     /\ known' = [known EXCEPT ![p] = @ \cup ToSet(given)]
     /\ thr' \in WakeWriter([thr EXCEPT ![t] = Idle])
     /\ Finish(t, "recv", "none", reply, Len(given))
     /\ UNCHANGED <<status, table, panicked>>

RecvLoop(t, n) ==
  IF ~hasMsg
  THEN /\ thr' = [thr EXCEPT ![t] = [pc |-> "recvwait", req |-> NoReq, fdsLen |-> n]]
       /\ UNCHANGED <<status, hasMsg, reply, msgFds, msgProc, table, known, ret, panicked>>
  ELSE Deliver(t, n)

RecvStart(t, n) ==
  /\ ~panicked
  /\ thr[t].pc = "idle"
  /\ IF ~hasMsg /\ NonBlock THEN Fails(t, "recv", "EAGAIN") ELSE RecvLoop(t, n)

RecvRetry(t) ==
  /\ ~panicked
  /\ thr[t].pc = "recvwoken"
  /\ RecvLoop(t, thr[t].fdsLen)

-----------------------------------------------------------------------------
(* sock_shutdown, and close_fd on a slot the process knows                 *)

Shutdown(t, how) ==
  /\ ~panicked
  /\ thr[t].pc = "idle"
  /\ status' = IF "WR" \in how THEN "shutdown" ELSE status
  /\ UNCHANGED <<hasMsg, reply, msgFds, msgProc, table, known, thr, ret, panicked>>

Close(t, i) ==
  LET p == Owner[t]
  IN /\ ~panicked
     /\ thr[t].pc = "idle"
     /\ i \in known[p] \ {CtlSlot}
     /\ table' = [table EXCEPT ![p][i] = "empty"]
     /\ known' = [known EXCEPT ![p] = @ \ {i}]
     /\ UNCHANGED <<status, hasMsg, reply, msgFds, msgProc, thr, ret, panicked>>

-----------------------------------------------------------------------------

\* The constructor: connected, no message; every process holds the socket.
Init ==
  /\ status = "connected"
  /\ hasMsg = FALSE
  /\ reply = "none"
  /\ msgFds = <<>>
  /\ msgProc = NoProc
  /\ table = [p \in Procs |-> [i \in Slots |-> IF i = CtlSlot THEN "ctl" ELSE "empty"]]
  /\ known = [p \in Procs |-> {CtlSlot}]
  /\ thr = [t \in Threads |-> Idle]
  /\ ret = [t \in Threads |-> NoRet]
  /\ panicked = FALSE

Next ==
  \E t \in Threads :
    \/ \E r \in Requests : SendStart(t, r)
    \/ SendRetry(t)
    \/ \E n \in FdsLens : RecvStart(t, n)
    \/ RecvRetry(t)
    \/ \E how \in ShutHows : Shutdown(t, how)
    \/ \E i \in Slots : Close(t, i)

\* The scheduler eventually runs a thread that a cv woke.
Fairness == \A t \in Threads : WF_vars(SendRetry(t)) /\ WF_vars(RecvRetry(t))

Spec == Init /\ [][Next]_vars /\ Fairness

-----------------------------------------------------------------------------
(* Properties                                                              *)

TypeOK ==
  /\ status \in {"connected", "shutdown"} /\ hasMsg \in BOOLEAN
  /\ reply \in Replies \cup {"none"}
  /\ msgFds \in Seq(Slots) /\ msgProc \in Procs \cup {NoProc}
  /\ table \in [Procs -> [Slots -> Kinds \cup {"empty"}]]
  /\ known \in [Procs -> SUBSET Slots]
  /\ \A t \in Threads : thr[t] = Idle \/
        thr[t] \in [pc : {"sendwait", "sendwoken", "recvwait", "recvwoken"},
                    req : Requests, fdsLen : {0} \cup FdsLens]
  /\ panicked \in BOOLEAN

\* No kernel fault: sock_send's assert(message_fds == nullptr) before a
\* command that leaves FDs, and no null arg dereferenced at line 165.
NoKernelPanic == ~panicked

\* Once the socket is shut down for writing, no command runs: sock_send
\* fails with EPIPE (spec section 7), so the reply slot is never filled
\* again.  sock_send tests status before its write_cv wait.
NoCommandAfterShutdown ==
  [][status = "shutdown" => ~(~hasMsg /\ hasMsg')]_vars
=============================================================================
