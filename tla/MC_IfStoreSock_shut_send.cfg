\* A sender waiting on write_cv while another thread shuts the socket down.
CONSTANTS
  p1 = p1
  p2 = p2
  t1 = t1
  t2 = t2
  t3 = t3
  NoProc = NoProc
  Procs <- MCProcs1
  Threads <- MCThreads2
  Owner <- MCOwner1
  MaxSlots = 1
  NonBlock = FALSE
  Requests <- MCReqsNoFds
  FdsLens = {0}
  ShutHows <- MCHowsWr

SPECIFICATION Spec
PROPERTY NoCommandAfterShutdown
CHECK_DEADLOCK FALSE
