CONSTANTS
  p1 = p1
  p2 = p2
  t1 = t1
  t2 = t2
  t3 = t3
  NoProc = NoProc
  Procs <- MCProcs1
  Threads <- MCThreads2
  Owner <- MCOwner1
  MaxSlots = 4
  NonBlock = FALSE
  Requests <- MCReqsGood
  FdsLens = {2}
  ShutHows <- MCHowsAll

SPECIFICATION Spec
INVARIANT TypeOK NoKernelPanic
CHECK_DEADLOCK FALSE
