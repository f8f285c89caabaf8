\* Datagram pair: a reader of B peeks a whole datagram, then receives it, and A sends again.
CONSTANTS
  A = A  B = B  p1 = p1  p2 = p2  t1 = t1  t2 = t2  t3 = t3  f1 = f1
  NoSock = NoSock
  Socks <- MCSocks
  Peer <- MCPeer
  Procs <- MCProcs
  Threads <- MCThreads2
  Owner <- MCOwner2
  Files <- MCNoFiles
  Passable <- MCNoFiles
  SockType = "dgram"
  MaxBuffered = 2
  WordBits = 3
  NonBlock <- MCNonBlockA
  SendLens = {2}
  RecvReqs <- MCReqsPeekWhole
  ShutHows <- MCHowsBoth
  InitTable <- MCInitTableNoFiles
  MaxQueue = 1
  MaxRefs = 2
  PollDirs <- MCPollNone
SPECIFICATION Spec
INVARIANT NoKernelPanic
CHECK_DEADLOCK FALSE
