\* Datagram pair, every shutdown mask: a half shut for writing is then closed while its peer sends.
CONSTANTS
  A = A  B = B  p1 = p1  p2 = p2  t1 = t1  t2 = t2  t3 = t3  f1 = f1
  NoSock = NoSock
  Socks <- MCSocks
  Peer <- MCPeer
  Procs <- MCProcs
  Threads <- MCThreads2
  Owner <- MCOwner2
  Files <- MCNoFiles
  Passable <- MCNoFiles
  SockType = "dgram"
  MaxBuffered = 2
  WordBits = 3
  NonBlock <- MCNonBlockA
  SendLens = {1}
  RecvReqs <- MCReqsWhole
  ShutHows <- MCHowsAll
  InitTable <- MCInitTableNoFiles
  MaxQueue = 1
  MaxRefs = 2
  PollDirs <- MCPollNone
SPECIFICATION Spec
INVARIANT NoKernelPanic
CHECK_DEADLOCK FALSE
