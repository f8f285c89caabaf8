\* Datagram pair, two blocking readers of B that may PEEK.
CONSTANTS
  A = A  B = B  p1 = p1  p2 = p2  t1 = t1  t2 = t2  t3 = t3  f1 = f1
  NoSock = NoSock
  Socks <- MCSocks
  Peer <- MCPeer
  Procs <- MCProcs
  Threads <- MCThreads3
  Owner <- MCOwner3
  Files <- MCNoFiles
  Passable <- MCNoFiles
  SockType = "dgram"
  MaxBuffered = 2
  WordBits = 3
  NonBlock <- MCNonBlockNone
  SendLens = {1}
  RecvReqs <- MCReqsPeekNoFds
  ShutHows <- MCHowsBoth
  InitTable <- MCInitTableNoFiles
  MaxQueue = 2
  MaxRefs = 2
  PollDirs <- MCPollNone
SPECIFICATION Spec
PROPERTY ReaderNotStranded
CHECK_DEADLOCK FALSE
