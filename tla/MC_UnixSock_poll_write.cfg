\* Datagram pair, both halves blocking, a sender that fills the peer's buffer and a poller of its send_signaler.
CONSTANTS
  A = A  B = B  p1 = p1  p2 = p2  t1 = t1  t2 = t2  t3 = t3  f1 = f1
  NoSock = NoSock
  Socks <- MCSocks
  Peer <- MCPeer
  Procs <- MCProcs
  Threads <- MCThreads2
  Owner <- MCOwner2
  Files <- MCNoFiles
  Passable <- MCNoFiles
  SockType = "dgram"
  MaxBuffered = 2
  WordBits = 3
  NonBlock <- MCNonBlockNone
  SendLens = {2}
  RecvReqs <- MCReqsWhole
  ShutHows <- MCHowsBoth
  InitTable <- MCInitTableNoFiles
  MaxQueue = 2
  MaxRefs = 2
  PollDirs <- MCPollWrite
SPECIFICATION Spec
PROPERTY PollerNotStranded
CHECK_DEADLOCK FALSE
