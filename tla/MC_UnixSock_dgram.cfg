\* Datagram pair, readers with buffers as large as any datagram, both-way shutdown.
CONSTANTS
  A = A  B = B  p1 = p1  p2 = p2  t1 = t1  t2 = t2  t3 = t3  f1 = f1
  NoSock = NoSock
  Socks <- MCSocks
  Peer <- MCPeer
  Procs <- MCProcs
  Threads <- MCThreads2
  Owner <- MCOwner2
  Files <- MCFiles
  Passable <- MCPassA
  SockType = "dgram"
  MaxBuffered = 3
  WordBits = 3
  NonBlock <- MCNonBlockA
  SendLens = {1, 2}
  RecvReqs <- MCReqsWhole
  ShutHows <- MCHowsBoth
  InitTable <- MCInitTable
  MaxQueue = 3
  MaxRefs = 2
  PollDirs <- MCPollBoth
SPECIFICATION Spec
INVARIANT TypeOK LiveHalfReferenced
PROPERTY ReaderNotStranded ReadPollerGetsData DgramRefinesChannel
CHECK_DEADLOCK FALSE
