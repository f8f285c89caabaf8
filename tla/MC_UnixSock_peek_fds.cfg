\* Stream pair, readers that may PEEK with room for two fds.
CONSTANTS
  A = A  B = B  p1 = p1  p2 = p2  t1 = t1  t2 = t2  t3 = t3  f1 = f1
  NoSock = NoSock
  Socks <- MCSocks
  Peer <- MCPeer
  Procs <- MCProcs
  Threads <- MCThreads2
  Owner <- MCOwner2
  Files <- MCFiles
  Passable <- MCFiles
  SockType = "stream"
  MaxBuffered = 2
  WordBits = 3
  NonBlock <- MCNonBlockA
  SendLens = {1}
  RecvReqs <- MCReqsPeekFds
  ShutHows <- MCHowsBoth
  InitTable <- MCInitTable
  MaxQueue = 2
  MaxRefs = 2
  PollDirs <- MCPollNone
SPECIFICATION Spec
PROPERTY NoCapabilityMinted
CHECK_DEADLOCK FALSE
