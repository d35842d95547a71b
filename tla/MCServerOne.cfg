CONSTANTS
  Clients = {c1}
  Chars = {"a"}
  QuitChar = "q"
  LF = "LF"
  MaxLine = 2
  MinSize = 2
  InitSize = 7
  MaxSize = 14
  MaxAccept = 2
  SndBuf = 2
  MaxSent = 3
  Faults = {"accept", "epoll", "listener", "reset"}
  Word = 64
  Align = 1
SPECIFICATION FairSpec
 
PROPERTIES ClosedPeersEnd 
CHECK_DEADLOCK FALSE
