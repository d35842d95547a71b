CONSTANTS
  Clients = {c1}
  Chars = {"a"}
  QuitChar = "q"
  LF = "LF"
  MaxLine = 2
  MinSize = 2
  InitSize = 7
  MaxSize = 14
  MaxAccept = 2
  SndBuf = 2
  MaxSent = 3
  Faults = {}
  Word = 64
  Align = 1
SPECIFICATION FairSpec
PROPERTY ResponsesWritten
CHECK_DEADLOCK FALSE
