CONSTANTS
  Clients = {c1, c2}
  Chars = {"a"}
  QuitChar = "q"
  LF = "LF"
  MaxLine = 1
  MinSize = 1
  InitSize = 2
  MaxSize = 4
  MaxAccept = 2
  SndBuf = 1
  MaxSent = 3
  Faults = {"malloc"}
  Word = 64
  Align = 1
SPECIFICATION Spec
INVARIANTS TypeOK ResponsesInOrder NoFreedClient RecvBlockKept
CHECK_DEADLOCK FALSE
SYMMETRY Symmetry
