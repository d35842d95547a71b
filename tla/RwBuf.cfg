CONSTANTS
  Word = 64
  Align = 1
  Chars = {"a"}
  InitSize = 3
  MaxSize = 6
  MaxLine = 2
SPECIFICATION Spec
INVARIANTS IndexInv StreamPreserved 
PROPERTY ActsAsQueue
