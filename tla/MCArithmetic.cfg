CONSTANTS
  u1 = u1
  u2 = u2
  Units = {u1, u2}
  Wide = 6
  Int32 = 3
  Expressions <- MCExpressions
  Operands <- MCOperands
  Unwritten <- MCUnwritten
SPECIFICATION FoldingSpec
CHECK_DEADLOCK FALSE
INVARIANTS FoldsAsDocumented GeneratesAsDocumented SameEverywhere
