SPECIFICATION Spec
CONSTANTS
  MaxSize = 4
  MaxBlocks = 17
  Labels = {l1}
  None = None
INVARIANTS
  TargetsOpen
  WellFormed
  PhisComplete
  Faithful
