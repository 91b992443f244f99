SPECIFICATION Spec
CONSTANTS
  a = a
  b = b
  na = na
  nb = nb
  x = x
  ta = ta
  tb = tb
  Top = Top
  Mod = Mod
  None = None
  Dirs = {a, b}
  Parent <- Nested
  Names <- MCNames
  DirName <- OwnNames
  Stem <- LoneStem
  Temp <- MCTemp
  Codes = {c1, c2}
  MaxEdits = 3
  MaxCrashes = 1
INVARIANTS
  BarrelsComplete
PROPERTIES
  OtherScriptsKept
  LastCopyKept
