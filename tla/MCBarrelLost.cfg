SPECIFICATION Spec
CONSTANTS
  a = a
  b = b
  na = na
  nb = nb
  x = x
  ta = ta
  tb = tb
  Top = Top
  Mod = Mod
  None = None
  Dirs = {a, b}
  Parent <- Nested
  Names <- MCNames
  DirName <- OwnNames
  Stem <- OwnNames
  Temp <- MCTemp
  Codes = {c1, c2}
  MaxEdits = 3
  MaxCrashes = 0
INVARIANTS
  NoUserCodeLost
