SPECIFICATION Spec
CONSTANTS
  s1 = s1
  s2 = s2
  lib = lib
  b1 = b1
  b2 = b2
  gone = gone
  NoPath = NoPath
  None = None
  Found <- MCFound
  Libraries <- MCLibraries
  Bindings <- MCBindings
  Absent <- MCAbsent
  Imports <- MCImports
  Blank <- MCBlank
  Asserts = FALSE
  MaxImports = 1
INVARIANT
  ImportsPrepared
