CONSTANTS
  Studied <- MCStudied
  Names <- MCNames
  Triples <- MCTriples
  Lists <- MCLists
SPECIFICATION Spec
INVARIANTS DecidedByLastLayer FlagsKept
CHECK_DEADLOCK FALSE
