SPECIFICATION Spec
CONSTANT Programs <- MCPrograms
INVARIANTS OverflowThroughInitialisers NamesAgree ValuesFit ArgumentsBound
CHECK_DEADLOCK FALSE
