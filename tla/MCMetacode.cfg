CONSTANTS
  Files <- AllFiles
SPECIFICATION Spec
INVARIANTS
  AcceptedIsClosed
  CodeKeptOnce
  GeneratorInput
PROPERTY
  PreprocessingEnds
