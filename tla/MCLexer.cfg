SPECIFICATION Spec
CONSTANT Sessions <- MCSessions
INVARIANTS NothingLost InstructionsClosed InterpolationsClosed
PROPERTY Advances
