SPECIFICATION Spec
CONSTANTS
  Texts <- MCTexts
  Assertions = FALSE
INVARIANTS LinksRight SpinsOnlyAfterError OperatorsBind
PROPERTY ContextRestored
