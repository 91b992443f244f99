SPECIFICATION Spec
CONSTANTS
  Workers = {w1, w2}
  TotalFiles = 3
  Category <- MCCategory
INVARIANTS
  TypeOK
  ReportExact
PROPERTIES
  MergesKept
  AuditEnds
  ImplementsAudit
