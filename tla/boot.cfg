SPECIFICATION Spec
CONSTANTS
  Handover <- MCHandover
  Irq = {0, 1, 12}
  PageSize = 2
  MaxMemSections = 4
INVARIANTS
  TypeOK
  AlwaysAHandler
  FreelistComplete
  SectionsFit
PROPERTY
  KeysAreHandled
CHECK_DEADLOCK FALSE
