SPECIFICATION Spec
CONSTANTS
  Frame <- MCFrame
  Index <- MCIndex
  LowerHalf <- MCLowerHalf
  UsableFrames <- MCUsableFrames
  BootPte <- MCBootPte
  NamedPage <- MCNamedPage
  Perm <- MCPerm
INVARIANTS
  TypeOK
  OneUse
  WalksMeetTables
  UpperHalfUntouched
PROPERTIES
  OnlyMappedPagesAreLost
  TeardownEnds
  ImplementsPageMap
