SPECIFICATION Spec
CONSTANTS
  Frame <- MCFrame
  LowerHalf <- MCLowerHalf
  UsableFrames <- MCUsableFrames
  BootPte <- MCBootPte
  NamedPage <- MCNamedPage
  Perm <- MCPerm
  Radix <- MCRadix
  PageSize <- MCPageSize
  Module <- MCModule
  Name <- MCName
  StackBase <- MCStackBase
  StackPages <- MCStackPages
  MmapBase <- MCMmapBase
  MmapCall <- MCMmapCall
PROPERTY
  MmapMapsItsLength
