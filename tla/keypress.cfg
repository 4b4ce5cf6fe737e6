SPECIFICATION Spec
CONSTANT
  Key <- MCKey
INVARIANTS
  TypeOK
  TypesAsHeld
PROPERTY
  OneCharacterPerPress
