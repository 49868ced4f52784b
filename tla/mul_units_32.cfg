SPECIFICATION Spec
CONSTANTS
  MulNumSet <- AnyNumber
INVARIANTS
  RoomWhileUnitFree
