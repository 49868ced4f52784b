SPECIFICATION Spec
CONSTANTS
  MulNumSet <- UpTo31
INVARIANTS
  EachFedOnce
  RoomWhileUnitFree
