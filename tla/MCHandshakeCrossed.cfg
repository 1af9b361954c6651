CONSTANTS
  alice = alice
  bob = bob
  carol = carol
  a1 = a1
  a2 = a2
  b1 = b1
  b2 = b2
  c1 = c1
  None = None
  Agent <- MCAgent
  Slot <- CrossedSlots
  Owner <- MCOwner
  Dial <- CrossedDial
  MaxData = 0
  DropRoll = {TRUE, FALSE}
  CorruptRoll = {TRUE, FALSE}
  DuplicateRoll = {TRUE, FALSE}
  Reorder = TRUE
SPECIFICATION Spec
INVARIANTS
  Agreement
  OneSessionPerCopy
PROPERTIES
  ConnectionSpec
CHECK_DEADLOCK FALSE
