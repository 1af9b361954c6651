CONSTANTS
  alice = alice
  bob = bob
  carol = carol
  a1 = a1
  a2 = a2
  b1 = b1
  b2 = b2
  c1 = c1
  None = None
  Agent <- MCAgent
  Slot <- PairSlots
  Owner <- MCOwner
  Dial <- PairDial
  MaxData = 2
  DropRoll = {FALSE}
  CorruptRoll = {FALSE}
  DuplicateRoll = {TRUE, FALSE}
  Reorder = FALSE
SPECIFICATION FairSpec
INVARIANTS
  SpentOnlyByCrossing
PROPERTIES
  HandshakeEnds
CHECK_DEADLOCK FALSE
