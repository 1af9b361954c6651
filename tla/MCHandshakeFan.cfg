CONSTANTS
  alice = alice
  bob = bob
  carol = carol
  a1 = a1
  a2 = a2
  b1 = b1
  b2 = b2
  c1 = c1
  None = None
  Agent <- MCAgents3
  Slot <- FanSlots
  Owner <- MCOwner
  Dial <- FanDial
  MaxData = 1
  DropRoll = {TRUE, FALSE}
  CorruptRoll = {FALSE}
  DuplicateRoll = {FALSE}
  Reorder = FALSE
SPECIFICATION Spec
INVARIANTS
  FramesAuthentic
  PairedSessions
  DataFromPeer
CHECK_DEADLOCK FALSE
