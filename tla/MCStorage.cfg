CONSTANTS
  c1 = c1
  c2 = c2
  h1 = h1
  h2 = h2
  h3 = h3
  id = id
  key = key
  observations = observations
  Null = Null
  Identifier <- MCIdentifier
  Admitted <- MCAdmitted
  Table <- MCTable
  None = None
  Conn <- MCConn
  Handle <- MCHandle
  Row <- MCRow
SYMMETRY MCSymmetry
SPECIFICATION Spec
INVARIANTS
  HandleTruth
  HandlesLive
  TableAsDeclared
PROPERTIES
  EndedByOwnHandle
CHECK_DEADLOCK FALSE
