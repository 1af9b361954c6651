CONSTANTS
  alice = alice
  bob = bob
  Endpoint <- MCEndpoint
  DropRoll = {TRUE, FALSE}
  CorruptRoll = {TRUE, FALSE}
  DuplicateRoll = {TRUE, FALSE}
  Reorder = TRUE
  MaxSends = 3
  MaxBatch = 4
  ByteBits = 3
  Magic <- MCMagic
  UuidLen = 1
  LengthLen = 1
  ChecksumLen = 2
  CrcPoly <- MCPoly
  Ids <- MCIds
  Payloads <- MCPayloads
  Strings <- MCStrings
SPECIFICATION Spec
INVARIANTS
  TypeOK
  FlushIsBarrier
  CopiesAccounted
  WireExact
PROPERTIES
  CopiesConserved
  MailboxSpec
