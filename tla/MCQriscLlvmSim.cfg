SPECIFICATION Spec
CONSTANTS
  REG_COUNT = 4
  IMM_BASE = 1024
  BYTE = 32
  MMIO_SIZE = 64
  BitAnd <- MCAnd
  BitOr <- MCOr
  BitXor <- MCXor
  Programs <- MCPrograms
  MemorySize = 20
  StackAddr = 8
  StdinValues <- MCStdin
  RandValues <- MCRand
  RegBound = 40
CONSTRAINT RegistersBounded
INVARIANTS
  TypeOK
  BlocksFollowLeaders
  VerifierAcceptsInRange
PROPERTIES
  RefinesInterpreter
  ForwardProgramsStop
