SPECIFICATION Spec
CONSTANTS
  REG_COUNT = 4
  IMM_BASE = 1024
  BYTE = 32
  MMIO_SIZE = 64
  BitAnd <- NoBits
  BitOr <- NoBits
  BitXor <- NoBits
  a = a
  b = b
  Names <- MCNames
  Sources <- MCSources
  YYMAXDEPTH = 11
INVARIANTS
  TypeOK
  BranchesReachLabels
  AssemblesSource
  OutcomeFollowsSource
PROPERTIES
  LabelsAreFinal
  FinalizePatchesImmediates
  AssemblyEnds
