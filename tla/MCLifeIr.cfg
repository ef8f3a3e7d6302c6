SPECIFICATION Spec
CONSTANTS
  MAP_WIDTH = 4
  MAP_HEIGHT = 3
  MaxSeeds = 4
INVARIANTS
  TypeOK
  IndicesAreCurrent
PROPERTIES
  PlaysLife
