SPECIFICATION Spec
CONSTANTS
  MAP_WIDTH = 4
  MAP_HEIGHT = 3
INVARIANTS
  TypeOK
  CountsAreCurrent
PROPERTIES
  PlaysLife
