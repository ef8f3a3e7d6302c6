SPECIFICATION CompilerSpec
CONSTANTS
  Parts <- OperatorParts
  Height <- MCHeight
  Sources <- OperatorSources
  MaxDepth = 8
INVARIANT DocOperatorsAsInC
