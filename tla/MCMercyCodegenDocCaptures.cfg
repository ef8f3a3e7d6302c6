SPECIFICATION CompilerSpec
CONSTANTS
  Parts <- CaptureParts
  Height <- MCHeight
  Sources <- CaptureSources
  MaxDepth = 8
INVARIANT DocCapturedVariableIsAlive
