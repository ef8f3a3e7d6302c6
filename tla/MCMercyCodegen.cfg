SPECIFICATION CompilerSpec
CONSTANTS
  Parts <- MCCompilerParts
  Height <- MCHeight
  Sources <- MCCompilerSources
  MaxDepth = 8
INVARIANTS
  TypeOK
  LexicalScoping
  InstancesDiffer
  IdsDistinct
  CoreIsSound
  ScopesNeverBroken
  ModulesAreValid
  DispatchIsMeaning
  GlobalsReadAfterInit
PROPERTIES
  ReturnTypeIsFinal
  CompilationEnds
