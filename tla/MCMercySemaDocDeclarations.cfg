SPECIFICATION Spec
CONSTANTS
  Parts <- DomainParts
  Height <- MCHeight
  Sources <- DomainSources
  MaxDepth = 8
INVARIANTS
  DocDeclarationsCompiledApart
