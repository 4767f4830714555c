SPECIFICATION Spec
CONSTANTS
  Archives <- MCArchives
  Commands <- MCCommands
  Lines <- MCLines
  Texts <- MCTexts
  Paths <- MCPaths
  Partials <- MCPartials
INVARIANTS
  PositionalAsDocumented
CHECK_DEADLOCK FALSE
