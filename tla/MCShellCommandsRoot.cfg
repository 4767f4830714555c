SPECIFICATION Spec
CONSTANTS
  Archives <- MCArchives
  Commands <- MCCommands
  Lines <- MCLines
  Texts <- MCTexts
  Paths <- MCPaths
  Partials <- MCPartials
INVARIANTS
  RootIsFound
CHECK_DEADLOCK FALSE
