SPECIFICATION Spec
CONSTANTS
  Archives <- MCArchives
  Commands <- MCCommands
  Lines <- MCLines
  Texts <- MCTexts
  Paths <- MCPaths
  Partials <- MCPartials
INVARIANTS
  LookupIsArchive
  LexicalIsPhysical
  CwdIsDirectory
  ListIsSequence
  QuotingProtects
  EveryArgumentOnce
  CompletionResolves
CHECK_DEADLOCK FALSE
