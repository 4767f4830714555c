SPECIFICATION Spec
CONSTANTS
  Cols = 5
  Rows = 2
  BUF_CAP = 3
  MaxSpoiled = 1
  Texts <- MCTexts
  Char = {"a", "b"}
  Prompt <- MCPrompt
INVARIANTS
  WrapHarmless
