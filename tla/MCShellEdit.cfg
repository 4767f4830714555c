SPECIFICATION Spec
CONSTANTS
  BUF_CAP = 2
  HIST_CAP = 2
  Char = {"a", " "}
  Completions <- MCCompletions
  MaxSubmits = 3
INVARIANTS
  RingIsRecentLog
  BrowsingShowsEntry
PROPERTIES
  LiveLineRestored
