SPECIFICATION Spec
CONSTANTS
  INT_N = 4
  EVT_N = 3
  MaxReports = 3
  MaxOther = 1
  MaxErrors = 1
PROPERTIES
  AlwaysRearmed
