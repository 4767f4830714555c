SPECIFICATION Spec
CONSTANTS
  INT_N = 4
  EVT_N = 3
  MaxReports = 7
  MaxOther = 2
  MaxErrors = 1
INVARIANTS
  ReportsExactlyOnce
  OneTransferInFlight
PROPERTIES
  EveryReportTaken
  RearmedUnlessError
