SPECIFICATION Spec
CONSTANT Tests <- MCTests
CONSTANT Calls <- MCCalls
CONSTANT SuiteNames <- MCSuiteNames
CONSTANT MaxSuites = 3
CONSTANT MaxCases = 2
CONSTANT MaxCalls = 5
INVARIANT AsBuilt
INVARIANT ReportSaysAll
CHECK_DEADLOCK FALSE
