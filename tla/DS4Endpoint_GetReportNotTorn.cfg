SPECIFICATION Spec
CONSTANTS
    NBytes = 2
    MaxReports = 2
INVARIANT GetReportNotTorn
CHECK_DEADLOCK FALSE
