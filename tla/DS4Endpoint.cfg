\* Three bytes: a copy has a beginning, a middle and an end.
SPECIFICATION FairSpec
CONSTANTS
    NBytes = 3
    MaxReports = 4
INVARIANTS NoTornReport GetReportNotOlder
PROPERTIES AtMostOnePollLate
           StagedIsDelivered LatestReportSpec EndpointLifeSpec
\* A failed assert halts the program.
CHECK_DEADLOCK FALSE
