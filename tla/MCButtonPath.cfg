\* Four changes press every direction, or opposite ones with a face button
\* and release one again; the counter wraps several times.
SPECIFICATION PathSpec
CONSTANTS
    ScanOrder <- ScanOrderMC
    CounterSize = 4
    CounterField = 2
    MaxChanges = 4
INVARIANTS NoPhantomButton HeldButtonsAreSent ReportsMeanTheirState
PROPERTIES CounterCountsReports HostFollowsPlayer
