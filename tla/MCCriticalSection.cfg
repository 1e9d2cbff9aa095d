\* Two contexts can fill the stack together.
SPECIFICATION Spec
CONSTANTS
    Locks <- LocksMC
    Target <- TargetMC
    MaxNest = 2
    MaxCriticalLevel = 4
INVARIANTS NoAssertFails ExecutionLevelIsRight
PROPERTIES SpinLockSpec
