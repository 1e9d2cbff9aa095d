SPECIFICATION Spec
INVARIANT InEPAssertHolds
CHECK_DEADLOCK FALSE
