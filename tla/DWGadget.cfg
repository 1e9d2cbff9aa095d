SPECIFICATION FairSpec
INVARIANTS TypeOK HandlersSeeEndpoints EP1FollowsConfiguration
           DeletedEndpointIsDisarmed OnlyKnownAsserts
PROPERTIES EndpointLifeSpec SuspendIsDealtWith EP0ComesBack
\* A failed assert or panic halts the program.
CHECK_DEADLOCK FALSE
