SPECIFICATION FairSpec
CONSTANTS
    Holds = 3
    Calls = 2
    Approved = 2
    EnvelopeMax = 3
    Cap = 6
    CallMax = 2
    Costs = {1, 2}
    StepCosts = {1}
    TopUps = {1, 2}
CONSTRAINT OneCallOrNoEffect
INVARIANTS EnvelopeBalances HeldCoversCalls SpendIsApproved NothingWorksWhileItWaits
PROPERTY UnsentCallsEnd
CHECK_DEADLOCK FALSE
