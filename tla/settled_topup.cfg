SPECIFICATION Spec
CONSTANTS
    Holds = 3
    Calls = 1
    Approved = 2
    EnvelopeMax = 3
    Cap = 6
    CallMax = 2
    Costs = {1, 2}
    StepCosts = {1}
    TopUps = {1, 2}
PROPERTY SettledStepTakesNoTopUp
CHECK_DEADLOCK FALSE
