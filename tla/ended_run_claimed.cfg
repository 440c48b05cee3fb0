SPECIFICATION Spec
CONSTANTS
    Holds = 5
    Calls = 1
    Approved = 1
    EnvelopeMax = 1
    Cap = 6
    CallMax = 6
    Costs = {1}
    StepCosts = {1}
    TopUps = {1}
PROPERTY EndedRunStaysEnded
CHECK_DEADLOCK FALSE
