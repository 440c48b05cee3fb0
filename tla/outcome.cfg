SPECIFICATION FairSteps
CONSTANTS
    Attempts = 2
    Amount = 2
    CallCost = 1
    Costs = {1, 3}
    Figures = {0, 1}
INVARIANTS EachHoldClosedOnce OneWorkingHold RedoneOnlyOnAWord
PROPERTIES AnswersAreFinal FinishedStepStaysFinished StrandedMoneyComesBack
CHECK_DEADLOCK FALSE
