SPECIFICATION Spec
CONSTANTS
    Calls = 3
    MaxParallel = 2
    MaxRegistrations = 1
    Window = {1, 2, 3}
    p1 = p1
    p2 = p2
    Policy = {p1, p2}
    Priority <- Priorities
    AtFirst = {p1}
INVARIANTS TypeOK CallsAnsweredInOrder RerunsAuthorised
PROPERTIES StepEnds
