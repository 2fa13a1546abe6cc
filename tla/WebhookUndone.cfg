SPECIFICATION Spec
CONSTANTS
    e1 = e1
    h1 = h1
    h2 = h2
    w1 = w1
    w2 = w2
    Hooks <- OneHook
    Events <- OneEvent
    Workers <- TwoWorkers
    MaxAttempts = 2
    MaxRedeliver = 0
    Faults <- NoFaults
    MaxFaults = 0
PROPERTIES
    SuccessIsFinal
CHECK_DEADLOCK FALSE
