SPECIFICATION FairSpec
CONSTANTS
    e1 = e1
    h1 = h1
    h2 = h2
    w1 = w1
    w2 = w2
    Hooks <- OneHook
    Events <- OneEvent
    Workers <- OneWorker
    MaxAttempts = 2
    MaxRedeliver = 0
    Faults <- Lossy
    MaxFaults = 1
PROPERTIES
    EveryDeliverySettles
CHECK_DEADLOCK FALSE
