SPECIFICATION Spec
CONSTANTS
    p1 = p1  r1 = r1  u1 = u1  u2 = u2  clerk = clerk  board = board
    w1 = w1  w2 = w2
    Workers <- TwoWorkers
    Processes <- OneProcess
    Requests <- OneRequest
    Orders <- ThreeOrders
    Users <- TwoUsers
    Approvers <- ClerkBoard
    Holders <- HoldersOne
    Chains <- SomeChains
SYMMETRY CallSymmetry
PROPERTY ClosedIsFinal
CHECK_DEADLOCK FALSE
