SPECIFICATION Spec
CONSTANTS
    Requests = {q1, q2}
    MaxRows = 2
    MaxMeetings = 0
    MaxCut = 0
INVARIANT OneActiveRow
CHECK_DEADLOCK FALSE
