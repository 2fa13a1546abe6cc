SPECIFICATION ServicesSpec
CONSTANTS
    u1 = u1  u2 = u2  x1 = x1  x2 = x2  d1 = d1  d2 = d2  d3 = d3  o1 = o1
    Passes <- Actors
    Invoices <- OneRow
    Rules <- TwoRows
    MaxLost = 1
    Callers <- Actors
    Emails <- OneRow
    MaxUpsets = 1
    Steppers <- Actors
    Enrollees <- OneRow
    LastPosition = 1
    MaxRollbacks = 1
    Ticks <- Actors
    Horizon = 3
    MaxRedates = 1
    MaxHalfDone = 1
    MaxOverlaps = 1
    Workers <- Actors
    MaxCap = 2
    MaxDrafts = 3
    MaxChecks = 1
    Clerks <- Actors
    Drafts <- ThreeDrafts
    Expenses <- OneRow
    Agents <- Actors
    MaxVersions = 3
    MaxCrossings = 2
    Requests <- Actors
    MaxRows = 3
    MaxMeetings = 1
    MaxCut = 1
    Appointments <- TwoRows
    Staff <- Actors
    Clicks <- Actors
    LastStart = 2
    MaxSimultaneous = 1
    Hands <- Actors
    MaxQuantity = 1
    MaxMoves = 2
    MaxConflicts = 1
    Pollers <- Actors
    Mails <- TwoRows
    Catchup = 1
    Cap = 1
    Attempts = 2
    MaxUids = 3
    MaxBreaks = 1
    CallIds <- TwoRows
    Servers <- Actors
    MaxDials = 1
    MaxBeside = 1
    MaxAnswered = 1
    MaxMishaps = 1
    Dispatchers <- Actors
    MaxEdits = 3
    MaxHistory = 5
    MaxClashes = 2
    Editors <- Actors
    Clients <- FourClients
    MaxDepth = 2
    MaxCalls = 4
    MaxApart = 1
SYMMETRY Symmetric
INVARIANTS
    ServicesTypeOK ReminderOnce ClaimIsMailed MailedOnce StuckOnlyBySpentJob StepsRunOnce
    PeriodsBilledOnce CyclesCounted ExpenseBilledOnce
    InvoicedAsSent SignedIsCovered NoDoubleBooking BalanceExplained
    MailTakenOnce DialsBounded CallLeavesTrace HistoryNeverDrifts
    TreeHasRoots MergedHasSurvivor
PROPERTY FiresAtMostOnce
CHECK_DEADLOCK FALSE
