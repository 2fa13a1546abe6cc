SPECIFICATION FairSpec
CONSTANTS
    Pollers = {w1}
    Mails = {m1, m2}
    Catchup = 1
    Cap = 2
    Attempts = 2
    MaxUids = 2
    MaxBreaks = 0
PROPERTY MailIsFetched
CHECK_DEADLOCK FALSE
