SPECIFICATION Spec
CONSTANTS
    i1 = i1  i2 = i2  p1 = p1  p2 = p2  p3 = p3  p4 = p4  n1 = n1  t1 = t1
    w1 = w1  w2 = w2  NoInvoice = NoInvoice
    Workers <- OneWorker
    Invoices <- TwoInvoices
    Payments <- ThreePayments
    Notes <- OneNote
    Txns <- OneTxn
    Totals <- Two
    Amounts <- OneToTwo
    TxnInvoice <- TxnPaysFirst
    TxnAmount <- TxnPaysTwo
    NoteTotal <- NotesOfTwo
    NoteInvoice <- NotesLinked
    MaxBatch = 2
SYMMETRY PaymentSymmetry
INVARIANTS TypeOK RefundsStamped NoteSpentOnce UnpaidHasNoMoney
PROPERTIES LedgerDecidesPaid SettledIsLeftByMoney NoteIsFinal
CHECK_DEADLOCK FALSE
