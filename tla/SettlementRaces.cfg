SPECIFICATION Spec
CONSTANTS
    i1 = i1  i2 = i2  p1 = p1  p2 = p2  p3 = p3  p4 = p4  n1 = n1  t1 = t1
    w1 = w1  w2 = w2  NoInvoice = NoInvoice
    Workers <- TwoWorkers
    Invoices <- OneInvoice
    Payments <- ThreePayments
    Notes <- OneNote
    Txns <- Empty
    Totals <- Two
    Amounts <- OneToTwo
    TxnInvoice <- TxnPaysFirst
    TxnAmount <- TxnPaysTwo
    NoteTotal <- NotesOfTwo
    NoteInvoice <- NotesUnlinked
    MaxBatch = 0
SYMMETRY RequestSymmetry
CHECK_DEADLOCK FALSE
INVARIANTS RefundedWithinPayment AppliedWithinNote
