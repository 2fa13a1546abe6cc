------------------------------ MODULE MCSettlement ------------------------------
(* Instances of Settlement for TLC. *)
EXTENDS Settlement, TLC

CONSTANTS i1, i2, p1, p2, p3, p4, n1, t1, w1, w2

OneInvoice    == {i1}
TwoInvoices   == {i1, i2}
TwoPayments   == {p1, p2}
ThreePayments == {p1, p2, p3}
FourPayments  == {p1, p2, p3, p4}
OneNote       == {n1}
OneTxn        == {t1}
OneWorker     == {w1}
TwoWorkers    == {w1, w2}
Empty         == {}

Two      == {2}
OneToTwo == {1, 2}

TxnPaysFirst  == [t \in Txns |-> i1]
TxnPaysTwo    == [t \in Txns |-> 2]
NotesOfTwo    == [n \in Notes |-> 2]
NotesOfThree  == [n \in Notes |-> 3]
NotesUnlinked == [n \in Notes |-> NoInvoice]
NotesLinked   == [n \in Notes |-> i1]

PaymentSymmetry == Permutations(Payments)
RequestSymmetry == Permutations(Payments) \cup Permutations(Workers)

================================================================================
