------------------------------- MODULE Settlement -------------------------------
(***************************************************************************)
(* How invoices are settled: payments/payments.service.ts,                 *)
(* credit-notes/credit-notes.service.ts, the life of an invoice in         *)
(* invoices/invoices.service.ts, and invoices/payment-reminder.service.ts. *)
(*                                                                         *)
(* Every API call is a request run by one of the Workers.  Most read a     *)
(* row, decide, and write in a second transaction; the tables can change   *)
(* in between.  The database runs READ COMMITTED: a transaction sees what  *)
(* others commit while it runs, and others see its writes at its commit.   *)
(* A transaction of several statements is therefore a record of private    *)
(* writes, by column, that Commit merges into the tables.                  *)
(***************************************************************************)
EXTENDS Integers, FiniteSets, FiniteSetsExt

CONSTANTS Workers,      \* requests in progress at one time
          Invoices, Payments, Notes,  \* row ids: invoices, payments, credit_notes
          Txns,         \* transaction ids of the payment gateway
          Totals,       \* what an invoice may be worth
          Amounts,      \* what a payment or a refund may be worth
          TxnInvoice, TxnAmount,      \* what each gateway transaction paid
          NoteTotal, NoteInvoice,     \* each credit note's total and linked invoice
          NoInvoice,    \* the link of a credit note without one
          MaxBatch      \* bound: rows of one createBatch()

ASSUME AmountsAssumption == Amounts \subseteq Nat \ {0} /\ Totals \subseteq Nat
ASSUME TxnAssumption ==
    TxnInvoice \in [Txns -> Invoices] /\ TxnAmount \in [Txns -> Nat \ {0}]
ASSUME NoteAssumption ==
    /\ NoInvoice \notin Invoices
    /\ NoteInvoice \in [Notes -> Invoices \cup {NoInvoice}]
    /\ NoteTotal \in [Notes -> Nat]
ASSUME BatchAssumption == MaxBatch \in Nat

Statuses == {"draft", "sent", "viewed", "unpaid", "partial", "paid", "overdue",
             "cancelled"}
NoteStatuses == {"open", "closed", "void", "applied"}

\* Where a payment row comes from: create, the gateway, refund, applyToInvoice, apply
Origins == {<<"hand">>} \cup ({"gateway"} \X Txns) \cup ({"refund"} \X Payments)
             \cup ({"part of"} \X Notes) \cup ({"whole of"} \X Notes)

Row == [invoice : Invoices, amount : Int, from : Origins]

VARIABLES
    status,     \* Invoices -> Statuses, "none" (no row yet) or "deleted"
    total,      \* Invoices -> what the invoice is worth
    payment,    \* the rows of payments: Row by id
    refunded,   \* Payments -> refundedAmount
    used,       \* ids payments have had, the deleted ones among them
    noteStatus, \* Notes -> NoteStatuses, or "none"
    applied,    \* Notes -> appliedTotal
    worker      \* Workers -> where the request stands and what it has read

tables == <<status, total, payment, refunded, used, noteStatus, applied>>
vars == <<status, total, payment, refunded, used, noteStatus, applied, worker>>

Idle == [pc |-> "idle"]

Init ==
    /\ status = [i \in Invoices |-> "none"]
    /\ total = [i \in Invoices |-> 0]
    /\ payment = [p \in {} |-> 0]
    /\ refunded = [p \in Payments |-> 0]
    /\ used = {}
    /\ noteStatus = [n \in Notes |-> "none"]
    /\ applied = [n \in Notes |-> 0]
    /\ worker = [w \in Workers |-> Idle]

Exists(i) == status[i] \in Statuses

\* The request ends, or goes on with what it has read
Done(w)        == worker' = [worker EXCEPT ![w] = Idle]
Continue(w, r) == worker' = [worker EXCEPT ![w] = r]

--------------------------------------------------------------------------------
(* Transactions *)

\* A table's column with some rows overwritten
Over(f, g) == [x \in DOMAIN f \cup DOMAIN g |-> IF x \in DOMAIN f THEN f[x] ELSE g[x]]
Only(x, v) == [y \in {x} |-> v]
Nothing    == [x \in {} |-> 0]
Without(f, S) == [x \in DOMAIN f \ S |-> f[x]]

\* Rows to insert and to delete, and the columns to update
Tx(rule, rows, gone, stamps, statuses, drawn, noteStatuses) ==
    [pc |-> "tx", rule |-> rule, insert |-> rows, delete |-> gone,
     refunded |-> stamps, status |-> statuses, applied |-> drawn,
     noteStatus |-> noteStatuses]

\* A transaction that still has to recompute the statuses
Begin(rule, rows, gone, stamps) ==
    Tx(rule, rows, gone, stamps, Nothing, Nothing, Nothing)
Receive(rows) == Begin("receive", rows, {}, Nothing)

InTx(w) == worker[w].pc = "tx"

\* Row locks: a transaction that has updated or deleted a payment holds its row
Locked(p) == \E w \in Workers :
               InTx(w) /\ p \in worker[w].delete \cup DOMAIN worker[w].refunded

\* Ids no row has had and no transaction has taken
Fresh == {p \in Payments \ used : \A w \in Workers :
            InTx(w) => p \notin DOMAIN worker[w].insert}

\* The payments a transaction sees: the committed ones and its own
SeenBy(tx) == Over(tx.insert, Without(payment, tx.delete))

Sum(rows, i) ==
    MapThenSumSet(LAMBDA p : rows[p].amount,
                  {p \in DOMAIN rows : rows[p].invoice = i})

Paid(i) == Sum(payment, i)

\* The invoices whose status the transaction still has to recompute
Touched(tx) == {tx.insert[p].invoice : p \in DOMAIN tx.insert}
                 \cup {payment[p].invoice : p \in tx.delete}

Pending(tx) == Touched(tx) \ DOMAIN tx.status

AfterReceipt(paid, worth, was) ==
    IF paid >= worth THEN "paid" ELSE IF paid > 0 THEN "partial" ELSE was

\* Mutant: a refund leaves the status as it is, unless nothing is left
AfterRefundStale(paid, worth, was) == IF paid > 0 THEN was ELSE "unpaid"

\* Mutant: a status the invoices do not have
AfterRefundUnknown(paid, worth, was) ==
    IF paid >= worth THEN "paid" ELSE IF paid > 0 THEN "partial" ELSE "refunded"

AfterRefund(paid, worth, was) ==
    IF paid >= worth THEN "paid" ELSE IF paid > 0 THEN "partial" ELSE "unpaid"

\* Mutant: deleting any payment puts the invoice back to sent
AfterDeleteReset(left) == "sent"

AfterDelete(left) == IF left <= 0 THEN "sent" ELSE "partial"

Recalculated(rule, paid, i) ==
    CASE rule = "receive" -> AfterReceipt(paid, total[i], status[i])
      [] rule = "refund"  -> AfterRefund(paid, total[i], status[i])
      [] rule = "delete"  -> AfterDelete(paid)

\* Reads one touched invoice with its payments and decides its new status
Recalculate(w, i) ==
    /\ InTx(w) /\ i \in Pending(worker[w])
    /\ LET tx  == worker[w]
           new == Recalculated(tx.rule, Sum(SeenBy(tx), i), i)
       IN  Continue(w, Tx(tx.rule, tx.insert, tx.delete, tx.refunded,
                          Over(Only(i, new), tx.status), tx.applied, tx.noteStatus))
    /\ UNCHANGED tables

\* The private writes reach the tables; a column nobody wrote keeps what others put
Commit(w) ==
    LET tx == worker[w] IN
    /\ InTx(w) /\ Pending(tx) = {}
    /\ payment' = SeenBy(tx)
    /\ used' = used \cup DOMAIN tx.insert
    /\ refunded' = Over(tx.refunded, refunded)
    /\ status' = Over(tx.status, status)
    /\ applied' = Over(tx.applied, applied)
    /\ noteStatus' = Over(tx.noteStatus, noteStatus)
    /\ Done(w)
    /\ UNCHANGED total

\* A statement fails, the connection or the process is lost: an open transaction
\* is rolled back and nothing later of the request happens
Abandon(w) ==
    /\ worker[w] # Idle
    /\ Done(w)
    /\ UNCHANGED tables

--------------------------------------------------------------------------------
(* payments.service: create, createBatch, handleGatewayWebhook *)

Payment(i, a, from) == [invoice |-> i, amount |-> a, from |-> from]

Create(w, p, i, a) ==
    /\ worker[w] = Idle /\ p \in Fresh /\ Exists(i)
    /\ Continue(w, Receive(Only(p, Payment(i, a, <<"hand">>))))
    /\ UNCHANGED tables

\* All rows are inserted first; then each touched invoice is recalculated once
CreateBatch(w, batch) ==
    /\ worker[w] = Idle
    /\ \A p \in DOMAIN batch : Exists(batch[p].invoice)
    /\ Continue(w, Receive(batch))
    /\ UNCHANGED tables

Batches == UNION {[P -> {Payment(i, a, <<"hand">>) : i \in Invoices, a \in Amounts}] :
                    P \in {Q \in SUBSET Fresh :
                             IsFiniteSet(Q) /\ Cardinality(Q) \in 2 .. MaxBatch}}

AlreadyBooked(t) == \E p \in DOMAIN payment : payment[p].from = <<"gateway", t>>

\* The gateway delivers a notification, perhaps again: the transaction id is looked
\* up in a query of its own, and create() runs later
GatewayLookup(w, t) ==
    /\ worker[w] = Idle /\ Exists(TxnInvoice[t])
    /\ ~AlreadyBooked(t)
    /\ Continue(w, [pc |-> "gateway", txn |-> t])
    /\ UNCHANGED tables

GatewayCreate(w, p) ==
    /\ worker[w].pc = "gateway" /\ p \in Fresh
    /\ LET t == worker[w].txn
           i == TxnInvoice[t]
       IN  /\ Exists(i)
           /\ Continue(w, Receive(Only(p, Payment(i, TxnAmount[t], <<"gateway", t>>))))
    /\ UNCHANGED tables

--------------------------------------------------------------------------------
(* payments.service: refund, delete *)

\* Mutant: earlier refunds are not counted
RefundableWhole(p, a) == a <= payment[p].amount

Refundable(p, a) == payment[p].amount > 0 /\ refunded[p] + a <= payment[p].amount

RefundRead(w, p, a) ==
    /\ worker[w] = Idle /\ p \in DOMAIN payment
    /\ Refundable(p, a)
    /\ Continue(w, [pc |-> "refund", payment |-> p, amount |-> a, seen |-> refunded[p]])
    /\ UNCHANGED tables

\* Mutant: the stamp holds the last refund only
StampLast(seen, a) == a

Stamp(seen, a) == seen + a

\* A negative row q; the original is stamped with what was read plus this refund
RefundWrite(w, q) ==
    LET r == worker[w] IN
    /\ r.pc = "refund" /\ q \in Fresh
    /\ r.payment \in DOMAIN payment /\ ~Locked(r.payment)
    /\ Continue(w, Begin("refund",
         Only(q, Payment(payment[r.payment].invoice, -r.amount, <<"refund", r.payment>>)),
         {},
         Only(r.payment, Stamp(r.seen, r.amount))))
    /\ UNCHANGED tables

Delete(w, p) ==
    /\ worker[w] = Idle /\ p \in DOMAIN payment /\ ~Locked(p)
    /\ Continue(w, Begin("delete", Nothing, {p}, Nothing))
    /\ UNCHANGED tables

--------------------------------------------------------------------------------
(* invoices.service *)

\* create() with its status field left out or "sent"; the tax provider comes after
InvoiceCreate(w, i) ==
    /\ worker[w] = Idle /\ status[i] = "none"
    /\ \E s \in {"draft", "sent"}, worth \in Totals :
         /\ status' = [status EXCEPT ![i] = s]
         /\ total' = [total EXCEPT ![i] = worth]
    /\ Continue(w, [pc |-> "tax", invoice |-> i])
    /\ UNCHANGED <<payment, refunded, used, noteStatus, applied>>

\* update(): only a draft may be edited, says the read
UpdateRead(w, i) ==
    /\ worker[w] = Idle /\ status[i] = "draft"
    /\ Continue(w, [pc |-> "update", invoice |-> i])
    /\ UNCHANGED tables

Update(w) ==
    LET i == worker[w].invoice IN
    /\ worker[w].pc = "update" /\ Exists(i)
    /\ \E worth \in Totals : total' = [total EXCEPT ![i] = worth]
    /\ Continue(w, [pc |-> "tax", invoice |-> i])
    /\ UNCHANGED <<status, payment, refunded, used, noteStatus, applied>>

\* maybeApplyAutoTax(): a second write of the total, whatever the status is by now
AutoTax(w) ==
    LET i == worker[w].invoice IN
    /\ worker[w].pc = "tax" /\ Exists(i)
    /\ \E worth \in Totals : total' = [total EXCEPT ![i] = worth]
    /\ Done(w)
    /\ UNCHANGED <<status, payment, refunded, used, noteStatus, applied>>

InvoiceDeleteRead(w, i) ==
    /\ worker[w] = Idle /\ status[i] = "draft"
    /\ Continue(w, [pc |-> "delete", invoice |-> i])
    /\ UNCHANGED tables

\* The foreign key refuses while a payment, committed or not, names the invoice
InvoiceDelete(w) ==
    LET i == worker[w].invoice IN
    /\ worker[w].pc = "delete" /\ Exists(i)
    /\ \A p \in DOMAIN payment : payment[p].invoice # i
    /\ \A v \in Workers : InTx(v) => i \notin Touched(worker[v])
    /\ status' = [status EXCEPT ![i] = "deleted"]
    /\ Done(w)
    /\ UNCHANGED <<total, payment, refunded, used, noteStatus, applied>>

\* ALLOWED_TRANSITIONS; "unpaid" is no key of the map
Allowed == [s \in Statuses \cup {"none", "deleted"} |->
    CASE s = "draft"   -> {"sent", "cancelled"}
      [] s = "sent"    -> {"viewed", "partial", "paid", "overdue", "cancelled"}
      [] s = "viewed"  -> {"partial", "paid", "overdue", "cancelled"}
      [] s = "partial" -> {"paid", "overdue", "cancelled"}
      [] s = "overdue" -> {"partial", "paid", "cancelled"}
      [] OTHER         -> {}]

\* updateStatus(), and send() with s = "sent"
StatusRead(w, i, s) ==
    /\ worker[w] = Idle /\ s \in Allowed[status[i]]
    /\ Continue(w, [pc |-> "status", todo |-> {i}, want |-> s])
    /\ UNCHANGED tables

BulkTargets == {"draft", "sent", "cancelled", "partial", "overdue"}

\* bulkUpdateStatus(): the same check on each invoice, the others are skipped
BulkRead(w, ids, s) ==
    /\ worker[w] = Idle /\ s \in BulkTargets
    /\ LET todo == {i \in ids : s \in Allowed[status[i]]} IN
         todo # {} /\ Continue(w, [pc |-> "status", todo |-> todo, want |-> s])
    /\ UNCHANGED tables

\* The write checks nothing; an invoice deleted meanwhile fails it as a whole
StatusWrite(w) ==
    LET r == worker[w] IN
    /\ r.pc = "status" /\ \A i \in r.todo : Exists(i)
    /\ status' = [i \in Invoices |-> IF i \in r.todo THEN r.want ELSE status[i]]
    /\ Done(w)
    /\ UNCHANGED <<total, payment, refunded, used, noteStatus, applied>>

\* markPaid() asks only that the invoice exists, and makes no payment
MarkPaid(w, i) ==
    /\ worker[w] = Idle /\ Exists(i)
    /\ status' = [status EXCEPT ![i] = "paid"]
    /\ UNCHANGED <<total, payment, refunded, used, noteStatus, applied, worker>>

\* Mutant: cancelled invoices fall overdue as well
SettledPaidOnly == {"paid"}

Settled == {"paid", "cancelled"}

\* getOverdue(): ids are those past their due date
OverdueRead(w, ids) ==
    /\ worker[w] = Idle /\ ids # {}
    /\ \A i \in ids : Exists(i) /\ status[i] \notin Settled
    /\ Continue(w, [pc |-> "overdue", todo |-> ids])
    /\ UNCHANGED tables

OverdueWrite(w) ==
    LET r == worker[w] IN
    /\ r.pc = "overdue"
    /\ status' = [i \in Invoices |->
                    IF i \in r.todo /\ Exists(i) THEN "overdue" ELSE status[i]]
    /\ Done(w)
    /\ UNCHANGED <<total, payment, refunded, used, noteStatus, applied>>

\* sendOverdueReminders(): the cron reads once, and an email is queued before each
\* write; one already overdue gets its email and no write
RemindRead(w, ids) ==
    /\ worker[w] = Idle /\ ids # {}
    /\ \A i \in ids : status[i] \in {"sent", "partial"}
    /\ Continue(w, [pc |-> "remind", todo |-> ids])
    /\ UNCHANGED tables

RemindWrite(w, i) ==
    LET rest == worker[w].todo \ {i} IN
    /\ worker[w].pc = "remind" /\ i \in worker[w].todo
    /\ status' = IF Exists(i) THEN [status EXCEPT ![i] = "overdue"] ELSE status
    /\ Continue(w, IF rest = {} THEN Idle ELSE [pc |-> "remind", todo |-> rest])
    /\ UNCHANGED <<total, payment, refunded, used, noteStatus, applied>>

--------------------------------------------------------------------------------
(* credit-notes.service; a note is born open, so update() and delete(), which ask
   for a draft, never do anything *)

\* The linked invoice; deleting it sets the link to NULL
Linked(n) == IF NoteInvoice[n] \in Invoices /\ status[NoteInvoice[n]] # "deleted"
             THEN NoteInvoice[n] ELSE NoInvoice

NoteCreate(w, n) ==
    /\ worker[w] = Idle /\ noteStatus[n] = "none"
    /\ Linked(n) # NoInvoice => Exists(Linked(n))
    /\ noteStatus' = [noteStatus EXCEPT ![n] = "open"]
    /\ UNCHANGED <<status, total, payment, refunded, used, applied, worker>>

\* Mutant: an applied note may be voided
FinalVoidOnly == {"none", "void"}

Final == {"none", "void", "applied"}

\* void(), and bulkUpdateStatus() to open, closed or void
NoteStatusRead(w, ids, s) ==
    /\ worker[w] = Idle /\ s \in {"open", "closed", "void"}
    /\ LET notes == {n \in ids : noteStatus[n] \notin Final \cup {s}} IN
         notes # {} /\ Continue(w, [pc |-> "noteStatus", notes |-> notes, want |-> s])
    /\ UNCHANGED tables

NoteStatusWrite(w) ==
    LET r == worker[w] IN
    /\ r.pc = "noteStatus"
    /\ noteStatus' = [n \in Notes |-> IF n \in r.notes THEN r.want ELSE noteStatus[n]]
    /\ Done(w)
    /\ UNCHANGED <<status, total, payment, refunded, used, applied>>

ApplyRead(w, n) ==
    /\ worker[w] = Idle /\ noteStatus[n] = "open"
    /\ Continue(w, [pc |-> "apply", note |-> n, invoice |-> Linked(n)])
    /\ UNCHANGED tables

\* The note's whole total becomes a payment of the linked invoice
Apply(w, p) ==
    LET r == worker[w]
        i == r.invoice
        rows == Only(p, Payment(i, NoteTotal[r.note], <<"whole of", r.note>>))
        covered == Sum(Over(rows, payment), i) >= total[i]
    IN  /\ r.pc = "apply" /\ i # NoInvoice /\ p \in Fresh /\ Exists(i)
        /\ Continue(w, Tx("receive", rows, {}, Nothing,
                          Only(i, IF covered THEN "paid" ELSE "partial"), Nothing,
                          Only(r.note, "applied")))
        /\ UNCHANGED tables

\* Without a linked invoice only the status changes
ApplyUnlinked(w) ==
    LET r == worker[w] IN
    /\ r.pc = "apply" /\ r.invoice = NoInvoice
    /\ noteStatus' = [noteStatus EXCEPT ![r.note] = "applied"]
    /\ Done(w)
    /\ UNCHANGED <<status, total, payment, refunded, used, applied>>

\* applyToInvoice(): the note is read before the transaction
ApplyToRead(w, n, i) ==
    /\ worker[w] = Idle /\ noteStatus[n] \in NoteStatuses \ {"void"}
    /\ applied[n] < NoteTotal[n]
    /\ Continue(w, [pc |-> "applyTo", note |-> n, invoice |-> i, seen |-> applied[n]])
    /\ UNCHANGED tables

\* Mutant: the note covers whatever the invoice still needs
DrawnUncapped(left, owed) == owed

Drawn(left, owed) == IF left < owed THEN left ELSE owed

\* Mutant: appliedTotal holds the last application only
NewAppliedLast(seen, a) == a

NewApplied(seen, a) == seen + a

\* What is left of the note was read outside, what the invoice owes is read here
ApplyTo(w, p) ==
    LET r == worker[w]
        i == r.invoice
        n == r.note
        paid == Paid(i)
    IN  /\ r.pc = "applyTo" /\ p \in Fresh /\ Exists(i) /\ total[i] > paid
        /\ \E a \in 1 .. NoteTotal[n] :
             /\ a = Drawn(NoteTotal[n] - r.seen, total[i] - paid)
             /\ Continue(w, Tx("receive",
                  Only(p, Payment(i, a, <<"part of", n>>)), {}, Nothing,
                  Only(i, IF paid + a >= total[i] THEN "paid" ELSE "partial"),
                  Only(n, NewApplied(r.seen, a)),
                  IF NewApplied(r.seen, a) >= NoteTotal[n] THEN Only(n, "applied")
                                                           ELSE Nothing))
        /\ UNCHANGED tables

--------------------------------------------------------------------------------
PaymentRequest(w) ==
    \/ \E p \in Fresh, i \in Invoices, a \in Amounts : Create(w, p, i, a)
    \/ \E batch \in Batches : CreateBatch(w, batch)
    \/ \E t \in Txns : GatewayLookup(w, t)
    \/ \E p \in Fresh : GatewayCreate(w, p)
    \/ \E p \in Payments, a \in Amounts : RefundRead(w, p, a)
    \/ \E q \in Fresh : RefundWrite(w, q)
    \/ \E p \in Payments : Delete(w, p)

InvoiceRequest(w) ==
    \/ \E i \in Invoices : InvoiceCreate(w, i) \/ UpdateRead(w, i)
                             \/ InvoiceDeleteRead(w, i) \/ MarkPaid(w, i)
    \/ Update(w) \/ AutoTax(w) \/ InvoiceDelete(w)
    \/ \E i \in Invoices, s \in Statuses : StatusRead(w, i, s)
    \/ \E ids \in SUBSET Invoices, s \in Statuses : BulkRead(w, ids, s)
    \/ \E ids \in SUBSET Invoices : OverdueRead(w, ids) \/ RemindRead(w, ids)
    \/ StatusWrite(w) \/ OverdueWrite(w)
    \/ \E i \in Invoices : RemindWrite(w, i)

NoteRequest(w) ==
    \/ \E n \in Notes : NoteCreate(w, n) \/ ApplyRead(w, n)
    \/ \E ids \in SUBSET Notes, s \in NoteStatuses : NoteStatusRead(w, ids, s)
    \/ NoteStatusWrite(w) \/ ApplyUnlinked(w)
    \/ \E n \in Notes, i \in Invoices : ApplyToRead(w, n, i)
    \/ \E p \in Fresh : Apply(w, p) \/ ApplyTo(w, p)

Transaction(w) ==
    \/ \E i \in Invoices : Recalculate(w, i)
    \/ Commit(w)
    \/ Abandon(w)

Next == \E w \in Workers : PaymentRequest(w) \/ InvoiceRequest(w) \/ NoteRequest(w)
                             \/ Transaction(w)

Spec == Init /\ [][Next]_vars

--------------------------------------------------------------------------------
(* Properties *)

\* A table or a column of one: some of the ids S, each with a value in T
Partial(f, S, T) == DOMAIN f \subseteq S /\ f \in [DOMAIN f -> T]

IsTx(r) ==
    /\ r = Tx(r.rule, r.insert, r.delete, r.refunded, r.status, r.applied, r.noteStatus)
    /\ r.rule \in {"receive", "refund", "delete"}
    /\ Partial(r.insert, Payments, Row)
    /\ r.delete \subseteq DOMAIN payment
    /\ Partial(r.refunded, Payments, Nat)
    /\ Partial(r.status, Invoices, Statuses)
    /\ Partial(r.applied, Notes, Nat)
    /\ Partial(r.noteStatus, Notes, NoteStatuses)

\* What a request between two transactions remembers
RequestType ==
    [pc : {"idle"}]
      \cup [pc : {"gateway"}, txn : Txns]
      \cup [pc : {"refund"}, payment : Payments, amount : Nat \ {0}, seen : Nat]
      \cup [pc : {"tax", "update", "delete"}, invoice : Invoices]
      \cup [pc : {"status"}, todo : SUBSET Invoices, want : Statuses]
      \cup [pc : {"overdue", "remind"}, todo : SUBSET Invoices]
      \cup [pc : {"noteStatus"}, notes : SUBSET Notes, want : NoteStatuses]
      \cup [pc : {"apply"}, note : Notes, invoice : Invoices \cup {NoInvoice}]
      \cup [pc : {"applyTo"}, note : Notes, invoice : Invoices, seen : Nat]

TypeOK ==
    /\ status \in [Invoices -> Statuses \cup {"none", "deleted"}]
    /\ total \in [Invoices -> Nat]
    /\ Partial(payment, Payments, Row)
    /\ refunded \in [Payments -> Nat]
    /\ used \in SUBSET Payments /\ DOMAIN payment \subseteq used
    /\ noteStatus \in [Notes -> NoteStatuses \cup {"none"}]
    /\ applied \in [Notes -> Nat]
    /\ worker = [w \in Workers |-> worker[w]]
    /\ \A w \in Workers : worker[w] \in RequestType \/ (InTx(w) /\ IsTx(worker[w]))

\* refund(): however many refunds of one payment overlap, refundedAmount never says
\* that more was given back than was paid.
RefundedWithinPayment ==
    \A p \in DOMAIN payment : refunded[p] > 0 => refunded[p] <= payment[p].amount

\* applyToInvoice(): however many applications of one credit note overlap, appliedTotal
\* never exceeds the note.
AppliedWithinNote == \A n \in Notes : applied[n] <= NoteTotal[n]

\* What the two bounds rest on.  A row a payment or an open transaction names is there;
\* transactions neither insert nor delete the same row; and what a request has read,
\* or a transaction is about to write, is within the payment and within the note.
ForeignKeys ==
    /\ \A p \in DOMAIN payment : Exists(payment[p].invoice)
    /\ \A w \in Workers : InTx(w) => \A i \in Touched(worker[w]) : Exists(i)

Exclusive ==
    \A w \in Workers : InTx(w) =>
        /\ DOMAIN worker[w].insert \cap used = {}
        /\ \A v \in Workers \ {w} : InTx(v) =>
             /\ DOMAIN worker[v].insert \cap DOMAIN worker[w].insert = {}
             /\ worker[v].delete \cap worker[w].delete = {}

UnusedUnstamped == \A p \in Payments \ used : refunded[p] = 0

WithinPayment(p, x) == p \in used /\ (p \in DOMAIN payment => x <= payment[p].amount)

ClaimsHold(r) ==
    /\ r.pc = "refund" => WithinPayment(r.payment, r.seen + r.amount)
    /\ r.pc = "tx" => \A p \in DOMAIN r.refunded : WithinPayment(p, r.refunded[p])
    /\ r.pc = "tx" => \A n \in DOMAIN r.applied : r.applied[n] <= NoteTotal[n]

SettlementInv ==
    /\ TypeOK /\ ForeignKeys /\ Exclusive /\ UnusedUnstamped
    /\ \A w \in Workers : ClaimsHold(worker[w])
    /\ RefundedWithinPayment /\ AppliedWithinNote

RefundedBy(p) == - MapThenSumSet(LAMBDA q : payment[q].amount,
                   {q \in DOMAIN payment : payment[q].from = <<"refund", p>>})

DrawnFrom(n) == MapThenSumSet(LAMBDA p : payment[p].amount,
                   {p \in DOMAIN payment : payment[p].from = <<"part of", n>>})

\* The stamp on a payment covers every refund row made of it, so no more than the
\* payment is ever given back.
RefundsStamped == \A p \in DOMAIN payment : RefundedBy(p) <= refunded[p]

\* appliedTotal covers every payment applyToInvoice() made from the note, so the note
\* is never spent twice.
NoteSpentOnce == \A n \in Notes : DrawnFrom(n) <= applied[n]

\* handleGatewayWebhook(): one gateway transaction is booked as one payment, however
\* often the gateway notifies.
GatewayOnce ==
    \A p, q \in DOMAIN payment :
        payment[p].from = payment[q].from /\ payment[p].from[1] = "gateway" => p = q

\* No invoice that shows as unpaid has net payments: send, status changes, refunds and
\* deletions agree with the ledger.
UnpaidHasNoMoney ==
    \A i \in Invoices :
        status[i] \in {"draft", "sent", "viewed", "unpaid"} => Paid(i) <= 0

\* When the payments of an invoice change and come to something, the invoice is paid
\* afterwards only if they cover it.  (When they come to nothing, as when the original
\* of a refund is deleted, create() keeps the status there was, even paid.)
LedgerDecidesPaid ==
    [][\A i \in Invoices :
         /\ Paid(i)' # Paid(i) /\ Paid(i)' > 0
         /\ status'[i] = "paid"
         => Paid(i)' >= total[i]]_vars

\* Paid and cancelled have no way out in ALLOWED_TRANSITIONS: only a change of the
\* payments, or markPaid, ends them.
SettledIsLeftByMoney ==
    [][\A i \in Invoices :
         /\ status[i] \in {"paid", "cancelled"}
         /\ status'[i] \notin {status[i], "paid"}
         => Paid(i)' # Paid(i)]_vars

\* A credit note that is void or applied stays so.
NoteIsFinal ==
    [][\A n \in Notes :
         noteStatus[n] \in {"void", "applied"} => noteStatus'[n] = noteStatus[n]]_vars

================================================================================
