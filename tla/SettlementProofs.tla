---------------------------- MODULE SettlementProofs ----------------------------
(***************************************************************************)
(* Proofs about Settlement, for any requests, rows and amounts: its type,  *)
(* and that refundedAmount and appliedTotal stay within the payment and    *)
(* the credit note although they are computed from stale reads; and, when  *)
(* requests come one at a time, that statuses, stamps and notes agree with *)
(* the sums of the payments.                                               *)
(***************************************************************************)
EXTENDS Settlement, FiniteSetTheorems, SumLemmas, TLAPS

--------------------------------------------------------------------------------
(* Columns *)

LEMMA OnlyIsPartial ==
    ASSUME NEW S, NEW T, NEW x \in S, NEW v \in T
    PROVE  Partial(Only(x, v), S, T) /\ DOMAIN Only(x, v) = {x} /\ Only(x, v)[x] = v
BY DEF Only, Partial

LEMMA NothingIsPartial ==
    ASSUME NEW S, NEW T
    PROVE  Partial(Nothing, S, T) /\ DOMAIN Nothing = {}
BY DEF Nothing, Partial

LEMMA OverIsPartial ==
    ASSUME NEW S, NEW T, NEW f, NEW g, Partial(f, S, T), Partial(g, S, T)
    PROVE  Partial(Over(f, g), S, T)
BY DEF Over, Partial

LEMMA OverIsTotal ==
    ASSUME NEW S, NEW T, NEW f, NEW g, Partial(f, S, T), g \in [S -> T]
    PROVE  Over(f, g) \in [S -> T]
BY DEF Over, Partial

LEMMA WithoutIsPartial ==
    ASSUME NEW S, NEW T, NEW f, NEW D, Partial(f, S, T)
    PROVE  Partial(Without(f, D), S, T)
BY DEF Without, Partial

\* A request between transactions is in none, and an idle one remembers nothing
LEMMA RequestIsNoTx ==
    ASSUME NEW r \in RequestType
    PROVE  r.pc # "tx"
BY DEF RequestType

LEMMA IdleIsRequest == Idle \in RequestType /\ Idle.pc = "idle"
BY DEF RequestType, Idle

--------------------------------------------------------------------------------
(* One request moves on *)

\* It ends between two transactions, having written at most statuses and totals
LEMMA RequestStep ==
    ASSUME SettlementInv, NEW w \in Workers, NEW r \in RequestType,
           worker' = [worker EXCEPT ![w] = r], ClaimsHold(r),
           status' \in [Invoices -> Statuses \cup {"none", "deleted"}],
           total' \in [Invoices -> Nat],
           noteStatus' \in [Notes -> NoteStatuses \cup {"none"}],
           UNCHANGED <<payment, refunded, used, applied>>,
           \A p \in DOMAIN payment : status'[payment[p].invoice] \in Statuses,
           \A v \in Workers : InTx(v) =>
              \A i \in Touched(worker[v]) : status'[i] \in Statuses
    PROVE  SettlementInv'
<1>1. \A v \in Workers \ {w} : worker'[v] = worker[v]
  BY DEF SettlementInv, TypeOK
<1>2. worker'[w] = r
  BY DEF SettlementInv, TypeOK
<1>3. r.pc # "tx"
  BY RequestIsNoTx
<1>4. \A v \in Workers : InTx(v)' => v # w /\ InTx(v)
  BY <1>1, <1>2, <1>3 DEF InTx
<1>5. \A v \in Workers : InTx(v)' => Touched(worker[v])' = Touched(worker[v])
  BY <1>1, <1>4 DEF Touched
<1>6. TypeOK'
  <2>1. worker' = [v \in Workers |-> worker'[v]]
    BY DEF SettlementInv, TypeOK
  <2>2. ASSUME NEW v \in Workers
        PROVE  worker'[v] \in RequestType \/ (InTx(v)' /\ IsTx(worker[v])')
    <3>1. CASE v = w
      BY <3>1, <1>2
    <3>2. CASE v # w
      BY <3>2, <1>1 DEF SettlementInv, TypeOK, InTx, IsTx
    <3> QED BY <3>1, <3>2
  <2> QED BY <2>1, <2>2 DEF SettlementInv, TypeOK
<1>7. ForeignKeys'
  BY <1>1, <1>4, <1>5 DEF SettlementInv, ForeignKeys, Exists
<1>8. Exclusive'
  BY <1>1, <1>4 DEF SettlementInv, Exclusive
<1>9. UnusedUnstamped' /\ RefundedWithinPayment' /\ AppliedWithinNote'
  BY DEF SettlementInv, UnusedUnstamped, RefundedWithinPayment, AppliedWithinNote
<1>10. \A v \in Workers : ClaimsHold(worker[v])'
  BY <1>1, <1>2 DEF SettlementInv, ClaimsHold, WithinPayment
<1> QED BY <1>6, <1>7, <1>8, <1>9, <1>10 DEF SettlementInv

\* A request that has only read
LEMMA RequestKeepsTables ==
    ASSUME SettlementInv, NEW w \in Workers, NEW r \in RequestType,
           worker' = [worker EXCEPT ![w] = r], ClaimsHold(r), UNCHANGED tables
    PROVE  SettlementInv'
BY RequestStep DEF tables, SettlementInv, TypeOK, ForeignKeys, Exists

\* It has begun a transaction, or gone on in one
LEMMA TransactionStep ==
    ASSUME SettlementInv, NEW w \in Workers, NEW r,
           worker' = [worker EXCEPT ![w] = r], UNCHANGED tables,
           r.pc = "tx", IsTx(r), ClaimsHold(r),
           \A i \in Touched(r) : Exists(i),
           DOMAIN r.insert \cap used = {},
           \A v \in Workers \ {w} : InTx(v) =>
              /\ DOMAIN worker[v].insert \cap DOMAIN r.insert = {}
              /\ worker[v].delete \cap r.delete = {}
    PROVE  SettlementInv'
<1>1. \A v \in Workers \ {w} : worker'[v] = worker[v]
  BY DEF SettlementInv, TypeOK
<1>2. worker'[w] = r
  BY DEF SettlementInv, TypeOK
<1>3. \A v \in Workers \ {w} : InTx(v)' <=> InTx(v)
  BY <1>1 DEF InTx
<1>4. \A v \in Workers \ {w} : Touched(worker[v])' = Touched(worker[v])
  BY <1>1 DEF Touched, tables
<1>5. Touched(worker[w])' = Touched(r)
  BY <1>2 DEF Touched, tables
<1>6. TypeOK'
  <2>1. worker' = [v \in Workers |-> worker'[v]]
    BY DEF SettlementInv, TypeOK
  <2>2. ASSUME NEW v \in Workers
        PROVE  worker'[v] \in RequestType \/ (InTx(v)' /\ IsTx(worker[v])')
    <3>1. CASE v = w
      BY <3>1, <1>2 DEF InTx, IsTx, tables
    <3>2. CASE v # w
      BY <3>2, <1>1 DEF SettlementInv, TypeOK, InTx, IsTx, tables
    <3> QED BY <3>1, <3>2
  <2> QED BY <2>1, <2>2 DEF SettlementInv, TypeOK, tables
<1>7. ForeignKeys'
  BY <1>3, <1>4, <1>5 DEF SettlementInv, ForeignKeys, Exists, tables
<1>8. Exclusive'
  BY <1>1, <1>2, <1>3 DEF SettlementInv, Exclusive, tables
<1>9. UnusedUnstamped' /\ RefundedWithinPayment' /\ AppliedWithinNote'
  BY DEF SettlementInv, UnusedUnstamped, RefundedWithinPayment, AppliedWithinNote, tables
<1>10. \A v \in Workers : ClaimsHold(worker[v])'
  BY <1>1, <1>2 DEF SettlementInv, ClaimsHold, WithinPayment, tables
<1> QED BY <1>6, <1>7, <1>8, <1>9, <1>10 DEF SettlementInv

\* It has begun a transaction that inserts fresh rows for invoices that are there
LEMMA InsertStep ==
    ASSUME SettlementInv, NEW w \in Workers, NEW r,
           worker' = [worker EXCEPT ![w] = r], UNCHANGED tables,
           r.pc = "tx", IsTx(r), ClaimsHold(r), r.delete = {},
           DOMAIN r.insert \subseteq Fresh,
           \A p \in DOMAIN r.insert : Exists(r.insert[p].invoice)
    PROVE  SettlementInv'
<1>1. \A i \in Touched(r) : Exists(i)
  BY DEF Touched
<1>2. DOMAIN r.insert \cap used = {}
  BY DEF Fresh
<1>3. \A v \in Workers \ {w} : InTx(v) =>
        /\ DOMAIN worker[v].insert \cap DOMAIN r.insert = {}
        /\ worker[v].delete \cap r.delete = {}
  BY DEF Fresh
<1> QED BY <1>1, <1>2, <1>3, TransactionStep

\* The columns of a transaction
LEMMA TxFields ==
    ASSUME NEW a, NEW b, NEW c, NEW d, NEW e, NEW f, NEW g
    PROVE  LET r == Tx(a, b, c, d, e, f, g) IN
             /\ r.pc = "tx" /\ r.rule = a /\ r.insert = b /\ r.delete = c
             /\ r.refunded = d /\ r.status = e /\ r.applied = f /\ r.noteStatus = g
BY DEF Tx

LEMMA TxIsTx ==
    ASSUME NEW a \in {"receive", "refund", "delete"},
           NEW b, Partial(b, Payments, Row), NEW c \in SUBSET DOMAIN payment,
           NEW d, Partial(d, Payments, Nat), NEW e, Partial(e, Invoices, Statuses),
           NEW f, Partial(f, Notes, Nat), NEW g, Partial(g, Notes, NoteStatuses)
    PROVE  IsTx(Tx(a, b, c, d, e, f, g))
<1> DEFINE r == Tx(a, b, c, d, e, f, g)
<1>1. /\ r.pc = "tx" /\ r.rule = a /\ r.insert = b /\ r.delete = c
      /\ r.refunded = d /\ r.status = e /\ r.applied = f /\ r.noteStatus = g
  BY TxFields
<1>2. r = Tx(r.rule, r.insert, r.delete, r.refunded, r.status, r.applied, r.noteStatus)
  BY <1>1
<1> HIDE DEF r
<1>3. IsTx(r)
  BY <1>1, <1>2 DEF IsTx
<1> QED BY <1>3 DEF r

\* create, createBatch and the gateway's create: nothing but the rows is planned yet
LEMMA ReceiveStep ==
    ASSUME SettlementInv, NEW w \in Workers, NEW rows,
           worker' = [worker EXCEPT ![w] = Receive(rows)], UNCHANGED tables,
           Partial(rows, Payments, Row), DOMAIN rows \subseteq Fresh,
           \A p \in DOMAIN rows : Exists(rows[p].invoice)
    PROVE  SettlementInv'
<1> DEFINE r == Receive(rows)
<1>1. IsTx(r)
  BY TxIsTx, NothingIsPartial DEF Receive, Begin
<1>2. /\ r.pc = "tx" /\ r.insert = rows /\ r.delete = {}
      /\ r.refunded = Nothing /\ r.applied = Nothing
  BY TxFields DEF Receive, Begin
<1> HIDE DEF r
<1>3. ClaimsHold(r)
  BY <1>2, NothingIsPartial DEF ClaimsHold
<1>4. worker' = [worker EXCEPT ![w] = r]
  BY DEF r
<1> QED BY <1>1, <1>2, <1>3, <1>4, InsertStep

\* A new payment is a row of the table
LEMMA PaymentIsRow ==
    ASSUME NEW i \in Invoices, NEW a \in Int, NEW from \in Origins
    PROVE  Payment(i, a, from) \in Row /\ Payment(i, a, from).invoice = i
BY DEF Payment, Row

LEMMA PaymentOrigins ==
    /\ <<"hand">> \in Origins
    /\ \A t \in Txns : <<"gateway", t>> \in Origins
    /\ \A p \in Payments : <<"refund", p>> \in Origins
    /\ \A n \in Notes : <<"part of", n>> \in Origins /\ <<"whole of", n>> \in Origins
BY DEF Origins

LEMMA AmountsAreNumbers == Amounts \subseteq Int /\ Amounts \subseteq Nat \ {0}
BY AmountsAssumption

LEMMA FreshArePayments == Fresh \subseteq Payments
BY DEF Fresh

LEMMA OneRow ==
    ASSUME NEW p \in Fresh, NEW row \in Row
    PROVE  Partial(Only(p, row), Payments, Row)
             /\ DOMAIN Only(p, row) = {p} /\ Only(p, row)[p] = row
<1>1. p \in Payments
  BY FreshArePayments
<1> QED BY <1>1, OnlyIsPartial

--------------------------------------------------------------------------------
(* Requests about payments *)

LEMMA PaymentRequestStep ==
    ASSUME SettlementInv, NEW w \in Workers, PaymentRequest(w)
    PROVE  SettlementInv'
<1> USE DEF Continue
<1>1. ASSUME NEW p \in Fresh, NEW i \in Invoices, NEW a \in Amounts, Create(w, p, i, a)
      PROVE  SettlementInv'
  <2> DEFINE row == Payment(i, a, <<"hand">>)
  <2>1. row \in Row /\ row.invoice = i
    BY PaymentIsRow, PaymentOrigins, AmountsAreNumbers
  <2>2. /\ Partial(Only(p, row), Payments, Row)
        /\ DOMAIN Only(p, row) = {p} /\ Only(p, row)[p] = row
    <3> HIDE DEF row
    <3> QED BY <2>1, OneRow
  <2> DEFINE rows == Only(p, row)
  <2>3. worker' = [worker EXCEPT ![w] = Receive(rows)] /\ UNCHANGED tables /\ Exists(i)
    BY <1>1 DEF Create
  <2> HIDE DEF row, rows
  <2> QED BY <2>1, <2>2, <2>3, ReceiveStep DEF rows
<1>2. ASSUME NEW batch \in Batches, CreateBatch(w, batch)
      PROVE  SettlementInv'
  <2>1. PICK P \in SUBSET Fresh :
          batch \in [P -> {Payment(i, a, <<"hand">>) : i \in Invoices, a \in Amounts}]
    BY DEF Batches
  <2>2. {Payment(i, a, <<"hand">>) : i \in Invoices, a \in Amounts} \subseteq Row
    <3>1. \A i \in Invoices, a \in Amounts : Payment(i, a, <<"hand">>) \in Row
      BY PaymentIsRow, PaymentOrigins, AmountsAreNumbers
    <3> QED BY <3>1
  <2>3. Partial(batch, Payments, Row) /\ DOMAIN batch \subseteq Fresh
    BY <2>1, <2>2, FreshArePayments DEF Partial
  <2> QED BY <1>2, <2>3, ReceiveStep DEF CreateBatch
<1>3. ASSUME NEW t \in Txns, GatewayLookup(w, t)
      PROVE  SettlementInv'
  <2>1. [pc |-> "gateway", txn |-> t] \in RequestType
    BY DEF RequestType
  <2> QED BY <1>3, <2>1, RequestKeepsTables DEF GatewayLookup, ClaimsHold
<1>4. ASSUME NEW p \in Fresh, GatewayCreate(w, p)
      PROVE  SettlementInv'
  <2> DEFINE t == worker[w].txn
             i == TxnInvoice[t]
             row == Payment(i, TxnAmount[t], <<"gateway", t>>)
  <2>1. t \in Txns
    BY <1>4 DEF GatewayCreate, SettlementInv, TypeOK, RequestType, InTx
  <2>2. row \in Row /\ row.invoice = i
    <3>1. i \in Invoices /\ TxnAmount[t] \in Int
      BY <2>1, TxnAssumption
    <3> QED BY <2>1, <3>1, PaymentIsRow, PaymentOrigins
  <2>3. /\ Partial(Only(p, row), Payments, Row)
        /\ DOMAIN Only(p, row) = {p} /\ Only(p, row)[p] = row
    <3> HIDE DEF row
    <3> QED BY <2>2, OneRow
  <2> DEFINE rows == Only(p, row)
  <2>4. worker' = [worker EXCEPT ![w] = Receive(rows)] /\ UNCHANGED tables /\ Exists(i)
    BY <1>4 DEF GatewayCreate
  <2> HIDE DEF i, row, rows
  <2> QED BY <2>2, <2>3, <2>4, ReceiveStep DEF rows
<1>5. ASSUME NEW p \in Payments, NEW a \in Amounts, RefundRead(w, p, a)
      PROVE  SettlementInv'
  <2> DEFINE r == [pc |-> "refund", payment |-> p, amount |-> a, seen |-> refunded[p]]
  <2>1. r \in RequestType
    BY AmountsAssumption DEF RequestType, SettlementInv, TypeOK
  <2>2. ClaimsHold(r)
    BY <1>5 DEF RefundRead, Refundable, ClaimsHold, WithinPayment, SettlementInv, TypeOK
  <2> HIDE DEF r
  <2>3. worker' = [worker EXCEPT ![w] = r] /\ UNCHANGED tables
    BY <1>5 DEF RefundRead, r
  <2> QED BY <2>1, <2>2, <2>3, RequestKeepsTables
<1>6. ASSUME NEW q \in Fresh, RefundWrite(w, q)
      PROVE  SettlementInv'
  <2> DEFINE s == worker[w]
             row == Payment(payment[s.payment].invoice, -s.amount,
                            <<"refund", s.payment>>)
  <2>1. s.payment \in Payments /\ s.amount \in Nat \ {0} /\ s.seen \in Nat
    BY <1>6 DEF RefundWrite, SettlementInv, TypeOK, RequestType, InTx
  <2>2. payment[s.payment].invoice \in Invoices /\ Exists(payment[s.payment].invoice)
    BY <1>6 DEF RefundWrite, SettlementInv, TypeOK, Partial, Row, ForeignKeys
  <2>3. row \in Row /\ row.invoice = payment[s.payment].invoice
    <3>1. -s.amount \in Int
      BY <2>1
    <3> QED BY <2>1, <2>2, <3>1, PaymentIsRow, PaymentOrigins
  <2>4. /\ Partial(Only(q, row), Payments, Row)
        /\ DOMAIN Only(q, row) = {q} /\ Only(q, row)[q] = row
    <3> HIDE DEF row
    <3> QED BY <2>3, OneRow
  <2>5. Stamp(s.seen, s.amount) \in Nat
    BY <2>1 DEF Stamp
  <2> DEFINE new == Stamp(s.seen, s.amount)
             stamp == Only(s.payment, new)
  <2>6. /\ Partial(stamp, Payments, Nat)
        /\ DOMAIN stamp = {s.payment} /\ stamp[s.payment] = new
    <3> DEFINE o == s.payment
    <3>1. o \in Payments /\ new \in Nat
      BY <2>1, <2>5
    <3> HIDE DEF o, new
    <3>2. Partial(Only(o, new), Payments, Nat) /\ DOMAIN Only(o, new) = {o}
            /\ Only(o, new)[o] = new
      BY <3>1, OnlyIsPartial
    <3> QED BY <3>2 DEF o
  <2>7. WithinPayment(s.payment, Stamp(s.seen, s.amount))
    BY <1>6 DEF RefundWrite, SettlementInv, ClaimsHold, Stamp
  <2> DEFINE rows == Only(q, row)
             r == Begin("refund", rows, {}, stamp)
  <2>8. worker' = [worker EXCEPT ![w] = r] /\ UNCHANGED tables
    BY <1>6 DEF RefundWrite
  <2> HIDE DEF row, rows, stamp
  <2>9. IsTx(r)
    BY <2>4, <2>6, TxIsTx, NothingIsPartial DEF Begin, rows
  <2>10. /\ r.pc = "tx" /\ r.insert = rows /\ r.delete = {}
         /\ r.refunded = stamp /\ r.applied = Nothing
    BY TxFields DEF Begin
  <2> HIDE DEF r
  <2>11. ClaimsHold(r)
    BY <2>6, <2>7, <2>10, NothingIsPartial DEF ClaimsHold
  <2>12. \A p \in DOMAIN r.insert : p \in Fresh /\ Exists(r.insert[p].invoice)
    BY <2>2, <2>3, <2>4, <2>10 DEF rows
  <2> QED BY <2>8, <2>9, <2>10, <2>11, <2>12, InsertStep
<1>7. ASSUME NEW p \in Payments, Delete(w, p)
      PROVE  SettlementInv'
  <2> DEFINE r == Begin("delete", Nothing, {p}, Nothing)
  <2>1. /\ r.pc = "tx" /\ r.insert = Nothing /\ r.delete = {p}
        /\ r.refunded = Nothing /\ r.applied = Nothing
    BY TxFields DEF Begin
  <2>2. worker' = [worker EXCEPT ![w] = r] /\ UNCHANGED tables /\ p \in DOMAIN payment
    BY <1>7 DEF Delete
  <2>3. IsTx(r)
    BY <2>2, TxIsTx, NothingIsPartial DEF Begin
  <2> HIDE DEF r
  <2>4. ClaimsHold(r)
    BY <2>1, NothingIsPartial DEF ClaimsHold
  <2>5. \A i \in Touched(r) : Exists(i)
    BY <2>1, <2>2, NothingIsPartial DEF Touched, SettlementInv, ForeignKeys
  <2>6. \A v \in Workers \ {w} : InTx(v) =>
          /\ DOMAIN worker[v].insert \cap DOMAIN r.insert = {}
          /\ worker[v].delete \cap r.delete = {}
    BY <1>7, <2>1, NothingIsPartial DEF Delete, Locked
  <2>7. r.pc = "tx" /\ DOMAIN r.insert \cap used = {}
    BY <2>1, NothingIsPartial
  <2> QED BY <2>2, <2>3, <2>4, <2>5, <2>6, <2>7, TransactionStep
<1> QED
  BY <1>1, <1>2, <1>3, <1>4, <1>5, <1>6, <1>7 DEF PaymentRequest

--------------------------------------------------------------------------------
(* Requests about invoices *)

\* A status or a total is written and nothing else: existing invoices stay
LEMMA InvoiceWrite ==
    ASSUME SettlementInv, NEW w \in Workers, NEW r \in RequestType,
           worker' = [worker EXCEPT ![w] = r], ClaimsHold(r),
           status' \in [Invoices -> Statuses \cup {"none", "deleted"}],
           total' \in [Invoices -> Nat],
           \A i \in Invoices : Exists(i) => status'[i] \in Statuses,
           UNCHANGED <<payment, refunded, used, noteStatus, applied>>
    PROVE  SettlementInv'
<1>1. \A p \in DOMAIN payment : status'[payment[p].invoice] \in Statuses
  BY DEF SettlementInv, TypeOK, Partial, Row, ForeignKeys
<1>2. ASSUME NEW v \in Workers, InTx(v), NEW i \in Touched(worker[v])
      PROVE  status'[i] \in Statuses
  <2>1. IsTx(worker[v])
    BY <1>2, RequestIsNoTx DEF SettlementInv, TypeOK, InTx
  <2>2. i \in Invoices
    BY <1>2, <2>1 DEF Touched, IsTx, SettlementInv, TypeOK, Partial, Row
  <2> QED BY <1>2, <2>2 DEF SettlementInv, ForeignKeys
<1>3. noteStatus' \in [Notes -> NoteStatuses \cup {"none"}]
  BY DEF SettlementInv, TypeOK
<1> QED BY <1>1, <1>2, <1>3, RequestStep

\* What a request remembers about invoices claims nothing about payments and notes
LEMMA PlainRequests ==
    /\ \A i \in Invoices, pc \in {"tax", "update", "delete"} :
         [pc |-> pc, invoice |-> i] \in RequestType
    /\ \A S \in SUBSET Invoices, s \in Statuses :
         [pc |-> "status", todo |-> S, want |-> s] \in RequestType
    /\ \A S \in SUBSET Invoices, pc \in {"overdue", "remind"} :
         [pc |-> pc, todo |-> S] \in RequestType
    /\ \A S \in SUBSET Notes, s \in NoteStatuses :
         [pc |-> "noteStatus", notes |-> S, want |-> s] \in RequestType
    /\ \A r : r.pc \notin {"refund", "tx"} => ClaimsHold(r)
BY DEF RequestType, ClaimsHold

LEMMA ChosenTotals ==
    ASSUME SettlementInv, NEW i \in Invoices, NEW worth \in Totals
    PROVE  [total EXCEPT ![i] = worth] \in [Invoices -> Nat]
BY AmountsAssumption DEF SettlementInv, TypeOK

LEMMA ChosenStatus ==
    ASSUME SettlementInv, NEW i \in Invoices, NEW s \in Statuses
    PROVE  LET new == [status EXCEPT ![i] = s] IN
             /\ new \in [Invoices -> Statuses \cup {"none", "deleted"}]
             /\ \A j \in Invoices : Exists(j) => new[j] \in Statuses
BY DEF SettlementInv, TypeOK, Exists

LEMMA ChosenStatuses ==
    ASSUME SettlementInv, NEW S, NEW s \in Statuses
    PROVE  LET new == [i \in Invoices |-> IF i \in S THEN s ELSE status[i]] IN
             /\ new \in [Invoices -> Statuses \cup {"none", "deleted"}]
             /\ \A j \in Invoices : Exists(j) => new[j] \in Statuses
BY DEF SettlementInv, TypeOK, Exists

LEMMA OldColumns ==
    ASSUME SettlementInv
    PROVE  /\ status \in [Invoices -> Statuses \cup {"none", "deleted"}]
           /\ total \in [Invoices -> Nat]
           /\ \A j \in Invoices : Exists(j) => status[j] \in Statuses
BY DEF SettlementInv, TypeOK, Exists

LEMMA InvoiceRequestStep ==
    ASSUME SettlementInv, NEW w \in Workers, InvoiceRequest(w)
    PROVE  SettlementInv'
<1> USE DEF Continue, Done
<1>1. ASSUME NEW i \in Invoices, InvoiceCreate(w, i) PROVE SettlementInv'
  <2>1. PICK s \in {"draft", "sent"}, worth \in Totals :
          status' = [status EXCEPT ![i] = s] /\ total' = [total EXCEPT ![i] = worth]
    BY <1>1 DEF InvoiceCreate
  <2>2. s \in Statuses
    BY DEF Statuses
  <2> QED BY <1>1, <2>1, <2>2, ChosenStatus, ChosenTotals, PlainRequests, InvoiceWrite
          DEF InvoiceCreate
<1>2. ASSUME NEW i \in Invoices, UpdateRead(w, i) PROVE SettlementInv'
  BY <1>2, PlainRequests, RequestKeepsTables DEF UpdateRead
<1>3. ASSUME NEW i \in Invoices, InvoiceDeleteRead(w, i) PROVE SettlementInv'
  BY <1>3, PlainRequests, RequestKeepsTables DEF InvoiceDeleteRead
<1>4. ASSUME NEW i \in Invoices, MarkPaid(w, i) PROVE SettlementInv'
  <2>1. "paid" \in Statuses
    BY DEF Statuses
  <2>2. worker[w] = Idle /\ worker' = [worker EXCEPT ![w] = Idle]
    BY <1>4 DEF MarkPaid, SettlementInv, TypeOK
  <2> QED BY <1>4, <2>1, <2>2, IdleIsRequest, PlainRequests, ChosenStatus, OldColumns,
             InvoiceWrite DEF MarkPaid
<1>5. ASSUME Update(w) PROVE SettlementInv'
  <2> DEFINE i == worker[w].invoice
  <2>1. i \in Invoices
    BY <1>5 DEF Update, SettlementInv, TypeOK, RequestType, InTx
  <2>2. PICK worth \in Totals : total' = [total EXCEPT ![i] = worth]
    BY <1>5 DEF Update
  <2> HIDE DEF i
  <2>3. worker' = [worker EXCEPT ![w] = [pc |-> "tax", invoice |-> i]]
    BY <1>5 DEF Update, i
  <2> QED BY <1>5, <2>1, <2>2, <2>3, ChosenTotals, PlainRequests, OldColumns, InvoiceWrite
          DEF Update
<1>6. ASSUME AutoTax(w) PROVE SettlementInv'
  <2> DEFINE i == worker[w].invoice
  <2>1. i \in Invoices
    BY <1>6 DEF AutoTax, SettlementInv, TypeOK, RequestType, InTx
  <2>2. PICK worth \in Totals : total' = [total EXCEPT ![i] = worth]
    BY <1>6 DEF AutoTax
  <2> HIDE DEF i
  <2> QED BY <1>6, <2>1, <2>2, ChosenTotals, IdleIsRequest, PlainRequests, OldColumns,
             InvoiceWrite DEF AutoTax
<1>7. ASSUME InvoiceDelete(w) PROVE SettlementInv'
  <2> DEFINE i == worker[w].invoice
  <2>1. i \in Invoices
    BY <1>7 DEF InvoiceDelete, SettlementInv, TypeOK, RequestType, InTx
  <2>2. status' = [status EXCEPT ![i] = "deleted"]
    BY <1>7 DEF InvoiceDelete
  <2> HIDE DEF i
  <2>3. status' \in [Invoices -> Statuses \cup {"none", "deleted"}]
    BY <2>1, <2>2 DEF SettlementInv, TypeOK
  <2>4. \A j : j # i => status'[j] = status[j]
    BY <2>1, <2>2 DEF SettlementInv, TypeOK
  <2>5. \A p \in DOMAIN payment : status'[payment[p].invoice] \in Statuses
    BY <1>7, <2>4 DEF InvoiceDelete, i, SettlementInv, ForeignKeys, Exists
  <2>6. \A v \in Workers : InTx(v) => \A j \in Touched(worker[v]) : status'[j] \in Statuses
    BY <1>7, <2>4 DEF InvoiceDelete, i, SettlementInv, ForeignKeys, Exists
  <2>7. noteStatus' \in [Notes -> NoteStatuses \cup {"none"}] /\ total' \in [Invoices -> Nat]
    BY <1>7 DEF InvoiceDelete, SettlementInv, TypeOK
  <2> QED BY <1>7, <2>3, <2>5, <2>6, <2>7, IdleIsRequest, PlainRequests, RequestStep
          DEF InvoiceDelete
<1>8. ASSUME NEW i \in Invoices, NEW s \in Statuses, StatusRead(w, i, s)
      PROVE  SettlementInv'
  BY <1>8, PlainRequests, RequestKeepsTables DEF StatusRead
<1>9. ASSUME NEW ids \in SUBSET Invoices, NEW s \in Statuses, BulkRead(w, ids, s)
      PROVE  SettlementInv'
  <2> DEFINE todo == {i \in ids : s \in Allowed[status[i]]}
  <2>1. todo \in SUBSET Invoices
    OBVIOUS
  <2>2. worker' = [worker EXCEPT ![w] = [pc |-> "status", todo |-> todo, want |-> s]]
    BY <1>9 DEF BulkRead
  <2> HIDE DEF todo
  <2> QED BY <1>9, <2>1, <2>2, PlainRequests, RequestKeepsTables DEF BulkRead
<1>10. ASSUME NEW ids \in SUBSET Invoices, OverdueRead(w, ids) PROVE SettlementInv'
  BY <1>10, PlainRequests, RequestKeepsTables DEF OverdueRead
<1>11. ASSUME NEW ids \in SUBSET Invoices, RemindRead(w, ids) PROVE SettlementInv'
  BY <1>11, PlainRequests, RequestKeepsTables DEF RemindRead
<1>12. ASSUME StatusWrite(w) PROVE SettlementInv'
  <2>1. worker[w].want \in Statuses
    BY <1>12 DEF StatusWrite, SettlementInv, TypeOK, RequestType, InTx
  <2>2. /\ status' \in [Invoices -> Statuses \cup {"none", "deleted"}]
        /\ \A j \in Invoices : Exists(j) => status'[j] \in Statuses
    BY <1>12, <2>1, ChosenStatuses DEF StatusWrite
  <2>3. total' \in [Invoices -> Nat]
    BY <1>12, OldColumns DEF StatusWrite
  <2> QED BY <1>12, <2>2, <2>3, IdleIsRequest, PlainRequests, InvoiceWrite
          DEF StatusWrite
<1>13. ASSUME OverdueWrite(w) PROVE SettlementInv'
  <2> DEFINE S == {i \in worker[w].todo : Exists(i)}
  <2>1. status' = [i \in Invoices |-> IF i \in S THEN "overdue" ELSE status[i]]
    BY <1>13 DEF OverdueWrite
  <2>2. "overdue" \in Statuses
    BY DEF Statuses
  <2> HIDE DEF S
  <2>3. /\ status' \in [Invoices -> Statuses \cup {"none", "deleted"}]
        /\ \A j \in Invoices : Exists(j) => status'[j] \in Statuses
    BY <2>1, <2>2, ChosenStatuses
  <2>4. total' \in [Invoices -> Nat]
    BY <1>13, OldColumns DEF OverdueWrite
  <2> QED BY <1>13, <2>3, <2>4, IdleIsRequest, PlainRequests, InvoiceWrite
          DEF OverdueWrite
<1>14. ASSUME NEW i \in Invoices, RemindWrite(w, i) PROVE SettlementInv'
  <2> DEFINE rest == worker[w].todo \ {i}
             r == IF rest = {} THEN Idle ELSE [pc |-> "remind", todo |-> rest]
  <2>1. worker[w].todo \in SUBSET Invoices
    BY <1>14 DEF RemindWrite, SettlementInv, TypeOK, RequestType, InTx
  <2>2. r \in RequestType /\ ClaimsHold(r)
    BY <2>1, IdleIsRequest, PlainRequests
  <2>3. "overdue" \in Statuses
    BY DEF Statuses
  <2>4. worker' = [worker EXCEPT ![w] = r]
    BY <1>14 DEF RemindWrite
  <2> HIDE DEF r
  <2> QED BY <1>14, <2>2, <2>3, <2>4, ChosenStatus, OldColumns, InvoiceWrite
          DEF RemindWrite
<1> QED
  BY <1>1, <1>2, <1>3, <1>4, <1>5, <1>6, <1>7, <1>8, <1>9, <1>10, <1>11, <1>12, <1>13,
     <1>14 DEF InvoiceRequest

--------------------------------------------------------------------------------
(* Requests about credit notes *)

\* A note's status is written and nothing else
LEMMA NoteWrite ==
    ASSUME SettlementInv, NEW w \in Workers,
           worker' = [worker EXCEPT ![w] = Idle],
           noteStatus' \in [Notes -> NoteStatuses \cup {"none"}],
           UNCHANGED <<status, total, payment, refunded, used, applied>>
    PROVE  SettlementInv'
<1>1. /\ status' \in [Invoices -> Statuses \cup {"none", "deleted"}]
      /\ total' \in [Invoices -> Nat]
  BY OldColumns
<1>2. /\ \A p \in DOMAIN payment : status'[payment[p].invoice] \in Statuses
      /\ \A v \in Workers : InTx(v) =>
            \A i \in Touched(worker[v]) : status'[i] \in Statuses
  BY DEF SettlementInv, ForeignKeys, Exists
<1> QED BY <1>1, <1>2, IdleIsRequest, PlainRequests, RequestStep

\* Two columns of one row each, or none, as apply() and applyToInvoice() write them
LEMMA OneStatus ==
    ASSUME NEW i \in Invoices, NEW s \in Statuses
    PROVE  Partial(Only(i, s), Invoices, Statuses)
BY OnlyIsPartial

LEMMA AppliedStatus ==
    ASSUME NEW n \in Notes, NEW full \in BOOLEAN
    PROVE  Partial(IF full THEN Only(n, "applied") ELSE Nothing, Notes, NoteStatuses)
<1>1. "applied" \in NoteStatuses
  BY DEF NoteStatuses
<1> QED BY <1>1, OnlyIsPartial, NothingIsPartial

LEMMA NoteRequestStep ==
    ASSUME SettlementInv, NEW w \in Workers, NoteRequest(w)
    PROVE  SettlementInv'
<1> USE DEF Continue, Done
<1>1. ASSUME NEW n \in Notes, NoteCreate(w, n) PROVE SettlementInv'
  <2>1. noteStatus' \in [Notes -> NoteStatuses \cup {"none"}]
    BY <1>1 DEF NoteCreate, SettlementInv, TypeOK, NoteStatuses
  <2>2. worker' = [worker EXCEPT ![w] = Idle]
    BY <1>1 DEF NoteCreate, SettlementInv, TypeOK
  <2> QED BY <1>1, <2>1, <2>2, NoteWrite DEF NoteCreate
<1>2. ASSUME NEW n \in Notes, ApplyRead(w, n) PROVE SettlementInv'
  <2> DEFINE r == [pc |-> "apply", note |-> n, invoice |-> Linked(n)]
  <2>1. Linked(n) \in Invoices \cup {NoInvoice}
    BY DEF Linked
  <2>2. r \in RequestType /\ r.pc = "apply"
    BY <2>1 DEF RequestType
  <2>3. worker' = [worker EXCEPT ![w] = r]
    BY <1>2 DEF ApplyRead
  <2> HIDE DEF r
  <2> QED BY <1>2, <2>2, <2>3, PlainRequests, RequestKeepsTables DEF ApplyRead
<1>3. ASSUME NEW ids \in SUBSET Notes, NEW s \in NoteStatuses, NoteStatusRead(w, ids, s)
      PROVE  SettlementInv'
  <2> DEFINE notes == {n \in ids : noteStatus[n] \notin Final \cup {s}}
  <2>1. notes \in SUBSET Notes
    OBVIOUS
  <2>2. worker' = [worker EXCEPT ![w] =
                     [pc |-> "noteStatus", notes |-> notes, want |-> s]]
    BY <1>3 DEF NoteStatusRead
  <2> HIDE DEF notes
  <2> QED BY <1>3, <2>1, <2>2, PlainRequests, RequestKeepsTables DEF NoteStatusRead
<1>4. ASSUME NoteStatusWrite(w) PROVE SettlementInv'
  <2>1. worker[w].want \in NoteStatuses
    BY <1>4 DEF NoteStatusWrite, SettlementInv, TypeOK, RequestType, InTx
  <2>2. noteStatus' \in [Notes -> NoteStatuses \cup {"none"}]
    BY <1>4, <2>1 DEF NoteStatusWrite, SettlementInv, TypeOK
  <2> QED BY <1>4, <2>2, NoteWrite DEF NoteStatusWrite
<1>5. ASSUME ApplyUnlinked(w) PROVE SettlementInv'
  <2>1. noteStatus' \in [Notes -> NoteStatuses \cup {"none"}]
    BY <1>5 DEF ApplyUnlinked, SettlementInv, TypeOK, NoteStatuses
  <2> QED BY <1>5, <2>1, NoteWrite DEF ApplyUnlinked
<1>6. ASSUME NEW n \in Notes, NEW i \in Invoices, ApplyToRead(w, n, i)
      PROVE  SettlementInv'
  <2> DEFINE r == [pc |-> "applyTo", note |-> n, invoice |-> i, seen |-> applied[n]]
  <2>1. r \in RequestType /\ r.pc = "applyTo"
    BY DEF RequestType, SettlementInv, TypeOK
  <2>2. worker' = [worker EXCEPT ![w] = r]
    BY <1>6 DEF ApplyToRead
  <2> HIDE DEF r
  <2> QED BY <1>6, <2>1, <2>2, PlainRequests, RequestKeepsTables DEF ApplyToRead
<1>7. ASSUME NEW p \in Fresh, Apply(w, p) PROVE SettlementInv'
  <2> DEFINE n == worker[w].note
             i == worker[w].invoice
             row == Payment(i, NoteTotal[n], <<"whole of", n>>)
             rows == Only(p, row)
             s == IF Sum(Over(rows, payment), i) >= total[i] THEN "paid" ELSE "partial"
             r == Tx("receive", rows, {}, Nothing, Only(i, s), Nothing, Only(n, "applied"))
  <2>1. n \in Notes /\ i \in Invoices /\ Exists(i)
    BY <1>7 DEF Apply, SettlementInv, TypeOK, RequestType, InTx
  <2>2. NoteTotal[n] \in Int
    BY <2>1, NoteAssumption
  <2>3. row \in Row /\ row.invoice = i
    BY <2>1, <2>2, PaymentIsRow, PaymentOrigins
  <2>4. s \in Statuses
    BY DEF Statuses
  <2>5. "applied" \in NoteStatuses
    BY DEF NoteStatuses
  <2>6. worker' = [worker EXCEPT ![w] = r] /\ UNCHANGED tables
    BY <1>7 DEF Apply
  <2> HIDE DEF n, i, row, s
  <2>7. /\ Partial(rows, Payments, Row)
        /\ DOMAIN rows = {p} /\ rows[p] = row
    BY <2>3, OneRow
  <2> HIDE DEF rows
  <2>8. IsTx(r)
    BY <2>1, <2>4, <2>5, <2>7, OnlyIsPartial, NothingIsPartial, TxIsTx
  <2>9. /\ r.pc = "tx" /\ r.insert = rows /\ r.delete = {}
        /\ r.refunded = Nothing /\ r.applied = Nothing
    BY TxFields
  <2> HIDE DEF r
  <2>10. ClaimsHold(r)
    BY <2>9, NothingIsPartial DEF ClaimsHold
  <2> QED BY <2>1, <2>3, <2>6, <2>7, <2>8, <2>9, <2>10, InsertStep
<1>8. ASSUME NEW p \in Fresh, ApplyTo(w, p) PROVE SettlementInv'
  <2> DEFINE n == worker[w].note
             i == worker[w].invoice
             seen == worker[w].seen
             owed == total[i] - Paid(i)
  <2>1. n \in Notes /\ i \in Invoices /\ Exists(i) /\ seen \in Nat
    BY <1>8 DEF ApplyTo, SettlementInv, TypeOK, RequestType, InTx
  <2>2. NoteTotal[n] \in Nat
    BY <2>1, NoteAssumption
  <2>3. PICK a \in 1 .. NoteTotal[n] :
          /\ a = Drawn(NoteTotal[n] - seen, owed)
          /\ worker' = [worker EXCEPT ![w] = Tx("receive",
               Only(p, Payment(i, a, <<"part of", n>>)), {}, Nothing,
               Only(i, IF Paid(i) + a >= total[i] THEN "paid" ELSE "partial"),
               Only(n, NewApplied(seen, a)),
               IF NewApplied(seen, a) >= NoteTotal[n] THEN Only(n, "applied")
                                                      ELSE Nothing)]
    BY <1>8 DEF ApplyTo
  <2> DEFINE row == Payment(i, a, <<"part of", n>>)
             rows == Only(p, row)
             s == IF Paid(i) + a >= total[i] THEN "paid" ELSE "partial"
             new == NewApplied(seen, a)
             drawn == Only(n, new)
             full == new >= NoteTotal[n]
             ns == IF full THEN Only(n, "applied") ELSE Nothing
             r == Tx("receive", rows, {}, Nothing, Only(i, s), drawn, ns)
  <2>4. a \in Int /\ new \in Nat /\ new <= NoteTotal[n]
    <3> DEFINE left == NoteTotal[n] - seen
    <3>1. left \in Int /\ a \in Int
      BY <2>1, <2>2
    <3>2. a = left \/ (a = owed /\ ~(left < owed))
      BY <2>3 DEF Drawn
    <3>3. ~(left < a)
      <4> HIDE DEF left, owed
      <4>1. CASE a = left
        BY <3>1, <4>1
      <4>2. CASE a = owed /\ ~(left < owed)
        BY <4>2
      <4> QED BY <3>2, <4>1, <4>2
    <3> QED BY <2>1, <2>2, <3>1, <3>3 DEF NewApplied
  <2>5. row \in Row /\ row.invoice = i
    BY <2>1, <2>4, PaymentIsRow, PaymentOrigins
  <2>6. s \in Statuses
    BY DEF Statuses
  <2>7. full \in BOOLEAN
    BY <2>2, <2>4
  <2>8. worker' = [worker EXCEPT ![w] = r] /\ UNCHANGED tables
    BY <1>8, <2>3 DEF ApplyTo
  <2> HIDE DEF n, i, seen, owed, row, s, new, full
  <2>9. /\ Partial(rows, Payments, Row)
        /\ DOMAIN rows = {p} /\ rows[p] = row
    BY <2>5, OneRow
  <2>10. Partial(drawn, Notes, Nat) /\ DOMAIN drawn = {n} /\ drawn[n] = new
    BY <2>1, <2>4, OnlyIsPartial
  <2>11. Partial(Only(i, s), Invoices, Statuses) /\ Partial(ns, Notes, NoteStatuses)
    BY <2>1, <2>6, <2>7, OneStatus, AppliedStatus
  <2> HIDE DEF rows, drawn, ns
  <2>12. IsTx(r)
    BY <2>9, <2>10, <2>11, NothingIsPartial, TxIsTx
  <2>13. /\ r.pc = "tx" /\ r.insert = rows /\ r.delete = {}
         /\ r.refunded = Nothing /\ r.applied = drawn
    BY TxFields
  <2> HIDE DEF r
  <2>14. ClaimsHold(r)
    BY <2>4, <2>10, <2>13, NothingIsPartial DEF ClaimsHold
  <2> QED BY <2>1, <2>5, <2>8, <2>9, <2>12, <2>13, <2>14, InsertStep
<1> QED
  BY <1>1, <1>2, <1>3, <1>4, <1>5, <1>6, <1>7, <1>8 DEF NoteRequest

--------------------------------------------------------------------------------
(* Transactions *)

LEMMA RecalculatedIsStatus ==
    ASSUME NEW rule \in {"receive", "refund", "delete"}, NEW paid, NEW i, Exists(i)
    PROVE  Recalculated(rule, paid, i) \in Statuses
BY DEF Recalculated, AfterReceipt, AfterRefund, AfterDelete, Statuses, Exists

LEMMA RecalculateStep ==
    ASSUME SettlementInv, NEW w \in Workers, NEW i \in Invoices, Recalculate(w, i)
    PROVE  SettlementInv'
<1> DEFINE tx == worker[w]
           new == Recalculated(tx.rule, Sum(SeenBy(tx), i), i)
           column == Over(Only(i, new), tx.status)
           r == Tx(tx.rule, tx.insert, tx.delete, tx.refunded, column, tx.applied,
                   tx.noteStatus)
<1>1. InTx(w) /\ IsTx(tx) /\ i \in Touched(tx)
  BY RequestIsNoTx DEF Recalculate, Pending, SettlementInv, TypeOK, InTx
<1>2. Exists(i)
  BY <1>1 DEF SettlementInv, ForeignKeys
<1>3. new \in Statuses
  BY <1>1, <1>2, RecalculatedIsStatus DEF IsTx
<1>4. worker' = [worker EXCEPT ![w] = r] /\ UNCHANGED tables
  BY DEF Recalculate, Continue
<1> HIDE DEF tx, new
<1>5. Partial(column, Invoices, Statuses)
  BY <1>1, <1>3, OnlyIsPartial, OverIsPartial DEF IsTx
<1> HIDE DEF column
<1>6. IsTx(r)
  <2>1. /\ tx.rule \in {"receive", "refund", "delete"}
        /\ Partial(tx.insert, Payments, Row)
        /\ tx.delete \in SUBSET DOMAIN payment
        /\ Partial(tx.refunded, Payments, Nat)
        /\ Partial(tx.applied, Notes, Nat)
        /\ Partial(tx.noteStatus, Notes, NoteStatuses)
    BY <1>1 DEF IsTx
  <2> QED BY <1>5, <2>1, TxIsTx
<1>7. /\ r.pc = "tx" /\ r.insert = tx.insert /\ r.delete = tx.delete
      /\ r.refunded = tx.refunded /\ r.applied = tx.applied
  BY TxFields
<1> HIDE DEF r
<1>8. tx.pc = "tx" /\ ClaimsHold(tx)
  BY <1>1 DEF InTx, SettlementInv, tx
<1>9. ClaimsHold(r)
  BY <1>7, <1>8 DEF ClaimsHold
<1>10. \A j \in Touched(r) : Exists(j)
  BY <1>1, <1>7 DEF Touched, SettlementInv, ForeignKeys, tx
<1>11. /\ DOMAIN r.insert \cap used = {}
       /\ \A v \in Workers \ {w} : InTx(v) =>
            /\ DOMAIN worker[v].insert \cap DOMAIN r.insert = {}
            /\ worker[v].delete \cap r.delete = {}
  BY <1>1, <1>7 DEF SettlementInv, Exclusive, tx
<1> QED BY <1>4, <1>6, <1>7, <1>9, <1>10, <1>11, TransactionStep

\* Nobody else's row is changed by a commit, and no stamped or named row is lost to it
LEMMA CommitStep ==
    ASSUME SettlementInv, NEW w \in Workers, Commit(w)
    PROVE  SettlementInv'
<1> DEFINE tx == worker[w]
<1>1. InTx(w) /\ IsTx(tx)
  BY RequestIsNoTx DEF Commit, SettlementInv, TypeOK, InTx
<1>2. /\ payment' = Over(tx.insert, Without(payment, tx.delete))
      /\ used' = used \cup DOMAIN tx.insert
      /\ refunded' = Over(tx.refunded, refunded)
      /\ status' = Over(tx.status, status)
      /\ applied' = Over(tx.applied, applied)
      /\ noteStatus' = Over(tx.noteStatus, noteStatus)
      /\ worker' = [worker EXCEPT ![w] = Idle]
      /\ total' = total
  BY DEF Commit, SeenBy, Done
<1>3. worker'[w] = Idle /\ \A v \in Workers \ {w} : worker'[v] = worker[v]
  BY <1>2 DEF SettlementInv, TypeOK
<1>4. DOMAIN tx.insert \cap used = {} /\ DOMAIN payment \subseteq used
  BY <1>1 DEF SettlementInv, TypeOK, Exclusive
<1>5. /\ DOMAIN payment' = DOMAIN tx.insert \cup (DOMAIN payment \ tx.delete)
      /\ \A p \in DOMAIN tx.insert : payment'[p] = tx.insert[p]
      /\ \A p \in DOMAIN payment \ tx.delete : payment'[p] = payment[p]
  BY <1>2, <1>4 DEF Over, Without
<1>6. \A i \in Invoices : Exists(i) => status'[i] \in Statuses
  BY <1>1, <1>2 DEF Over, Exists, IsTx, Partial, SettlementInv, TypeOK
<1>7. \A v \in Workers : InTx(v)' => v # w /\ InTx(v)
  BY <1>3, IdleIsRequest, RequestIsNoTx DEF InTx
<1>8. \A v \in Workers \ {w} : InTx(v) => IsTx(worker[v]) /\ worker[v].delete \cap tx.delete = {}
  BY <1>1, RequestIsNoTx DEF SettlementInv, TypeOK, InTx, Exclusive
<1>9. TypeOK'
  <2>1. /\ status' \in [Invoices -> Statuses \cup {"none", "deleted"}]
        /\ refunded' \in [Payments -> Nat]
        /\ noteStatus' \in [Notes -> NoteStatuses \cup {"none"}]
        /\ applied' \in [Notes -> Nat]
    <3>1. /\ Partial(tx.status, Invoices, Statuses \cup {"none", "deleted"})
          /\ Partial(tx.refunded, Payments, Nat)
          /\ Partial(tx.noteStatus, Notes, NoteStatuses \cup {"none"})
          /\ Partial(tx.applied, Notes, Nat)
      BY <1>1 DEF IsTx, Partial
    <3>2. /\ status \in [Invoices -> Statuses \cup {"none", "deleted"}]
          /\ refunded \in [Payments -> Nat]
          /\ noteStatus \in [Notes -> NoteStatuses \cup {"none"}]
          /\ applied \in [Notes -> Nat]
      BY DEF SettlementInv, TypeOK
    <3> QED BY <1>2, <3>1, <3>2, OverIsTotal
  <2>2. Partial(payment', Payments, Row)
    <3>1. Partial(tx.insert, Payments, Row) /\ Partial(payment, Payments, Row)
      BY <1>1 DEF IsTx, SettlementInv, TypeOK
    <3>2. Partial(Without(payment, tx.delete), Payments, Row)
      BY <3>1, WithoutIsPartial
    <3> QED BY <1>2, <3>1, <3>2, OverIsPartial
  <2>3. used' \in SUBSET Payments /\ DOMAIN payment' \subseteq used'
    BY <1>1, <1>2, <1>4, <1>5 DEF IsTx, Partial, SettlementInv, TypeOK
  <2>4. worker' = [v \in Workers |-> worker'[v]]
    BY <1>2 DEF SettlementInv, TypeOK
  <2>5. ASSUME NEW v \in Workers
        PROVE  worker'[v] \in RequestType \/ (InTx(v)' /\ IsTx(worker[v])')
    <3>1. CASE v = w
      BY <3>1, <1>3, IdleIsRequest
    <3>2. CASE v # w /\ ~InTx(v)
      BY <3>2, <1>3 DEF SettlementInv, TypeOK
    <3>3. CASE v # w /\ InTx(v)
      <4>1. IsTx(worker[v]) /\ worker[v].delete \subseteq DOMAIN payment \ tx.delete
        BY <3>3, <1>8 DEF IsTx
      <4>2. worker[v].delete \subseteq DOMAIN payment'
        BY <4>1, <1>5
      <4>3. worker'[v] = worker[v] /\ InTx(v)'
        BY <3>3, <1>3 DEF InTx
      <4> QED BY <4>1, <4>2, <4>3 DEF IsTx
    <3> QED BY <3>1, <3>2, <3>3
  <2>6. total' \in [Invoices -> Nat]
    BY <1>2 DEF SettlementInv, TypeOK
  <2> QED BY <2>1, <2>2, <2>3, <2>4, <2>5, <2>6 DEF TypeOK
<1>10. ForeignKeys'
  <2>1. ASSUME NEW p \in DOMAIN payment'
        PROVE  status'[payment'[p].invoice] \in Statuses
    <3>1. CASE p \in DOMAIN tx.insert
      <4>1. tx.insert[p].invoice \in Invoices /\ tx.insert[p].invoice \in Touched(tx)
        BY <1>1, <3>1 DEF IsTx, Partial, Row, Touched
      <4>2. Exists(tx.insert[p].invoice)
        BY <1>1, <4>1 DEF SettlementInv, ForeignKeys
      <4> QED BY <1>5, <1>6, <3>1, <4>1, <4>2
    <3>2. CASE p \in DOMAIN payment \ tx.delete
      <4>1. payment[p].invoice \in Invoices /\ Exists(payment[p].invoice)
        BY <3>2 DEF SettlementInv, TypeOK, Partial, Row, ForeignKeys
      <4> QED BY <1>5, <1>6, <3>2, <4>1
    <3> QED BY <1>5, <3>1, <3>2
  <2>2. ASSUME NEW v \in Workers, InTx(v)', NEW i \in Touched(worker[v])'
        PROVE  status'[i] \in Statuses
    <3>1. v # w /\ InTx(v) /\ worker'[v] = worker[v] /\ IsTx(worker[v])
      BY <2>2, <1>3, <1>7, <1>8
    <3>2. worker[v].delete \subseteq DOMAIN payment \ tx.delete
      BY <3>1, <1>8 DEF IsTx
    <3>3. Touched(worker[v])' = Touched(worker[v])
      BY <3>1, <3>2, <1>5 DEF Touched
    <3>4. i \in Invoices
      <4>1. i \in Touched(worker[v])
        BY <2>2, <3>3
      <4>2. CASE \E p \in DOMAIN worker[v].insert : i = worker[v].insert[p].invoice
        BY <3>1, <4>2 DEF IsTx, Partial, Row
      <4>3. CASE \E p \in worker[v].delete : i = payment[p].invoice
        BY <3>2, <4>3 DEF SettlementInv, TypeOK, Partial, Row
      <4> QED BY <4>1, <4>2, <4>3 DEF Touched
    <3> QED BY <2>2, <3>1, <3>3, <3>4, <1>6 DEF SettlementInv, ForeignKeys
  <2> QED BY <2>1, <2>2 DEF ForeignKeys, Exists
<1>11. Exclusive'
  <2>1. ASSUME NEW v \in Workers, InTx(v)' PROVE DOMAIN worker'[v].insert \cap used' = {}
    BY <2>1, <1>1, <1>2, <1>3, <1>7 DEF SettlementInv, Exclusive
  <2> QED BY <2>1, <1>3, <1>7 DEF SettlementInv, Exclusive
<1>12. \A p \in DOMAIN tx.refunded : WithinPayment(p, tx.refunded[p])
  BY <1>1 DEF SettlementInv, ClaimsHold, InTx
<1>13. \A p \in Payments : refunded'[p] = IF p \in DOMAIN tx.refunded THEN tx.refunded[p]
                                                                    ELSE refunded[p]
  BY <1>2 DEF Over, SettlementInv, TypeOK
<1>14. UnusedUnstamped'
  BY <1>2, <1>12, <1>13 DEF SettlementInv, UnusedUnstamped, WithinPayment
<1>15. \A p, x : WithinPayment(p, x) => WithinPayment(p, x)'
  BY <1>2, <1>4, <1>5 DEF WithinPayment
<1>16. RefundedWithinPayment'
  <2>1. ASSUME NEW p \in DOMAIN payment', refunded'[p] > 0
        PROVE  refunded'[p] <= payment'[p].amount
    <3>1. p \in Payments
      BY <1>9 DEF TypeOK, Partial
    <3>2. CASE p \in DOMAIN tx.insert
      <4>1. p \notin used /\ p \notin DOMAIN tx.refunded
        BY <3>2, <1>4, <1>12 DEF WithinPayment
      <4>2. refunded'[p] = 0
        BY <3>1, <4>1, <1>13 DEF SettlementInv, UnusedUnstamped
      <4> QED BY <2>1, <4>2
    <3>3. CASE p \in DOMAIN payment \ tx.delete /\ p \in DOMAIN tx.refunded
      BY <3>1, <3>3, <1>5, <1>12, <1>13 DEF WithinPayment
    <3>4. CASE p \in DOMAIN payment \ tx.delete /\ p \notin DOMAIN tx.refunded
      <4>1. refunded'[p] = refunded[p] /\ payment'[p] = payment[p]
        BY <3>1, <3>4, <1>5, <1>13
      <4> QED BY <2>1, <3>4, <4>1 DEF SettlementInv, RefundedWithinPayment
    <3> QED BY <1>5, <3>2, <3>3, <3>4
  <2> QED BY <2>1 DEF RefundedWithinPayment
<1>17. AppliedWithinNote'
  <2>1. \A n \in DOMAIN tx.applied : tx.applied[n] <= NoteTotal[n]
    BY <1>1 DEF SettlementInv, ClaimsHold, InTx
  <2>2. \A n \in Notes : applied'[n] = IF n \in DOMAIN tx.applied THEN tx.applied[n]
                                                                ELSE applied[n]
    BY <1>2 DEF Over, SettlementInv, TypeOK
  <2> QED BY <2>1, <2>2 DEF SettlementInv, AppliedWithinNote
<1>18. ASSUME NEW v \in Workers PROVE ClaimsHold(worker[v])'
  <2>1. CASE v = w
    BY <2>1, <1>3 DEF ClaimsHold, Idle
  <2>2. CASE v # w
    <3>1. worker'[v] = worker[v] /\ ClaimsHold(worker[v])
      BY <2>2, <1>3 DEF SettlementInv
    <3> QED BY <3>1, <1>15 DEF ClaimsHold
  <2> QED BY <2>1, <2>2
<1> QED
  BY <1>9, <1>10, <1>11, <1>14, <1>16, <1>17, <1>18 DEF SettlementInv

LEMMA AbandonStep ==
    ASSUME SettlementInv, NEW w \in Workers, Abandon(w)
    PROVE  SettlementInv'
BY IdleIsRequest, PlainRequests, RequestKeepsTables DEF Abandon, Done

--------------------------------------------------------------------------------
(* The invariant and what follows from it *)

LEMMA Initially == Init => SettlementInv
<1> SUFFICES ASSUME Init PROVE SettlementInv
  OBVIOUS
<1>1. \A w \in Workers : worker[w] = Idle
  BY DEF Init
<1>2. DOMAIN payment = {}
  BY DEF Init
<1>3. TypeOK
  BY <1>1, <1>2, IdleIsRequest DEF Init, TypeOK, Partial
<1>4. \A w \in Workers : ~InTx(w)
  BY <1>1 DEF InTx, Idle
<1>5. ForeignKeys /\ Exclusive /\ RefundedWithinPayment
  BY <1>2, <1>4 DEF ForeignKeys, Exclusive, RefundedWithinPayment
<1>6. UnusedUnstamped /\ AppliedWithinNote
  BY NoteAssumption DEF Init, UnusedUnstamped, AppliedWithinNote
<1>7. \A w \in Workers : ClaimsHold(worker[w])
  BY <1>1 DEF ClaimsHold, Idle
<1> QED BY <1>3, <1>5, <1>6, <1>7 DEF SettlementInv

LEMMA Stutter == SettlementInv /\ UNCHANGED vars => SettlementInv'
<1> SUFFICES ASSUME SettlementInv, UNCHANGED vars PROVE SettlementInv'
  OBVIOUS
<1>1. TypeOK'
  BY DEF SettlementInv, vars, TypeOK, InTx, IsTx
<1>2. ForeignKeys' /\ Exclusive'
  BY DEF SettlementInv, vars, ForeignKeys, Exclusive, InTx, Touched, Exists
<1>3. UnusedUnstamped' /\ RefundedWithinPayment' /\ AppliedWithinNote'
  BY DEF SettlementInv, vars, UnusedUnstamped, RefundedWithinPayment, AppliedWithinNote
<1>4. \A w \in Workers : ClaimsHold(worker[w])'
  BY DEF SettlementInv, vars, ClaimsHold, WithinPayment
<1> QED BY <1>1, <1>2, <1>3, <1>4 DEF SettlementInv

\* However requests interleave, keys hold, transactions do not share rows, and what
\* they have read and will write keeps within payments and credit notes.
THEOREM SettlementInvariant == Spec => []SettlementInv
<1>1. Init => SettlementInv
  BY Initially
<1>2. SettlementInv /\ [Next]_vars => SettlementInv'
  <2> SUFFICES ASSUME SettlementInv, [Next]_vars PROVE SettlementInv'
    OBVIOUS
  <2>1. CASE UNCHANGED vars
    BY <2>1, Stutter
  <2>2. CASE Next
    <3>1. PICK w \in Workers : PaymentRequest(w) \/ InvoiceRequest(w) \/ NoteRequest(w)
                                 \/ Transaction(w)
      BY <2>2 DEF Next
    <3>2. CASE Transaction(w)
      BY <3>2, RecalculateStep, CommitStep, AbandonStep DEF Transaction
    <3> QED BY <3>1, <3>2, PaymentRequestStep, InvoiceRequestStep, NoteRequestStep
  <2> QED BY <2>1, <2>2
<1> QED BY <1>1, <1>2, PTL DEF Spec

\* Every table, request and open transaction keeps its type.
THEOREM TypeInvariant == Spec => []TypeOK
<1>1. SettlementInv => TypeOK
  BY DEF SettlementInv
<1> QED BY <1>1, SettlementInvariant, PTL

\* refundedAmount never exceeds the payment, however many refunds of it overlap.
THEOREM RefundedBounded == Spec => []RefundedWithinPayment
<1>1. SettlementInv => RefundedWithinPayment
  BY DEF SettlementInv
<1> QED BY <1>1, SettlementInvariant, PTL

\* appliedTotal never exceeds the credit note, however many applications overlap.
THEOREM AppliedBounded == Spec => []AppliedWithinNote
<1>1. SettlementInv => AppliedWithinNote
  BY DEF SettlementInv
<1> QED BY <1>1, SettlementInvariant, PTL

--------------------------------------------------------------------------------
(* One request at a time.  The sums over the payments, and the statuses that depend on
   them, go wrong when requests overlap (the runs that expect a violation show it); here
   is that nothing else can put them wrong.  Between two of its steps a request finds
   what it has read unchanged, and its transaction, were it committed as it stands,
   would leave the ledger in order. *)

\* The value of some of the rows
Worth(rows, S) == MapThenSumSet(LAMBDA p : rows[p].amount, S)

OfInvoice(rows, i)   == {p \in DOMAIN rows : rows[p].invoice = i}
OfOrigin(rows, from) == {p \in DOMAIN rows : rows[p].from = from}

\* Credit notes that are worth something
NotesHaveWorth == \A n \in Notes : NoteTotal[n] > 0

\* Refunds are negative, and of a payment there has been; what else is paid is not, and
\* nothing unless a credit note is of nothing
Signed(row) ==
    /\ row.from[1] = "refund" => row.amount < 0 /\ row.from[2] \in used
    /\ row.from[1] # "refund" => row.amount >= 0
    /\ NotesHaveWorth => row.amount # 0

RowsSigned(rows) == IsFiniteSet(DOMAIN rows) /\ \A p \in DOMAIN rows : Signed(rows[p])

\* The stamps cover the refunds and what is drawn from the notes
RowsCovered(rows, stamps, drawn) ==
    /\ \A p \in DOMAIN rows : -Worth(rows, OfOrigin(rows, <<"refund", p>>)) <= stamps[p]
    /\ \A n \in Notes : Worth(rows, OfOrigin(rows, <<"part of", n>>)) <= drawn[n]

ShowsUnpaid(s) == s \in {"draft", "sent", "viewed", "unpaid"}

\* A status that says what was paid of what
Agrees(s, paid, worth) ==
    /\ ShowsUnpaid(s) => paid <= 0
    /\ s = "paid" /\ paid > 0 => paid >= worth

\* What a transaction would leave if it were committed now
TxHolds(tx) ==
    /\ RowsSigned(tx.insert)
    /\ RowsCovered(SeenBy(tx), Over(tx.refunded, refunded), Over(tx.applied, applied))
    /\ DOMAIN tx.status \subseteq Touched(tx)
    /\ \A i \in DOMAIN tx.status : Agrees(tx.status[i], Sum(SeenBy(tx), i), total[i])
    /\ \A i \in Invoices \ Touched(tx) : Sum(SeenBy(tx), i) = Paid(i)
    /\ NotesHaveWorth => \A i \in Touched(tx) : Sum(SeenBy(tx), i) # Paid(i)
    /\ \A n \in DOMAIN tx.noteStatus :
         tx.noteStatus[n] = "applied" /\ noteStatus[n] # "void"

\* What a request has read still holds
AsRead(r) ==
    /\ r.pc = "refund"     => r.seen = refunded[r.payment]
    /\ r.pc = "applyTo"    => r.seen = applied[r.note] /\ noteStatus[r.note] # "void"
    /\ r.pc = "apply"      => noteStatus[r.note] = "open"
    /\ r.pc = "noteStatus" => \A n \in r.notes : noteStatus[n] \notin {"void", "applied"}
    /\ r.pc = "status"     => \A i \in r.todo : r.want \in Allowed[status[i]]
    /\ r.pc = "overdue"    => \A i \in r.todo : status[i] \notin Settled
    /\ r.pc = "remind"     => \A i \in r.todo : status[i] \in {"sent", "partial"}
    /\ r.pc = "delete"     => status[r.invoice] = "draft"
    /\ r.pc = "tx"         => TxHolds(r)

Ledger == RowsSigned(payment) /\ RowsCovered(payment, refunded, applied) /\ UnpaidHasNoMoney

SequentialInv == Ledger /\ \A w \in Workers : AsRead(worker[w])

IntRows(rows) == IsFiniteSet(DOMAIN rows) /\ \A p \in DOMAIN rows : rows[p].amount \in Int

LEMMA WorthIsSum ==
    ASSUME NEW rows, IntRows(rows), NEW S \in SUBSET DOMAIN rows
    PROVE  /\ Worth(rows, S) = SumOf(AmountsOf(rows), S) /\ IsFiniteSet(S)
           /\ \A p \in S : AmountsOf(rows)[p] = rows[p].amount /\ rows[p].amount \in Int
<1>1. IsFiniteSet(S) /\ \A p \in S : rows[p].amount \in Int
  BY FS_Subset DEF IntRows
<1>2. \A p \in S : AmountsOf(rows)[p] = rows[p].amount
  BY DEF AmountsOf
<1> QED BY <1>1, <1>2, SumOfAmounts DEF Worth

LEMMA WorthIsInt ==
    ASSUME NEW rows, IntRows(rows), NEW S \in SUBSET DOMAIN rows
    PROVE  Worth(rows, S) \in Int
BY WorthIsSum, SumIsInt

LEMMA WorthOfNone ==
    ASSUME NEW rows, IntRows(rows)
    PROVE  Worth(rows, {}) = 0
BY WorthIsSum, SumOfNone

LEMMA WorthSplits ==
    ASSUME NEW rows, IntRows(rows), NEW S \in SUBSET DOMAIN rows, NEW q \in S
    PROVE  /\ Worth(rows, S) = rows[q].amount + Worth(rows, S \ {q})
           /\ rows[q].amount \in Int /\ Worth(rows, S \ {q}) \in Int
<1>1. S \ {q} \in SUBSET DOMAIN rows
  OBVIOUS
<1> QED BY <1>1, WorthIsSum, WorthIsInt, SumSplits

LEMMA WorthAlike ==
    ASSUME NEW rows, NEW others, IntRows(rows), IntRows(others),
           NEW S \in SUBSET DOMAIN rows, S \subseteq DOMAIN others,
           \A p \in S : others[p] = rows[p]
    PROVE  Worth(others, S) = Worth(rows, S)
<1>1. /\ Worth(rows, S) = SumOf(AmountsOf(rows), S) /\ IsFiniteSet(S)
      /\ \A p \in S : AmountsOf(rows)[p] = rows[p].amount /\ rows[p].amount \in Int
  BY WorthIsSum
<1>2. /\ Worth(others, S) = SumOf(AmountsOf(others), S)
      /\ \A p \in S : AmountsOf(others)[p] = others[p].amount
  BY WorthIsSum
<1> QED BY <1>1, <1>2, SumAlike

LEMMA WorthGrows ==
    ASSUME NEW rows, IntRows(rows), NEW T \in SUBSET DOMAIN rows, NEW S \in SUBSET T, S # T,
           \A p \in T \ S : rows[p].amount > 0
    PROVE  Worth(rows, S) < Worth(rows, T)
<1>1. /\ Worth(rows, T) = SumOf(AmountsOf(rows), T) /\ IsFiniteSet(T)
      /\ \A p \in T : AmountsOf(rows)[p] = rows[p].amount /\ rows[p].amount \in Int
  BY WorthIsSum
<1>2. Worth(rows, S) = SumOf(AmountsOf(rows), S)
  BY WorthIsSum
<1> QED BY <1>1, <1>2, SumGrows

LEMMA SumIsWorth ==
    /\ \A rows, i : Sum(rows, i) = Worth(rows, OfInvoice(rows, i))
    /\ \A p : RefundedBy(p) = -Worth(payment, OfOrigin(payment, <<"refund", p>>))
    /\ \A n : DrawnFrom(n) = Worth(payment, OfOrigin(payment, <<"part of", n>>))
    /\ \A i : Paid(i) = Worth(payment, OfInvoice(payment, i))
BY DEF Sum, Worth, OfInvoice, OfOrigin, RefundedBy, DrawnFrom, Paid

OneRequest == \A v, w \in Workers : v = w

\* The request goes on, and no table changes
LEMMA RequestReads ==
    ASSUME OneRequest, SettlementInv, SequentialInv, NEW w \in Workers, NEW r,
           worker' = [worker EXCEPT ![w] = r], UNCHANGED tables, AsRead(r)
    PROVE  SequentialInv'
<1>1. \A v \in Workers : worker'[v] = r
  BY DEF OneRequest, SettlementInv, TypeOK
<1>2. /\ payment' = payment /\ refunded' = refunded /\ applied' = applied /\ used' = used
      /\ status' = status /\ total' = total /\ noteStatus' = noteStatus
  BY DEF tables
<1>3. \A rows : RowsSigned(rows)' <=> RowsSigned(rows)
  BY <1>2 DEF RowsSigned, Signed
<1>4. Ledger'
  <2>1. RowsSigned(payment)'
    BY <1>2 DEF SequentialInv, Ledger, RowsSigned, Signed
  <2>2. RowsCovered(payment, refunded, applied)'
    BY <1>2 DEF SequentialInv, Ledger, RowsCovered
  <2>3. UnpaidHasNoMoney'
    BY <1>2 DEF SequentialInv, Ledger, UnpaidHasNoMoney, Paid
  <2> QED BY <2>1, <2>2, <2>3 DEF Ledger
<1>5. ASSUME r.pc = "tx", NEW v \in Workers PROVE TxHolds(worker[v])'
  <2>1. TxHolds(r)
    BY <1>5 DEF AsRead
  <2>2. SeenBy(worker[v])' = SeenBy(r) /\ Touched(worker[v])' = Touched(r)
    BY <1>1, <1>2 DEF SeenBy, Touched
  <2>3. \A i : Paid(i)' = Paid(i)
    BY <1>2 DEF Paid
  <2>4. RowsSigned(worker[v].insert)'
    BY <2>1, <1>1, <1>2 DEF TxHolds, RowsSigned, Signed
  <2>5. RowsCovered(SeenBy(worker[v]), Over(worker[v].refunded, refunded),
                    Over(worker[v].applied, applied))'
    BY <2>1, <2>2, <1>1, <1>2 DEF TxHolds, RowsCovered
  <2> QED BY <2>1, <2>2, <2>3, <2>4, <2>5, <1>1, <1>2 DEF TxHolds
<1>6. \A v \in Workers : AsRead(worker[v])'
  BY <1>1, <1>2, <1>5 DEF AsRead
<1> QED BY <1>4, <1>6 DEF SequentialInv

\* It has written invoices or credit notes, and no payment
LEMMA BooksKept ==
    ASSUME SequentialInv, UNCHANGED <<payment, refunded, used, applied>>,
           \A i \in Invoices : ShowsUnpaid(status'[i]) => Paid(i) <= 0
    PROVE  Ledger'
<1>1. RowsSigned(payment)'
  BY DEF SequentialInv, Ledger, RowsSigned, Signed
<1>2. RowsCovered(payment, refunded, applied)'
  BY DEF SequentialInv, Ledger, RowsCovered
<1>3. UnpaidHasNoMoney'
  BY DEF UnpaidHasNoMoney, Paid, ShowsUnpaid
<1> QED BY <1>1, <1>2, <1>3 DEF Ledger

\* It goes on to the tax or ends
LEMMA RequestWrites ==
    ASSUME OneRequest, SettlementInv, SequentialInv, NEW w \in Workers,
           NEW r, r.pc = "idle" \/ r.pc = "tax", worker' = [worker EXCEPT ![w] = r],
           UNCHANGED <<payment, refunded, used, applied>>,
           \A i \in Invoices : ShowsUnpaid(status'[i]) => Paid(i) <= 0
    PROVE  SequentialInv'
<1>1. \A v \in Workers : worker'[v] = r
  BY DEF OneRequest, SettlementInv, TypeOK
<1>2. Ledger'
  BY BooksKept
<1>3. \A v \in Workers : AsRead(worker[v])'
  BY <1>1 DEF AsRead
<1> QED BY <1>2, <1>3 DEF SequentialInv

\* The cron goes on to the next invoice
LEMMA RemindsOn ==
    ASSUME OneRequest, SettlementInv, SequentialInv, NEW w \in Workers,
           NEW r, r.pc = "remind", AsRead(r), \A i \in r.todo : status'[i] = status[i],
           worker' = [worker EXCEPT ![w] = r],
           UNCHANGED <<payment, refunded, used, applied>>,
           \A i \in Invoices : ShowsUnpaid(status'[i]) => Paid(i) <= 0
    PROVE  SequentialInv'
<1>1. \A v \in Workers : worker'[v] = r
  BY DEF OneRequest, SettlementInv, TypeOK
<1>2. Ledger'
  BY BooksKept
<1>3. \A v \in Workers : AsRead(worker[v])'
  BY <1>1 DEF AsRead
<1> QED BY <1>2, <1>3 DEF SequentialInv

--------------------------------------------------------------------------------
(* What the rows are worth once a transaction is committed *)

LEMMA PaymentsAreInts ==
    ASSUME SettlementInv, RowsSigned(payment)
    PROVE  IntRows(payment)
BY DEF SettlementInv, TypeOK, Partial, Row, IntRows, RowsSigned

LEMMA SeenByIs ==
    ASSUME NEW tx
    PROVE  /\ DOMAIN SeenBy(tx) = DOMAIN tx.insert \cup (DOMAIN payment \ tx.delete)
           /\ \A p \in DOMAIN tx.insert : SeenBy(tx)[p] = tx.insert[p]
           /\ \A p \in (DOMAIN payment \ tx.delete) \ DOMAIN tx.insert :
                SeenBy(tx)[p] = payment[p]
BY DEF SeenBy, Over, Without

LEMMA SeenAreInts ==
    ASSUME SettlementInv, RowsSigned(payment), NEW tx, IsTx(tx), RowsSigned(tx.insert)
    PROVE  IntRows(SeenBy(tx)) /\ IntRows(tx.insert)
<1>1. IntRows(payment)
  BY PaymentsAreInts
<1>2. IntRows(tx.insert)
  BY DEF IsTx, Partial, Row, IntRows, RowsSigned
<1>3. IsFiniteSet(DOMAIN payment \ tx.delete)
  BY <1>1, FS_Subset DEF IntRows
<1>4. IsFiniteSet(DOMAIN SeenBy(tx))
  <2>1. IsFiniteSet(DOMAIN tx.insert \cup (DOMAIN payment \ tx.delete))
    BY <1>2, <1>3, FS_Union DEF IntRows
  <2> QED BY <2>1, SeenByIs
<1> QED BY <1>1, <1>2, <1>4, SeenByIs DEF IntRows

\* New rows among those of an invoice or of an origin: the old ones are worth what they were
LEMMA InsertAdds ==
    ASSUME SettlementInv, RowsSigned(payment), NEW tx, IsTx(tx), RowsSigned(tx.insert),
           tx.delete = {}, DOMAIN tx.insert \cap DOMAIN payment = {}
    PROVE  /\ \A i : /\ OfInvoice(payment, i) \subseteq OfInvoice(SeenBy(tx), i)
                     /\ OfInvoice(SeenBy(tx), i) \ OfInvoice(payment, i) = OfInvoice(tx.insert, i)
                     /\ Worth(SeenBy(tx), OfInvoice(payment, i)) = Worth(payment, OfInvoice(payment, i))
           /\ \A o : /\ OfOrigin(payment, o) \subseteq OfOrigin(SeenBy(tx), o)
                     /\ OfOrigin(SeenBy(tx), o) \ OfOrigin(payment, o) = OfOrigin(tx.insert, o)
                     /\ Worth(SeenBy(tx), OfOrigin(payment, o)) = Worth(payment, OfOrigin(payment, o))
<1>1. IntRows(payment) /\ IntRows(SeenBy(tx))
  BY PaymentsAreInts, SeenAreInts
<1>2. /\ DOMAIN SeenBy(tx) = DOMAIN tx.insert \cup DOMAIN payment
      /\ \A p \in DOMAIN tx.insert : SeenBy(tx)[p] = tx.insert[p]
      /\ \A p \in DOMAIN payment : SeenBy(tx)[p] = payment[p]
  BY SeenByIs
<1>3. \A i : OfInvoice(payment, i) \subseteq DOMAIN payment
  BY DEF OfInvoice
<1>4. \A o : OfOrigin(payment, o) \subseteq DOMAIN payment
  BY DEF OfOrigin
<1>5. \A S \in SUBSET DOMAIN payment : Worth(SeenBy(tx), S) = Worth(payment, S)
  BY <1>1, <1>2, WorthAlike
<1>6. \A i : /\ OfInvoice(payment, i) \subseteq OfInvoice(SeenBy(tx), i)
             /\ OfInvoice(SeenBy(tx), i) \ OfInvoice(payment, i) = OfInvoice(tx.insert, i)
  BY <1>2 DEF OfInvoice
<1>7. \A o : /\ OfOrigin(payment, o) \subseteq OfOrigin(SeenBy(tx), o)
             /\ OfOrigin(SeenBy(tx), o) \ OfOrigin(payment, o) = OfOrigin(tx.insert, o)
  BY <1>2 DEF OfOrigin
<1> QED BY <1>3, <1>4, <1>5, <1>6, <1>7

\* One new row adds its amount where it belongs
LEMMA InsertOne ==
    ASSUME SettlementInv, RowsSigned(payment), NEW tx, IsTx(tx), RowsSigned(tx.insert),
           tx.delete = {}, NEW q, q \notin DOMAIN payment, DOMAIN tx.insert = {q}
    PROVE  LET entry == tx.insert[q]
               seen  == SeenBy(tx)
           IN  /\ entry.amount \in Int
               /\ \A i : /\ Worth(payment, OfInvoice(payment, i)) \in Int
                         /\ Worth(seen, OfInvoice(seen, i)) =
                              Worth(payment, OfInvoice(payment, i))
                                + (IF entry.invoice = i THEN entry.amount ELSE 0)
               /\ \A o : /\ Worth(payment, OfOrigin(payment, o)) \in Int
                         /\ Worth(seen, OfOrigin(seen, o)) =
                              Worth(payment, OfOrigin(payment, o))
                                + (IF entry.from = o THEN entry.amount ELSE 0)
<1> DEFINE entry == tx.insert[q]
           seen  == SeenBy(tx)
<1>1. IntRows(payment) /\ IntRows(seen) /\ IntRows(tx.insert)
  BY PaymentsAreInts, SeenAreInts
<1>2. entry.amount \in Int /\ q \in DOMAIN seen /\ seen[q] = entry
  BY <1>1, SeenByIs DEF IntRows
<1>3. ASSUME NEW S \in SUBSET DOMAIN payment, NEW T \in SUBSET DOMAIN seen,
             S \subseteq T, Worth(seen, S) = Worth(payment, S)
      PROVE  /\ Worth(payment, S) \in Int
             /\ T \ S = {q} => Worth(seen, T) = Worth(payment, S) + entry.amount
             /\ T \ S = {} => Worth(seen, T) = Worth(payment, S) + 0
  <2>1. Worth(payment, S) \in Int
    BY <1>1, WorthIsInt
  <2>2. ASSUME T \ S = {q} PROVE Worth(seen, T) = Worth(payment, S) + entry.amount
    <3>1. q \in T /\ T \ {q} = S
      BY <1>3, <2>2
    <3>2. Worth(seen, T) = seen[q].amount + Worth(seen, T \ {q})
      BY <1>1, <3>1, WorthSplits
    <3>3. seen[q].amount = entry.amount /\ entry.amount \in Int
      BY <1>2
    <3>4. Worth(seen, T \ {q}) = Worth(payment, S)
      BY <1>3, <3>1
    <3> HIDE DEF entry, seen
    <3> QED BY <2>1, <3>2, <3>3, <3>4
  <2>3. ASSUME T \ S = {} PROVE Worth(seen, T) = Worth(payment, S) + 0
    <3>1. T = S
      BY <1>3, <2>3
    <3> HIDE DEF entry, seen
    <3> QED BY <1>3, <2>1, <3>1
  <2> QED BY <2>1, <2>2, <2>3
<1>4. \A i : OfInvoice(tx.insert, i) = IF entry.invoice = i THEN {q} ELSE {}
  BY DEF OfInvoice
<1>5. \A o : OfOrigin(tx.insert, o) = IF entry.from = o THEN {q} ELSE {}
  BY DEF OfOrigin
<1>6. DOMAIN tx.insert \cap DOMAIN payment = {}
  OBVIOUS
<1>7. \A i : /\ OfInvoice(payment, i) \in SUBSET DOMAIN payment
             /\ OfInvoice(seen, i) \in SUBSET DOMAIN seen
  BY DEF OfInvoice
<1>8. \A o : /\ OfOrigin(payment, o) \in SUBSET DOMAIN payment
             /\ OfOrigin(seen, o) \in SUBSET DOMAIN seen
  BY DEF OfOrigin
<1>9. ASSUME NEW i
      PROVE  /\ Worth(payment, OfInvoice(payment, i)) \in Int
             /\ Worth(seen, OfInvoice(seen, i)) =
                  Worth(payment, OfInvoice(payment, i))
                    + (IF entry.invoice = i THEN entry.amount ELSE 0)
  <2>1. /\ OfInvoice(payment, i) \subseteq OfInvoice(seen, i)
        /\ OfInvoice(seen, i) \ OfInvoice(payment, i) = OfInvoice(tx.insert, i)
        /\ Worth(seen, OfInvoice(payment, i)) = Worth(payment, OfInvoice(payment, i))
    BY <1>6, InsertAdds
  <2> HIDE DEF entry, seen
  <2> QED BY <1>3, <1>4, <1>7, <2>1
<1>10. ASSUME NEW o
       PROVE  /\ Worth(payment, OfOrigin(payment, o)) \in Int
              /\ Worth(seen, OfOrigin(seen, o)) =
                   Worth(payment, OfOrigin(payment, o))
                     + (IF entry.from = o THEN entry.amount ELSE 0)
  <2>1. /\ OfOrigin(payment, o) \subseteq OfOrigin(seen, o)
        /\ OfOrigin(seen, o) \ OfOrigin(payment, o) = OfOrigin(tx.insert, o)
        /\ Worth(seen, OfOrigin(payment, o)) = Worth(payment, OfOrigin(payment, o))
    BY <1>6, InsertAdds
  <2> HIDE DEF entry, seen
  <2> QED BY <1>3, <1>5, <1>8, <2>1
<1> HIDE DEF entry, seen
<1>11. /\ entry.amount \in Int
       /\ \A i : /\ Worth(payment, OfInvoice(payment, i)) \in Int
                 /\ Worth(seen, OfInvoice(seen, i)) =
                      Worth(payment, OfInvoice(payment, i))
                        + (IF entry.invoice = i THEN entry.amount ELSE 0)
       /\ \A o : /\ Worth(payment, OfOrigin(payment, o)) \in Int
                 /\ Worth(seen, OfOrigin(seen, o)) =
                      Worth(payment, OfOrigin(payment, o))
                        + (IF entry.from = o THEN entry.amount ELSE 0)
  BY <1>2, <1>9, <1>10
<1> QED BY <1>11 DEF entry, seen

\* New rows that are no refunds: the refunds stay, and an invoice without one of them is worth
\* what it was
LEMMA ReceiptHolds ==
    ASSUME SettlementInv, SequentialInv, NEW tx, IsTx(tx), RowsSigned(tx.insert),
           tx.delete = {}, DOMAIN tx.insert \cap used = {}, tx.refunded = Nothing,
           \A p \in DOMAIN tx.insert : tx.insert[p].from[1] # "refund"
    PROVE  /\ \A p \in DOMAIN SeenBy(tx) :
                -Worth(SeenBy(tx), OfOrigin(SeenBy(tx), <<"refund", p>>))
                  <= Over(tx.refunded, refunded)[p]
           /\ \A i \in Invoices \ Touched(tx) : Sum(SeenBy(tx), i) = Paid(i)
           /\ NotesHaveWorth => \A i \in Touched(tx) : Sum(SeenBy(tx), i) # Paid(i)
<1> DEFINE seen == SeenBy(tx)
<1>1. IntRows(payment) /\ IntRows(seen) /\ RowsSigned(payment)
  BY PaymentsAreInts, SeenAreInts DEF SequentialInv, Ledger
<1>2. /\ DOMAIN seen = DOMAIN tx.insert \cup DOMAIN payment
      /\ \A p \in DOMAIN tx.insert : seen[p] = tx.insert[p]
  BY SeenByIs
<1>3. DOMAIN tx.insert \cap DOMAIN payment = {} /\ DOMAIN payment \subseteq used
  BY DEF SettlementInv, TypeOK
<1>4. Touched(tx) = {tx.insert[p].invoice : p \in DOMAIN tx.insert}
  BY DEF Touched
<1>5. ASSUME NEW p \in DOMAIN seen
      PROVE  -Worth(seen, OfOrigin(seen, <<"refund", p>>)) <= Over(tx.refunded, refunded)[p]
  <2> DEFINE o == <<"refund", p>>
  <2>1. OfOrigin(tx.insert, o) = {}
    BY DEF OfOrigin
  <2>2. OfOrigin(seen, o) = OfOrigin(payment, o)
    BY <1>1, <1>3, <2>1, InsertAdds
  <2>3. Worth(seen, OfOrigin(payment, o)) = Worth(payment, OfOrigin(payment, o))
    BY <1>1, <1>3, InsertAdds
  <2>4. p \in Payments /\ Over(tx.refunded, refunded)[p] = refunded[p] /\ refunded[p] \in Nat
    BY <1>2 DEF SettlementInv, TypeOK, Over, Nothing, IsTx, Partial
  <2>5. CASE p \in DOMAIN payment
    BY <2>2, <2>3, <2>4, <2>5 DEF SequentialInv, Ledger, RowsCovered
  <2>6. CASE p \in DOMAIN tx.insert
    <3>1. OfOrigin(payment, o) = {}
      BY <1>1, <2>6 DEF OfOrigin, RowsSigned, Signed
    <3>2. Worth(payment, OfOrigin(payment, o)) = 0
      BY <1>1, <3>1, WorthOfNone
    <3> QED BY <2>2, <2>3, <2>4, <3>2
  <2> QED BY <1>2, <2>5, <2>6
<1>6. ASSUME NEW i \in Invoices \ Touched(tx) PROVE Sum(seen, i) = Paid(i)
  <2>1. OfInvoice(tx.insert, i) = {}
    BY <1>4 DEF OfInvoice
  <2>2. OfInvoice(seen, i) = OfInvoice(payment, i)
    BY <1>1, <1>3, <2>1, InsertAdds
  <2>3. Worth(seen, OfInvoice(payment, i)) = Worth(payment, OfInvoice(payment, i))
    BY <1>1, <1>3, InsertAdds
  <2> QED BY <2>2, <2>3, SumIsWorth
<1>7. ASSUME NotesHaveWorth, NEW i \in Touched(tx) PROVE Sum(seen, i) # Paid(i)
  <2> DEFINE S == OfInvoice(payment, i)
             T == OfInvoice(seen, i)
  <2>1. S \subseteq T /\ T \ S = OfInvoice(tx.insert, i) /\ Worth(seen, S) = Worth(payment, S)
    BY <1>1, <1>3, InsertAdds
  <2>2. OfInvoice(tx.insert, i) # {} /\ T \subseteq DOMAIN seen
    BY <1>4 DEF OfInvoice
  <2>3. \A p \in T \ S : seen[p].amount > 0
    <3> SUFFICES ASSUME NEW p \in T \ S PROVE seen[p].amount > 0
      OBVIOUS
    <3>1. p \in DOMAIN tx.insert
      BY <2>1 DEF OfInvoice
    <3>2. tx.insert[p].amount >= 0 /\ tx.insert[p].amount # 0
      BY <1>7, <3>1 DEF RowsSigned, Signed
    <3>3. tx.insert[p].amount \in Int
      BY <3>1 DEF IsTx, Partial, Row
    <3> QED BY <1>2, <3>1, <3>2, <3>3
  <2> HIDE DEF S, T, seen
  <2>4. Worth(seen, S) < Worth(seen, T) /\ Worth(seen, S) \in Int /\ Worth(seen, T) \in Int
    <3>1. S \in SUBSET DOMAIN seen /\ S # T
      BY <2>1, <2>2
    <3> QED BY <1>1, <2>1, <2>2, <2>3, <3>1, WorthGrows, WorthIsInt
  <2>5. Sum(seen, i) = Worth(seen, T) /\ Paid(i) = Worth(payment, S)
    BY SumIsWorth DEF S, T
  <2> QED BY <2>1, <2>4, <2>5
<1> QED BY <1>5, <1>6, <1>7

\* A row less takes its amount away where it belonged
LEMMA DeleteOne ==
    ASSUME SettlementInv, RowsSigned(payment), NEW tx, IsTx(tx), tx.insert = Nothing,
           NEW q \in DOMAIN payment, tx.delete = {q}
    PROVE  LET entry == payment[q]
               seen  == SeenBy(tx)
           IN  /\ DOMAIN seen = DOMAIN payment \ {q} /\ entry.amount \in Int
               /\ \A i : /\ Worth(payment, OfInvoice(payment, i)) \in Int
                         /\ Worth(seen, OfInvoice(seen, i)) =
                              Worth(payment, OfInvoice(payment, i))
                                - (IF entry.invoice = i THEN entry.amount ELSE 0)
               /\ \A o : /\ Worth(payment, OfOrigin(payment, o)) \in Int
                         /\ Worth(seen, OfOrigin(seen, o)) =
                              Worth(payment, OfOrigin(payment, o))
                                - (IF entry.from = o THEN entry.amount ELSE 0)
<1> DEFINE entry == payment[q]
           seen  == SeenBy(tx)
<1>0. RowsSigned(tx.insert)
  BY NothingIsPartial, FS_EmptySet DEF RowsSigned
<1>1. IntRows(payment) /\ IntRows(seen)
  BY <1>0, PaymentsAreInts, SeenAreInts
<1>2. /\ DOMAIN seen = DOMAIN payment \ {q} /\ \A p \in DOMAIN seen : seen[p] = payment[p]
      /\ entry.amount \in Int
  BY <1>1, SeenByIs, NothingIsPartial DEF IntRows
<1>3. ASSUME NEW S \in SUBSET DOMAIN payment
      PROVE  /\ Worth(payment, S) \in Int
             /\ Worth(seen, S \ {q}) = Worth(payment, S) - (IF q \in S THEN entry.amount ELSE 0)
  <2>1. Worth(payment, S) \in Int
    BY <1>1, WorthIsInt
  <2>2. S \ {q} \in SUBSET DOMAIN payment /\ S \ {q} \subseteq DOMAIN seen
    BY <1>2
  <2>3. Worth(seen, S \ {q}) = Worth(payment, S \ {q})
    BY <1>1, <1>2, <2>2, WorthAlike
  <2>4. CASE q \in S
    <3>1. Worth(payment, S) = payment[q].amount + Worth(payment, S \ {q})
            /\ Worth(payment, S \ {q}) \in Int
      BY <1>1, <2>4, WorthSplits
    <3>2. payment[q].amount = entry.amount
      OBVIOUS
    <3> HIDE DEF entry, seen
    <3>3. Worth(seen, S \ {q}) = Worth(payment, S) - entry.amount
      BY <1>2, <2>3, <3>1, <3>2
    <3> QED BY <2>1, <2>4, <3>3
  <2>5. CASE q \notin S
    <3>1. S \ {q} = S
      BY <2>5
    <3> HIDE DEF entry, seen
    <3>2. Worth(seen, S \ {q}) = Worth(payment, S) - 0
      BY <2>1, <2>3, <3>1
    <3> QED BY <2>1, <2>5, <3>2
  <2> HIDE DEF entry, seen
  <2> QED BY <2>4, <2>5
<1>4. \A i : /\ OfInvoice(payment, i) \in SUBSET DOMAIN payment
             /\ OfInvoice(seen, i) = OfInvoice(payment, i) \ {q}
             /\ q \in OfInvoice(payment, i) <=> entry.invoice = i
  BY <1>2 DEF OfInvoice
<1>5. \A o : /\ OfOrigin(payment, o) \in SUBSET DOMAIN payment
             /\ OfOrigin(seen, o) = OfOrigin(payment, o) \ {q}
             /\ q \in OfOrigin(payment, o) <=> entry.from = o
  BY <1>2 DEF OfOrigin
<1> HIDE DEF entry, seen
<1>6. \A i : /\ Worth(payment, OfInvoice(payment, i)) \in Int
             /\ Worth(seen, OfInvoice(seen, i)) =
                  Worth(payment, OfInvoice(payment, i))
                    - (IF entry.invoice = i THEN entry.amount ELSE 0)
  BY <1>3, <1>4
<1>7. \A o : /\ Worth(payment, OfOrigin(payment, o)) \in Int
             /\ Worth(seen, OfOrigin(seen, o)) =
                  Worth(payment, OfOrigin(payment, o))
                    - (IF entry.from = o THEN entry.amount ELSE 0)
  BY <1>3, <1>5
<1> QED BY <1>2, <1>6, <1>7 DEF entry, seen

--------------------------------------------------------------------------------
(* One request about payments *)

\* Nothing is drawn from a note by rows of another origin
LEMMA NothingDrawn ==
    ASSUME SettlementInv, SequentialInv, NEW tx, IsTx(tx), RowsSigned(tx.insert),
           tx.delete = {}, DOMAIN tx.insert \cap used = {}, tx.applied = Nothing,
           \A p \in DOMAIN tx.insert : tx.insert[p].from[1] # "part of"
    PROVE  \A n \in Notes : Worth(SeenBy(tx), OfOrigin(SeenBy(tx), <<"part of", n>>))
                              <= Over(tx.applied, applied)[n]
<1> SUFFICES ASSUME NEW n \in Notes
             PROVE  Worth(SeenBy(tx), OfOrigin(SeenBy(tx), <<"part of", n>>))
                      <= Over(tx.applied, applied)[n]
  OBVIOUS
<1> DEFINE o == <<"part of", n>>
<1>1. RowsSigned(payment) /\ DOMAIN tx.insert \cap DOMAIN payment = {}
  BY DEF SequentialInv, Ledger, SettlementInv, TypeOK
<1>2. OfOrigin(tx.insert, o) = {}
  <2>1. o[1] = "part of"
    OBVIOUS
  <2> HIDE DEF o
  <2> QED BY <2>1 DEF OfOrigin
<1>3. OfOrigin(SeenBy(tx), o) = OfOrigin(payment, o)
  BY <1>1, <1>2, InsertAdds
<1>4. Worth(SeenBy(tx), OfOrigin(payment, o)) = Worth(payment, OfOrigin(payment, o))
  BY <1>1, InsertAdds
<1>5. Over(tx.applied, applied)[n] = applied[n]
  BY DEF SettlementInv, TypeOK, Over, Nothing
<1> QED BY <1>3, <1>4, <1>5 DEF SequentialInv, Ledger, RowsCovered

LEMMA ReceiveReads ==
    ASSUME OneRequest, SettlementInv, SequentialInv, NEW w \in Workers, NEW rows,
           worker' = [worker EXCEPT ![w] = Receive(rows)], UNCHANGED tables,
           Partial(rows, Payments, Row), DOMAIN rows \subseteq Fresh, IsFiniteSet(DOMAIN rows),
           \A p \in DOMAIN rows : rows[p].amount > 0 /\ rows[p].from[1] \in {"hand", "gateway"}
    PROVE  SequentialInv'
<1> DEFINE r == Receive(rows)
<1>1. IsTx(r)
  BY TxIsTx, NothingIsPartial DEF Receive, Begin
<1>2. /\ r.pc = "tx" /\ r.insert = rows /\ r.delete = {} /\ r.status = Nothing
      /\ r.refunded = Nothing /\ r.applied = Nothing /\ r.noteStatus = Nothing
  BY TxFields DEF Receive, Begin
<1> HIDE DEF r
<1>3. RowsSigned(r.insert)
  <2>1. \A p \in DOMAIN rows : rows[p].amount \in Int
    BY DEF Partial, Row
  <2> QED BY <1>2, <2>1 DEF RowsSigned, Signed
<1>4. DOMAIN r.insert \cap used = {}
  BY <1>2 DEF Fresh
<1>5. \A p \in DOMAIN r.insert : r.insert[p].from[1] \notin {"refund", "part of"}
  BY <1>2
<1>6. RowsCovered(SeenBy(r), Over(r.refunded, refunded), Over(r.applied, applied))
  BY <1>1, <1>2, <1>3, <1>4, <1>5, ReceiptHolds, NothingDrawn DEF RowsCovered
<1>7. TxHolds(r)
  <2>1. /\ \A i \in Invoices \ Touched(r) : Sum(SeenBy(r), i) = Paid(i)
        /\ NotesHaveWorth => \A i \in Touched(r) : Sum(SeenBy(r), i) # Paid(i)
    BY <1>1, <1>2, <1>3, <1>4, <1>5, ReceiptHolds
  <2> QED BY <1>2, <1>3, <1>6, <2>1, NothingIsPartial DEF TxHolds
<1>8. AsRead(r)
  BY <1>2, <1>7 DEF AsRead
<1>9. worker' = [worker EXCEPT ![w] = r]
  BY DEF r
<1> QED BY <1>8, <1>9, RequestReads

LEMMA PaymentReads ==
    ASSUME OneRequest, SettlementInv, SequentialInv, NEW w \in Workers, PaymentRequest(w)
    PROVE  SequentialInv'
<1> USE DEF Continue
<1>0. RowsSigned(payment) /\ \A p \in DOMAIN payment : p \in Payments /\ p \in used
  BY DEF SequentialInv, Ledger, SettlementInv, TypeOK, Partial
<1>1. ASSUME NEW p \in Fresh, NEW i \in Invoices, NEW a \in Amounts, Create(w, p, i, a)
      PROVE  SequentialInv'
  <2> DEFINE entry == Payment(i, a, <<"hand">>)
             rows == Only(p, entry)
  <2>1. entry \in Row /\ entry.amount = a /\ entry.from = <<"hand">> /\ a > 0
    <3>1. entry.amount = a /\ entry.from = <<"hand">>
      BY DEF Payment
    <3>2. a \in Nat \ {0}
      BY AmountsAssumption
    <3>3. entry \in Row
      BY PaymentIsRow, PaymentOrigins, AmountsAreNumbers
    <3> HIDE DEF entry
    <3> QED BY <3>1, <3>2, <3>3
  <2>2. worker' = [worker EXCEPT ![w] = Receive(rows)] /\ UNCHANGED tables
    BY <1>1 DEF Create
  <2> HIDE DEF entry
  <2>3. Partial(rows, Payments, Row) /\ DOMAIN rows = {p} /\ rows[p] = entry
    BY <2>1, OneRow
  <2>4. IsFiniteSet(DOMAIN rows)
    BY <2>3, FS_Singleton
  <2> HIDE DEF rows
  <2>5. \A q \in DOMAIN rows : rows[q].amount > 0 /\ rows[q].from[1] \in {"hand", "gateway"}
    BY <2>1, <2>3
  <2> QED BY <2>2, <2>3, <2>4, <2>5, ReceiveReads
<1>2. ASSUME NEW batch \in Batches, CreateBatch(w, batch)
      PROVE  SequentialInv'
  <2> DEFINE Entries == {Payment(i, a, <<"hand">>) : i \in Invoices, a \in Amounts}
  <2>1. PICK P \in SUBSET Fresh : IsFiniteSet(P) /\ batch \in [P -> Entries]
    BY DEF Batches
  <2>2. \A e \in Entries : e \in Row /\ e.amount > 0 /\ e.from[1] = "hand"
    <3> SUFFICES ASSUME NEW i \in Invoices, NEW a \in Amounts
                 PROVE  LET e == Payment(i, a, <<"hand">>)
                        IN  e \in Row /\ e.amount > 0 /\ e.from[1] = "hand"
      OBVIOUS
    <3>1. a \in Nat \ {0} /\ a > 0
      BY AmountsAssumption
    <3>2. Payment(i, a, <<"hand">>) \in Row
      BY PaymentIsRow, PaymentOrigins, AmountsAreNumbers
    <3> QED BY <3>1, <3>2 DEF Payment
  <2> HIDE DEF Entries
  <2>3. Partial(batch, Payments, Row) /\ DOMAIN batch \subseteq Fresh /\ IsFiniteSet(DOMAIN batch)
    BY <2>1, <2>2, FreshArePayments DEF Partial
  <2>4. \A q \in DOMAIN batch : batch[q].amount > 0 /\ batch[q].from[1] \in {"hand", "gateway"}
    BY <2>1, <2>2
  <2> QED BY <1>2, <2>3, <2>4, ReceiveReads DEF CreateBatch
<1>3. ASSUME NEW t \in Txns, GatewayLookup(w, t)
      PROVE  SequentialInv'
  <2> DEFINE r == [pc |-> "gateway", txn |-> t]
  <2>1. AsRead(r)
    BY DEF AsRead
  <2> QED BY <1>3, <2>1, RequestReads DEF GatewayLookup
<1>4. ASSUME NEW p \in Fresh, GatewayCreate(w, p)
      PROVE  SequentialInv'
  <2> DEFINE t == worker[w].txn
             entry == Payment(TxnInvoice[t], TxnAmount[t], <<"gateway", t>>)
             rows == Only(p, entry)
  <2>1. t \in Txns
    BY <1>4 DEF GatewayCreate, SettlementInv, TypeOK, RequestType, InTx
  <2>2. entry \in Row /\ entry.amount > 0 /\ entry.from = <<"gateway", t>>
    <3>1. TxnInvoice[t] \in Invoices /\ TxnAmount[t] \in Nat \ {0}
      BY <2>1, TxnAssumption
    <3>2. TxnAmount[t] \in Int /\ TxnAmount[t] > 0
      BY <3>1
    <3>3. entry \in Row
      BY <2>1, <3>1, <3>2, PaymentIsRow, PaymentOrigins
    <3> QED BY <3>2, <3>3 DEF Payment
  <2>3. worker' = [worker EXCEPT ![w] = Receive(rows)] /\ UNCHANGED tables
    BY <1>4 DEF GatewayCreate
  <2> HIDE DEF entry
  <2>4. Partial(rows, Payments, Row) /\ DOMAIN rows = {p} /\ rows[p] = entry
    BY <2>2, OneRow
  <2>5. IsFiniteSet(DOMAIN rows)
    BY <2>4, FS_Singleton
  <2> HIDE DEF rows, t
  <2>6. \A q \in DOMAIN rows : rows[q].amount > 0 /\ rows[q].from[1] \in {"hand", "gateway"}
    BY <2>2, <2>4
  <2> QED BY <2>3, <2>4, <2>5, <2>6, ReceiveReads
<1>5. ASSUME NEW p \in Payments, NEW a \in Amounts, RefundRead(w, p, a)
      PROVE  SequentialInv'
  <2> DEFINE r == [pc |-> "refund", payment |-> p, amount |-> a, seen |-> refunded[p]]
  <2>1. AsRead(r)
    BY DEF AsRead
  <2>2. worker' = [worker EXCEPT ![w] = r] /\ UNCHANGED tables
    BY <1>5 DEF RefundRead
  <2> HIDE DEF r
  <2> QED BY <2>1, <2>2, RequestReads
<1>6. ASSUME NEW q \in Fresh, RefundWrite(w, q)
      PROVE  SequentialInv'
  <2> DEFINE s == worker[w]
             o == s.payment
             entry == Payment(payment[o].invoice, -s.amount, <<"refund", o>>)
             rows == Only(q, entry)
             new == Stamp(s.seen, s.amount)
             stamp == Only(o, new)
             r == Begin("refund", rows, {}, stamp)
  <2>1. /\ o \in DOMAIN payment /\ s.amount \in Nat \ {0} /\ s.seen = refunded[o]
        /\ refunded[o] \in Nat
    <3>1. s.pc = "refund" /\ o \in DOMAIN payment
      BY <1>6 DEF RefundWrite
    <3>2. s.amount \in Nat \ {0} /\ s.seen = refunded[o]
      BY <3>1 DEF SettlementInv, TypeOK, RequestType, InTx, SequentialInv, AsRead
    <3> QED BY <1>0, <3>1, <3>2 DEF SettlementInv, TypeOK
  <2>2. payment[o].invoice \in Invoices
    BY <2>1 DEF SettlementInv, TypeOK, Partial, Row
  <2>3. /\ entry \in Row /\ entry.invoice = payment[o].invoice /\ entry.amount < 0
        /\ entry.amount = -s.amount /\ entry.from = <<"refund", o>>
    <3>1. -s.amount \in Int /\ -s.amount < 0
      BY <2>1
    <3>2. entry \in Row
      BY <1>0, <2>1, <2>2, <3>1, PaymentIsRow, PaymentOrigins
    <3> QED BY <3>1, <3>2 DEF Payment
  <2>4. new = refunded[o] + s.amount /\ new \in Nat
    BY <2>1 DEF Stamp
  <2>5. worker' = [worker EXCEPT ![w] = r] /\ UNCHANGED tables
    BY <1>6 DEF RefundWrite
  <2> HIDE DEF entry
  <2>6. Partial(rows, Payments, Row) /\ DOMAIN rows = {q} /\ rows[q] = entry
    BY <2>3, OneRow
  <2>7. Partial(stamp, Payments, Nat) /\ DOMAIN stamp = {o} /\ stamp[o] = new
    <3>1. o \in Payments /\ new \in Nat
      BY <1>0, <2>1, <2>4
    <3> HIDE DEF o, new
    <3>2. /\ Partial(Only(o, new), Payments, Nat)
          /\ DOMAIN Only(o, new) = {o} /\ Only(o, new)[o] = new
      BY <3>1, OnlyIsPartial
    <3> QED BY <3>2
  <2> HIDE DEF rows, stamp, new
  <2>8. IsTx(r)
    BY <2>6, <2>7, TxIsTx, NothingIsPartial DEF Begin
  <2>9. /\ r.pc = "tx" /\ r.insert = rows /\ r.delete = {} /\ r.refunded = stamp
        /\ r.status = Nothing /\ r.applied = Nothing /\ r.noteStatus = Nothing
    BY TxFields DEF Begin
  <2> HIDE DEF r
  <2>10. RowsSigned(r.insert)
    <3>1. o \in used /\ entry.from[1] = "refund" /\ entry.from[2] = o /\ entry.amount # 0
      BY <1>0, <2>1, <2>3
    <3> QED BY <2>3, <2>6, <2>9, <3>1, FS_Singleton DEF RowsSigned, Signed
  <2>11. q \notin used /\ q \notin DOMAIN payment /\ q \in Payments
    BY <1>0 DEF Fresh
  <2> HIDE DEF o
  <2>12. /\ entry.amount \in Int
         /\ \A i : /\ Worth(payment, OfInvoice(payment, i)) \in Int
                   /\ Worth(SeenBy(r), OfInvoice(SeenBy(r), i)) =
                        Worth(payment, OfInvoice(payment, i))
                          + (IF entry.invoice = i THEN entry.amount ELSE 0)
         /\ \A g : /\ Worth(payment, OfOrigin(payment, g)) \in Int
                   /\ Worth(SeenBy(r), OfOrigin(SeenBy(r), g)) =
                        Worth(payment, OfOrigin(payment, g))
                          + (IF entry.from = g THEN entry.amount ELSE 0)
    BY <1>0, <2>6, <2>8, <2>9, <2>10, <2>11, InsertOne
  <2>13. Touched(r) = {entry.invoice}
    BY <2>6, <2>9 DEF Touched
  <2>14. ASSUME NEW p \in DOMAIN SeenBy(r)
         PROVE  -Worth(SeenBy(r), OfOrigin(SeenBy(r), <<"refund", p>>))
                  <= Over(r.refunded, refunded)[p]
    <3>1. p \in DOMAIN payment \/ p = q
      BY <2>6, <2>9, SeenByIs
    <3>2. p \in Payments /\ refunded[p] \in Nat
      BY <1>0, <2>11, <3>1 DEF SettlementInv, TypeOK
    <3>3. Over(r.refunded, refunded)[p] = IF p = o THEN new ELSE refunded[p]
      BY <2>7, <2>9, <3>2 DEF Over, SettlementInv, TypeOK
    <3> DEFINE was == Worth(payment, OfOrigin(payment, <<"refund", p>>))
    <3>4. was \in Int /\ Worth(SeenBy(r), OfOrigin(SeenBy(r), <<"refund", p>>))
                            = was + (IF o = p THEN entry.amount ELSE 0)
      <4>1. entry.from = <<"refund", p>> <=> o = p
        BY <2>3
      <4> QED BY <2>12, <4>1
    <3>5. -was <= refunded[p]
      <4>1. CASE p \in DOMAIN payment
        BY <4>1 DEF SequentialInv, Ledger, RowsCovered
      <4>2. CASE p = q
        <5>1. OfOrigin(payment, <<"refund", p>>) = {}
          BY <1>0, <2>11, <4>2 DEF OfOrigin, RowsSigned, Signed
        <5>2. was = 0
          BY <1>0, <5>1, WorthOfNone, PaymentsAreInts
        <5> QED BY <3>2, <5>2
      <4> QED BY <3>1, <4>1, <4>2
    <3> HIDE DEF was, s
    <3> QED BY <2>1, <2>3, <2>4, <3>2, <3>3, <3>4, <3>5
  <2>15. ASSUME NEW n \in Notes
         PROVE  Worth(SeenBy(r), OfOrigin(SeenBy(r), <<"part of", n>>))
                  <= Over(r.applied, applied)[n]
    <3> DEFINE g == <<"part of", n>>
    <3>1. entry.from # g
      <4>1. g[1] # "refund" /\ entry.from[1] = "refund"
        BY <2>3
      <4> HIDE DEF g
      <4> QED BY <4>1
    <3>2. Over(r.applied, applied)[n] = applied[n] /\ applied[n] \in Nat
      BY <2>9 DEF SettlementInv, TypeOK, Over, Nothing
    <3>3. Worth(payment, OfOrigin(payment, g)) <= applied[n]
      BY DEF SequentialInv, Ledger, RowsCovered
    <3> HIDE DEF g
    <3>4. Worth(SeenBy(r), OfOrigin(SeenBy(r), g)) <= Over(r.applied, applied)[n]
      BY <2>12, <3>1, <3>2, <3>3
    <3> QED BY <3>4 DEF g
  <2>16. ASSUME NEW i
         PROVE  i # entry.invoice <=> Sum(SeenBy(r), i) = Paid(i)
    <3>1. /\ Sum(SeenBy(r), i) = Worth(SeenBy(r), OfInvoice(SeenBy(r), i))
          /\ Paid(i) = Worth(payment, OfInvoice(payment, i))
      BY SumIsWorth
    <3> QED BY <2>3, <2>12, <3>1
  <2>17. TxHolds(r)
    BY <2>9, <2>10, <2>13, <2>14, <2>15, <2>16, NothingIsPartial DEF TxHolds, RowsCovered
  <2>18. AsRead(r)
    BY <2>9, <2>17 DEF AsRead
  <2> QED BY <2>5, <2>18, RequestReads
<1>7. ASSUME NEW p \in Payments, Delete(w, p)
      PROVE  SequentialInv'
  <2> DEFINE r == Begin("delete", Nothing, {p}, Nothing)
             entry == payment[p]
  <2>1. /\ r.pc = "tx" /\ r.insert = Nothing /\ r.delete = {p} /\ r.refunded = Nothing
        /\ r.status = Nothing /\ r.applied = Nothing /\ r.noteStatus = Nothing
    BY TxFields DEF Begin
  <2>2. worker' = [worker EXCEPT ![w] = r] /\ UNCHANGED tables /\ p \in DOMAIN payment
    BY <1>7 DEF Delete
  <2>3. IsTx(r)
    BY <2>2, TxIsTx, NothingIsPartial DEF Begin
  <2> HIDE DEF r
  <2>4. RowsSigned(r.insert)
    BY <2>1, NothingIsPartial, FS_EmptySet DEF RowsSigned
  <2>5. /\ DOMAIN SeenBy(r) = DOMAIN payment \ {p} /\ entry.amount \in Int
        /\ \A i : /\ Worth(payment, OfInvoice(payment, i)) \in Int
                  /\ Worth(SeenBy(r), OfInvoice(SeenBy(r), i)) =
                       Worth(payment, OfInvoice(payment, i))
                         - (IF entry.invoice = i THEN entry.amount ELSE 0)
        /\ \A g : /\ Worth(payment, OfOrigin(payment, g)) \in Int
                  /\ Worth(SeenBy(r), OfOrigin(SeenBy(r), g)) =
                       Worth(payment, OfOrigin(payment, g))
                         - (IF entry.from = g THEN entry.amount ELSE 0)
    BY <1>0, <2>1, <2>2, <2>3, DeleteOne
  <2>6. Signed(entry)
    BY <1>0, <2>2 DEF RowsSigned
  <2>7. Touched(r) = {entry.invoice}
    BY <2>1, NothingIsPartial DEF Touched
  <2> HIDE DEF entry
  <2>8. ASSUME NEW o \in DOMAIN SeenBy(r)
        PROVE  -Worth(SeenBy(r), OfOrigin(SeenBy(r), <<"refund", o>>))
                 <= Over(r.refunded, refunded)[o]
    <3> DEFINE was == Worth(payment, OfOrigin(payment, <<"refund", o>>))
    <3>1. o \in DOMAIN payment
      BY <2>5
    <3>2. o \in Payments /\ Over(r.refunded, refunded)[o] = refunded[o] /\ refunded[o] \in Nat
      BY <1>0, <2>1, <3>1 DEF SettlementInv, TypeOK, Over, Nothing
    <3>3. -was <= refunded[o] /\ was \in Int
      BY <2>5, <3>1 DEF SequentialInv, Ledger, RowsCovered
    <3>4. CASE entry.from = <<"refund", o>>
      <4>1. entry.amount < 0
        BY <2>6, <3>4 DEF Signed
      <4>2. Worth(SeenBy(r), OfOrigin(SeenBy(r), <<"refund", o>>)) = was - entry.amount
        BY <2>5, <3>4
      <4> HIDE DEF was
      <4> QED BY <2>5, <3>2, <3>3, <4>1, <4>2
    <3>5. CASE entry.from # <<"refund", o>>
      <4>1. Worth(SeenBy(r), OfOrigin(SeenBy(r), <<"refund", o>>)) = was - 0
        BY <2>5, <3>5
      <4> HIDE DEF was
      <4> QED BY <3>2, <3>3, <4>1
    <3> QED BY <3>4, <3>5
  <2>9. ASSUME NEW n \in Notes
        PROVE  Worth(SeenBy(r), OfOrigin(SeenBy(r), <<"part of", n>>))
                 <= Over(r.applied, applied)[n]
    <3> DEFINE g == <<"part of", n>>
               was == Worth(payment, OfOrigin(payment, g))
    <3>1. Over(r.applied, applied)[n] = applied[n] /\ applied[n] \in Nat
      BY <2>1 DEF SettlementInv, TypeOK, Over, Nothing
    <3>2. was <= applied[n] /\ was \in Int
      BY <2>5 DEF SequentialInv, Ledger, RowsCovered
    <3>3. entry.from = g => entry.amount >= 0
      <4>1. g[1] # "refund"
        OBVIOUS
      <4> HIDE DEF g
      <4> QED BY <2>6, <4>1 DEF Signed
    <3> HIDE DEF g
    <3>4. Worth(SeenBy(r), OfOrigin(SeenBy(r), g)) =
            was - (IF entry.from = g THEN entry.amount ELSE 0)
      BY <2>5
    <3> HIDE DEF was
    <3>5. Worth(SeenBy(r), OfOrigin(SeenBy(r), g)) <= Over(r.applied, applied)[n]
      <4>1. CASE entry.from = g
        BY <2>5, <3>1, <3>2, <3>3, <3>4, <4>1
      <4>2. CASE entry.from # g
        BY <3>1, <3>2, <3>4, <4>2
      <4> QED BY <4>1, <4>2
    <3> QED BY <3>5 DEF g
  <2>10. ASSUME NEW i
         PROVE  /\ i # entry.invoice => Sum(SeenBy(r), i) = Paid(i)
                /\ NotesHaveWorth /\ i = entry.invoice => Sum(SeenBy(r), i) # Paid(i)
    <3>1. /\ Sum(SeenBy(r), i) = Worth(SeenBy(r), OfInvoice(SeenBy(r), i))
          /\ Paid(i) = Worth(payment, OfInvoice(payment, i))
      BY SumIsWorth
    <3>2. NotesHaveWorth => entry.amount # 0
      BY <2>6 DEF Signed
    <3> QED BY <2>5, <3>1, <3>2
  <2>11. TxHolds(r)
    BY <2>1, <2>4, <2>7, <2>8, <2>9, <2>10, NothingIsPartial DEF TxHolds, RowsCovered
  <2>12. AsRead(r)
    BY <2>1, <2>11 DEF AsRead
  <2> QED BY <2>2, <2>12, RequestReads
<1> QED BY <1>1, <1>2, <1>3, <1>4, <1>5, <1>6, <1>7 DEF PaymentRequest

--------------------------------------------------------------------------------
(* One request about invoices *)

\* A status that shows money received, or one that stays
LEMMA MoneyKept ==
    ASSUME SettlementInv, SequentialInv, NEW i \in Invoices,
           ~ShowsUnpaid(status'[i]) \/ status'[i] = status[i] \/ ShowsUnpaid(status[i])
    PROVE  ShowsUnpaid(status'[i]) => Paid(i) <= 0
BY DEF SequentialInv, Ledger, UnpaidHasNoMoney, ShowsUnpaid

\* It writes an invoice or a note and ends
LEMMA RequestEnds ==
    ASSUME OneRequest, SettlementInv, SequentialInv, NEW w \in Workers,
           worker' = [worker EXCEPT ![w] = Idle], UNCHANGED <<payment, refunded, used, applied>>,
           \A i \in Invoices : ShowsUnpaid(status'[i]) => Paid(i) <= 0
    PROVE  SequentialInv'
<1> DEFINE r == Idle
<1>1. r.pc = "idle" \/ r.pc = "tax"
  BY IdleIsRequest
<1>2. worker' = [worker EXCEPT ![w] = r]
  OBVIOUS
<1> HIDE DEF r
<1> QED BY <1>1, <1>2, RequestWrites

LEMMA InvoiceReads ==
    ASSUME OneRequest, SettlementInv, SequentialInv, NEW w \in Workers, InvoiceRequest(w)
    PROVE  SequentialInv'
<1> USE DEF Continue, Done
<1>0. /\ worker = [v \in Workers |-> worker[v]] /\ AsRead(worker[w])
      /\ status \in [Invoices -> Statuses \cup {"none", "deleted"}]
  BY DEF SettlementInv, TypeOK, SequentialInv
<1>1. ASSUME NEW i \in Invoices, InvoiceCreate(w, i) PROVE SequentialInv'
  <2> DEFINE r == [pc |-> "tax", invoice |-> i]
  <2>1. r.pc = "idle" \/ r.pc = "tax"
    OBVIOUS
  <2>2. PICK s \in {"draft", "sent"} : status' = [status EXCEPT ![i] = s]
    BY <1>1 DEF InvoiceCreate
  <2>3. OfInvoice(payment, i) = {}
    BY <1>1 DEF InvoiceCreate, OfInvoice, SettlementInv, ForeignKeys, Exists, Statuses
  <2>4. Paid(i) = 0
    BY <2>3, WorthOfNone, PaymentsAreInts, SumIsWorth DEF SequentialInv, Ledger
  <2>5. \A j \in Invoices : ShowsUnpaid(status'[j]) => Paid(j) <= 0
    BY <1>0, <2>2, <2>4, MoneyKept
  <2>6. worker' = [worker EXCEPT ![w] = r] /\ UNCHANGED <<payment, refunded, used, applied>>
    BY <1>1 DEF InvoiceCreate
  <2> HIDE DEF r
  <2> QED BY <2>1, <2>5, <2>6, RequestWrites
<1>2. ASSUME NEW i \in Invoices, UpdateRead(w, i) PROVE SequentialInv'
  <2>1. AsRead([pc |-> "update", invoice |-> i])
    BY DEF AsRead
  <2> QED BY <1>2, <2>1, RequestReads DEF UpdateRead
<1>3. ASSUME NEW i \in Invoices, InvoiceDeleteRead(w, i) PROVE SequentialInv'
  <2>1. AsRead([pc |-> "delete", invoice |-> i])
    BY <1>3 DEF AsRead, InvoiceDeleteRead
  <2> QED BY <1>3, <2>1, RequestReads DEF InvoiceDeleteRead
<1>4. ASSUME NEW i \in Invoices, MarkPaid(w, i) PROVE SequentialInv'
  <2>1. worker' = [worker EXCEPT ![w] = Idle]
    BY <1>0, <1>4 DEF MarkPaid
  <2>2. \A j \in Invoices : ShowsUnpaid(status'[j]) => Paid(j) <= 0
    BY <1>0, <1>4, MoneyKept DEF MarkPaid, ShowsUnpaid
  <2> QED BY <1>4, <2>1, <2>2, RequestEnds DEF MarkPaid
<1>5. ASSUME Update(w) PROVE SequentialInv'
  <2> DEFINE r == [pc |-> "tax", invoice |-> worker[w].invoice]
  <2>1. r.pc = "idle" \/ r.pc = "tax"
    OBVIOUS
  <2>2. \A j \in Invoices : ShowsUnpaid(status'[j]) => Paid(j) <= 0
    BY <1>5, MoneyKept DEF Update
  <2>3. worker' = [worker EXCEPT ![w] = r] /\ UNCHANGED <<payment, refunded, used, applied>>
    BY <1>5 DEF Update
  <2> HIDE DEF r
  <2> QED BY <2>1, <2>2, <2>3, RequestWrites
<1>6. ASSUME AutoTax(w) PROVE SequentialInv'
  <2>1. \A j \in Invoices : ShowsUnpaid(status'[j]) => Paid(j) <= 0
    BY <1>6, MoneyKept DEF AutoTax
  <2> QED BY <1>6, <2>1, RequestEnds DEF AutoTax
<1>7. ASSUME InvoiceDelete(w) PROVE SequentialInv'
  <2>1. \A j \in Invoices : ShowsUnpaid(status'[j]) => Paid(j) <= 0
    BY <1>0, <1>7, MoneyKept DEF InvoiceDelete, ShowsUnpaid
  <2> QED BY <1>7, <2>1, RequestEnds DEF InvoiceDelete
<1>8. ASSUME NEW i \in Invoices, NEW s \in Statuses, StatusRead(w, i, s) PROVE SequentialInv'
  <2>1. AsRead([pc |-> "status", todo |-> {i}, want |-> s])
    BY <1>8 DEF AsRead, StatusRead
  <2> QED BY <1>8, <2>1, RequestReads DEF StatusRead
<1>9. ASSUME NEW ids \in SUBSET Invoices, NEW s \in Statuses, BulkRead(w, ids, s)
      PROVE  SequentialInv'
  <2> DEFINE r == [pc |-> "status", todo |-> {i \in ids : s \in Allowed[status[i]]}, want |-> s]
  <2>1. AsRead(r)
    BY DEF AsRead
  <2>2. worker' = [worker EXCEPT ![w] = r] /\ UNCHANGED tables
    BY <1>9 DEF BulkRead
  <2> HIDE DEF r
  <2> QED BY <2>1, <2>2, RequestReads
<1>10. ASSUME NEW ids \in SUBSET Invoices, OverdueRead(w, ids) PROVE SequentialInv'
  <2>1. AsRead([pc |-> "overdue", todo |-> ids])
    BY <1>10 DEF AsRead, OverdueRead
  <2> QED BY <1>10, <2>1, RequestReads DEF OverdueRead
<1>11. ASSUME NEW ids \in SUBSET Invoices, RemindRead(w, ids) PROVE SequentialInv'
  <2>1. AsRead([pc |-> "remind", todo |-> ids])
    BY <1>11 DEF AsRead, RemindRead
  <2> QED BY <1>11, <2>1, RequestReads DEF RemindRead
<1>12. ASSUME StatusWrite(w) PROVE SequentialInv'
  <2>1. worker[w].pc = "status"
    BY <1>12 DEF StatusWrite
  <2>2. \A i \in worker[w].todo : worker[w].want \in Allowed[status[i]]
    BY <1>0, <2>1 DEF AsRead
  <2>3. \A s \in Statuses \cup {"none", "deleted"} :
          \A want \in Allowed[s] : ShowsUnpaid(want) => ShowsUnpaid(s)
    BY DEF Allowed, ShowsUnpaid, Statuses
  <2>4. \A j \in Invoices : ShowsUnpaid(status'[j]) => Paid(j) <= 0
    BY <1>0, <1>12, <2>2, <2>3, MoneyKept DEF StatusWrite
  <2> QED BY <1>12, <2>4, RequestEnds DEF StatusWrite
<1>13. ASSUME OverdueWrite(w) PROVE SequentialInv'
  <2>1. \A j \in Invoices : ShowsUnpaid(status'[j]) => Paid(j) <= 0
    BY <1>13, MoneyKept DEF OverdueWrite, ShowsUnpaid
  <2> QED BY <1>13, <2>1, RequestEnds DEF OverdueWrite
<1>14. ASSUME NEW i \in Invoices, RemindWrite(w, i) PROVE SequentialInv'
  <2> DEFINE rest == worker[w].todo \ {i}
             more == [pc |-> "remind", todo |-> rest]
             r == IF rest = {} THEN Idle ELSE more
  <2>1. worker[w].pc = "remind" /\ worker[w].todo \subseteq Invoices
    BY <1>14 DEF RemindWrite, SettlementInv, TypeOK, RequestType, InTx
  <2>2. \A j \in worker[w].todo : status[j] \in {"sent", "partial"}
    BY <1>0, <2>1 DEF AsRead
  <2>3. more \in RequestType /\ AsRead(more)
    BY <2>1, <2>2, PlainRequests DEF AsRead
  <2>4. \A j \in rest : status'[j] = status[j]
    BY <1>0, <1>14, <2>1 DEF RemindWrite
  <2>5. \A j \in Invoices : ShowsUnpaid(status'[j]) => Paid(j) <= 0
    <3>1. \A j \in Invoices : status'[j] \in {status[j], "overdue"}
      BY <1>0, <1>14 DEF RemindWrite
    <3> QED BY <3>1, MoneyKept DEF ShowsUnpaid
  <2>6. worker' = [worker EXCEPT ![w] = r] /\ UNCHANGED <<payment, refunded, used, applied>>
    BY <1>14 DEF RemindWrite
  <2>7. CASE rest = {}
    <3>1. r = Idle
      BY <2>7
    <3> HIDE DEF r
    <3> QED BY <2>5, <2>6, <3>1, RequestEnds
  <2>8. CASE rest # {}
    <3>1. r = more /\ more.pc = "remind" /\ more.todo = rest
      BY <2>8
    <3> HIDE DEF r, more, rest
    <3> QED BY <2>3, <2>4, <2>5, <2>6, <3>1, RemindsOn
  <2> QED BY <2>7, <2>8
<1> QED
  BY <1>1, <1>2, <1>3, <1>4, <1>5, <1>6, <1>7, <1>8, <1>9, <1>10, <1>11, <1>12, <1>13, <1>14
  DEF InvoiceRequest

--------------------------------------------------------------------------------
(* One request about credit notes *)

LEMMA NothingDeleted ==
    ASSUME SettlementInv, NEW tx, tx.delete = {}
    PROVE  SeenBy(tx) = Over(tx.insert, payment)
<1>1. Without(payment, tx.delete) = payment
  BY DEF Without, SettlementInv, TypeOK, Partial
<1> QED BY <1>1 DEF SeenBy

LEMMA NoteReads ==
    ASSUME OneRequest, SettlementInv, SequentialInv, NEW w \in Workers, NoteRequest(w)
    PROVE  SequentialInv'
<1> USE DEF Continue, Done
<1>0. /\ worker = [v \in Workers |-> worker[v]] /\ AsRead(worker[w])
      /\ RowsSigned(payment) /\ \A p \in DOMAIN payment : p \in Payments /\ p \in used
  BY DEF SequentialInv, Ledger, SettlementInv, TypeOK, Partial
<1>1. ASSUME NEW n \in Notes, NoteCreate(w, n) PROVE SequentialInv'
  <2>1. worker' = [worker EXCEPT ![w] = Idle]
    BY <1>0, <1>1 DEF NoteCreate
  <2>2. \A j \in Invoices : ShowsUnpaid(status'[j]) => Paid(j) <= 0
    BY <1>1, MoneyKept DEF NoteCreate
  <2> QED BY <1>1, <2>1, <2>2, RequestEnds DEF NoteCreate
<1>2. ASSUME NEW n \in Notes, ApplyRead(w, n) PROVE SequentialInv'
  <2> DEFINE r == [pc |-> "apply", note |-> n, invoice |-> Linked(n)]
  <2>1. AsRead(r)
    BY <1>2 DEF AsRead, ApplyRead
  <2>2. worker' = [worker EXCEPT ![w] = r] /\ UNCHANGED tables
    BY <1>2 DEF ApplyRead
  <2> HIDE DEF r
  <2> QED BY <2>1, <2>2, RequestReads
<1>3. ASSUME NEW ids \in SUBSET Notes, NEW s \in NoteStatuses, NoteStatusRead(w, ids, s)
      PROVE  SequentialInv'
  <2> DEFINE r == [pc |-> "noteStatus",
                   notes |-> {n \in ids : noteStatus[n] \notin Final \cup {s}}, want |-> s]
  <2>1. AsRead(r)
    BY DEF AsRead, Final
  <2>2. worker' = [worker EXCEPT ![w] = r] /\ UNCHANGED tables
    BY <1>3 DEF NoteStatusRead
  <2> HIDE DEF r
  <2> QED BY <2>1, <2>2, RequestReads
<1>4. ASSUME NoteStatusWrite(w) PROVE SequentialInv'
  <2>1. \A j \in Invoices : ShowsUnpaid(status'[j]) => Paid(j) <= 0
    BY <1>4, MoneyKept DEF NoteStatusWrite
  <2> QED BY <1>4, <2>1, RequestEnds DEF NoteStatusWrite
<1>5. ASSUME ApplyUnlinked(w) PROVE SequentialInv'
  <2>1. \A j \in Invoices : ShowsUnpaid(status'[j]) => Paid(j) <= 0
    BY <1>5, MoneyKept DEF ApplyUnlinked
  <2> QED BY <1>5, <2>1, RequestEnds DEF ApplyUnlinked
<1>6. ASSUME NEW n \in Notes, NEW i \in Invoices, ApplyToRead(w, n, i)
      PROVE  SequentialInv'
  <2> DEFINE r == [pc |-> "applyTo", note |-> n, invoice |-> i, seen |-> applied[n]]
  <2>1. AsRead(r)
    BY <1>6 DEF AsRead, ApplyToRead
  <2>2. worker' = [worker EXCEPT ![w] = r] /\ UNCHANGED tables
    BY <1>6 DEF ApplyToRead
  <2> HIDE DEF r
  <2> QED BY <2>1, <2>2, RequestReads
<1>7. ASSUME NEW p \in Fresh, Apply(w, p) PROVE SequentialInv'
  <2> DEFINE n == worker[w].note
             i == worker[w].invoice
             o == <<"whole of", n>>
             row == Payment(i, NoteTotal[n], o)
             rows == Only(p, row)
             s == IF Sum(Over(rows, payment), i) >= total[i] THEN "paid" ELSE "partial"
             r == Tx("receive", rows, {}, Nothing, Only(i, s), Nothing, Only(n, "applied"))
  <2>1. n \in Notes /\ i \in Invoices /\ noteStatus[n] = "open"
    BY <1>0, <1>7 DEF Apply, SettlementInv, TypeOK, RequestType, InTx, AsRead
  <2>2. NoteTotal[n] \in Nat /\ NoteTotal[n] \in Int
    BY <2>1, NoteAssumption
  <2>3. /\ row \in Row /\ row.invoice = i /\ row.amount = NoteTotal[n]
        /\ row.from = o /\ o[1] = "whole of"
    <3>1. row \in Row
      BY <2>1, <2>2, PaymentIsRow, PaymentOrigins
    <3> QED BY <3>1 DEF Payment
  <2>4. s \in Statuses /\ ~ShowsUnpaid(s)
          /\ (s = "paid" => Sum(Over(rows, payment), i) >= total[i])
    BY DEF Statuses, ShowsUnpaid
  <2>5. "applied" \in NoteStatuses
    BY DEF NoteStatuses
  <2>6. worker' = [worker EXCEPT ![w] = r] /\ UNCHANGED tables
    BY <1>7 DEF Apply
  <2> HIDE DEF n, i, o, row, s
  <2>7. Partial(rows, Payments, Row) /\ DOMAIN rows = {p} /\ rows[p] = row
    BY <2>3, OneRow
  <2>8. DOMAIN Only(i, s) = {i} /\ Only(i, s)[i] = s
    BY DEF Only
  <2>9. DOMAIN Only(n, "applied") = {n} /\ Only(n, "applied")[n] = "applied"
    BY DEF Only
  <2> HIDE DEF rows
  <2>10. IsTx(r)
    BY <2>1, <2>4, <2>5, <2>7, OnlyIsPartial, NothingIsPartial, TxIsTx
  <2>11. /\ r.pc = "tx" /\ r.insert = rows /\ r.delete = {} /\ r.refunded = Nothing
         /\ r.applied = Nothing /\ r.status = Only(i, s) /\ r.noteStatus = Only(n, "applied")
    BY TxFields
  <2> HIDE DEF r
  <2>12. row.from[1] = "whole of" /\ row.amount >= 0 /\ (NotesHaveWorth => row.amount # 0)
    <3>1. row.amount >= 0 /\ (NotesHaveWorth => row.amount # 0)
      <4>1. row.amount = NoteTotal[n]
        BY <2>3
      <4> QED BY <2>1, <2>2, <4>1 DEF NotesHaveWorth
    <3>2. row.from[1] = "whole of"
      BY <2>3
    <3> QED BY <3>1, <3>2
  <2>13. RowsSigned(r.insert)
    BY <2>7, <2>11, <2>12, FS_Singleton DEF RowsSigned, Signed
  <2>14. DOMAIN r.insert \cap used = {}
    BY <2>7, <2>11 DEF Fresh
  <2>15. \A q \in DOMAIN r.insert : r.insert[q].from[1] \notin {"refund", "part of"}
    BY <2>7, <2>11, <2>12
  <2>16. RowsCovered(SeenBy(r), Over(r.refunded, refunded), Over(r.applied, applied))
    BY <2>10, <2>11, <2>13, <2>14, <2>15, ReceiptHolds, NothingDrawn DEF RowsCovered
  <2>17. Touched(r) = {i}
    BY <2>3, <2>7, <2>11 DEF Touched
  <2>18. SeenBy(r) = Over(rows, payment)
    BY <2>11, NothingDeleted
  <2>19. /\ \A j \in Invoices \ Touched(r) : Sum(SeenBy(r), j) = Paid(j)
         /\ NotesHaveWorth => \A j \in Touched(r) : Sum(SeenBy(r), j) # Paid(j)
    BY <2>10, <2>11, <2>13, <2>14, <2>15, ReceiptHolds
  <2>20. Agrees(s, Sum(SeenBy(r), i), total[i])
    BY <2>4, <2>18 DEF Agrees
  <2>21. TxHolds(r)
    BY <2>1, <2>8, <2>9, <2>11, <2>13, <2>16, <2>17, <2>19, <2>20 DEF TxHolds
  <2>22. AsRead(r)
    BY <2>11, <2>21 DEF AsRead
  <2> QED BY <2>6, <2>22, RequestReads
<1>8. ASSUME NEW p \in Fresh, ApplyTo(w, p) PROVE SequentialInv'
  <2> DEFINE n == worker[w].note
             i == worker[w].invoice
             seen == worker[w].seen
             owed == total[i] - Paid(i)
  <2>1. /\ n \in Notes /\ i \in Invoices /\ seen \in Nat
        /\ seen = applied[n] /\ noteStatus[n] # "void"
    BY <1>0, <1>8 DEF ApplyTo, SettlementInv, TypeOK, RequestType, InTx, AsRead
  <2>2. NoteTotal[n] \in Nat
    BY <2>1, NoteAssumption
  <2>3. PICK a \in 1 .. NoteTotal[n] :
          /\ a = Drawn(NoteTotal[n] - seen, owed)
          /\ worker' = [worker EXCEPT ![w] = Tx("receive",
               Only(p, Payment(i, a, <<"part of", n>>)), {}, Nothing,
               Only(i, IF Paid(i) + a >= total[i] THEN "paid" ELSE "partial"),
               Only(n, NewApplied(seen, a)),
               IF NewApplied(seen, a) >= NoteTotal[n] THEN Only(n, "applied")
                                                      ELSE Nothing)]
    BY <1>8 DEF ApplyTo
  <2> DEFINE o == <<"part of", n>>
             row == Payment(i, a, o)
             rows == Only(p, row)
             s == IF Paid(i) + a >= total[i] THEN "paid" ELSE "partial"
             new == NewApplied(seen, a)
             drawn == Only(n, new)
             full == new >= NoteTotal[n]
             ns == IF full THEN Only(n, "applied") ELSE Nothing
             r == Tx("receive", rows, {}, Nothing, Only(i, s), drawn, ns)
  <2>4. a \in Int /\ a > 0 /\ new = applied[n] + a /\ new \in Nat
    BY <2>1, <2>2 DEF NewApplied
  <2>5. row \in Row /\ row.invoice = i /\ row.amount = a /\ row.from = o
    <3>1. row \in Row
      BY <2>1, <2>4, PaymentIsRow, PaymentOrigins
    <3> QED BY <3>1 DEF Payment
  <2>6. s \in Statuses /\ ~ShowsUnpaid(s) /\ (s = "paid" => Paid(i) + a >= total[i])
    BY DEF Statuses, ShowsUnpaid
  <2>7. full \in BOOLEAN
    BY <2>2, <2>4
  <2>8. worker' = [worker EXCEPT ![w] = r] /\ UNCHANGED tables
    BY <1>8, <2>3 DEF ApplyTo
  <2>9. o[1] = "part of" /\ \A m : o = <<"part of", m>> <=> m = n
    OBVIOUS
  <2> HIDE DEF n, i, seen, owed, row, s, new, full, o
  <2>10. Partial(rows, Payments, Row) /\ DOMAIN rows = {p} /\ rows[p] = row
    BY <2>5, OneRow
  <2>11. Partial(drawn, Notes, Nat) /\ DOMAIN drawn = {n} /\ drawn[n] = new
    <3>1. n \in Notes /\ new \in Nat
      BY <2>1, <2>4
    <3> QED BY <3>1, OnlyIsPartial
  <2>12. Partial(Only(i, s), Invoices, Statuses) /\ Partial(ns, Notes, NoteStatuses)
    BY <2>1, <2>6, <2>7, OneStatus, AppliedStatus
  <2>13. DOMAIN Only(i, s) = {i} /\ Only(i, s)[i] = s
    BY DEF Only
  <2>14. \A m \in DOMAIN ns : m = n /\ ns[m] = "applied"
    BY DEF Only, Nothing
  <2> HIDE DEF rows, drawn, ns
  <2>15. IsTx(r)
    BY <2>10, <2>11, <2>12, NothingIsPartial, TxIsTx
  <2>16. /\ r.pc = "tx" /\ r.insert = rows /\ r.delete = {} /\ r.refunded = Nothing
         /\ r.applied = drawn /\ r.status = Only(i, s) /\ r.noteStatus = ns
    BY TxFields
  <2> HIDE DEF r
  <2>17. row.from[1] = "part of" /\ row.amount >= 0 /\ row.amount # 0
    <3>1. row.amount = a /\ a \in Int /\ a > 0
      BY <2>4, <2>5
    <3>2. row.amount >= 0 /\ row.amount # 0
      BY <3>1
    <3>3. row.from[1] = "part of"
      BY <2>5, <2>9
    <3> QED BY <3>2, <3>3
  <2>18. RowsSigned(r.insert)
    BY <2>10, <2>16, <2>17, FS_Singleton DEF RowsSigned, Signed
  <2>19. DOMAIN r.insert \cap used = {} /\ p \notin DOMAIN payment
    BY <1>0, <2>10, <2>16 DEF Fresh
  <2>20. \A q \in DOMAIN r.insert : r.insert[q].from[1] # "refund"
    BY <2>10, <2>16, <2>17
  <2>21. /\ \A q \in DOMAIN SeenBy(r) :
              -Worth(SeenBy(r), OfOrigin(SeenBy(r), <<"refund", q>>))
                <= Over(r.refunded, refunded)[q]
         /\ \A j \in Invoices \ Touched(r) : Sum(SeenBy(r), j) = Paid(j)
         /\ NotesHaveWorth => \A j \in Touched(r) : Sum(SeenBy(r), j) # Paid(j)
    BY <2>15, <2>16, <2>18, <2>19, <2>20, ReceiptHolds
  <2>22. /\ \A j : /\ Worth(payment, OfInvoice(payment, j)) \in Int
                   /\ Worth(SeenBy(r), OfInvoice(SeenBy(r), j)) =
                        Worth(payment, OfInvoice(payment, j))
                          + (IF row.invoice = j THEN row.amount ELSE 0)
         /\ \A g : /\ Worth(payment, OfOrigin(payment, g)) \in Int
                   /\ Worth(SeenBy(r), OfOrigin(SeenBy(r), g)) =
                        Worth(payment, OfOrigin(payment, g))
                          + (IF row.from = g THEN row.amount ELSE 0)
    BY <1>0, <2>10, <2>15, <2>16, <2>18, <2>19, InsertOne
  <2>23. ASSUME NEW m \in Notes
         PROVE  Worth(SeenBy(r), OfOrigin(SeenBy(r), <<"part of", m>>))
                  <= Over(r.applied, applied)[m]
    <3> DEFINE g == <<"part of", m>>
               was == Worth(payment, OfOrigin(payment, g))
               now == Worth(SeenBy(r), OfOrigin(SeenBy(r), g))
    <3>1. row.from = g <=> m = n
      BY <2>5, <2>9
    <3>2. was <= applied[m] /\ applied[m] \in Nat
      BY DEF SequentialInv, Ledger, RowsCovered, SettlementInv, TypeOK
    <3>3. Over(r.applied, applied)[m] = IF m = n THEN new ELSE applied[m]
      BY <2>11, <2>16 DEF Over, SettlementInv, TypeOK
    <3> HIDE DEF g
    <3>4. was \in Int /\ now = was + (IF row.from = g THEN row.amount ELSE 0)
      BY <2>22
    <3> HIDE DEF was, now
    <3>5. now <= Over(r.applied, applied)[m]
      <4>1. CASE m = n
        <5>1. now = was + a
          BY <2>5, <3>1, <3>4, <4>1
        <5> QED BY <2>4, <3>2, <3>3, <3>4, <4>1, <5>1
      <4>2. CASE m # n
        <5>1. now = was + 0
          BY <3>1, <3>4, <4>2
        <5> QED BY <3>2, <3>3, <3>4, <4>2, <5>1
      <4> QED BY <4>1, <4>2
    <3> QED BY <3>5 DEF now, g
  <2>24. Touched(r) = {i}
    BY <2>5, <2>10, <2>16 DEF Touched
  <2>25. Sum(SeenBy(r), i) = Paid(i) + a
    <3>1. /\ Sum(SeenBy(r), i) = Worth(SeenBy(r), OfInvoice(SeenBy(r), i))
          /\ Paid(i) = Worth(payment, OfInvoice(payment, i))
      BY SumIsWorth
    <3> QED BY <2>5, <2>22, <3>1
  <2>26. Agrees(s, Sum(SeenBy(r), i), total[i])
    BY <2>6, <2>25 DEF Agrees
  <2>27. TxHolds(r)
    BY <2>1, <2>13, <2>14, <2>16, <2>18, <2>21, <2>23, <2>24, <2>26 DEF TxHolds, RowsCovered
  <2>28. AsRead(r)
    BY <2>16, <2>27 DEF AsRead
  <2> QED BY <2>8, <2>28, RequestReads
<1> QED
  BY <1>1, <1>2, <1>3, <1>4, <1>5, <1>6, <1>7, <1>8 DEF NoteRequest

--------------------------------------------------------------------------------
(* One request in its transaction *)

LEMMA RecalculatedAgrees ==
    ASSUME NEW rule \in {"receive", "refund", "delete"}, NEW paid \in Int, NEW i, total[i] \in Nat
    PROVE  Agrees(Recalculated(rule, paid, i), paid, total[i])
<1>1. CASE rule = "receive"
  <2>1. Recalculated(rule, paid, i) = AfterReceipt(paid, total[i], status[i])
    BY <1>1 DEF Recalculated
  <2> QED BY <2>1 DEF AfterReceipt, Agrees, ShowsUnpaid
<1>2. CASE rule = "refund"
  <2>1. Recalculated(rule, paid, i) = AfterRefund(paid, total[i], status[i])
    BY <1>2 DEF Recalculated
  <2> QED BY <2>1 DEF AfterRefund, Agrees, ShowsUnpaid
<1>3. CASE rule = "delete"
  <2>1. Recalculated(rule, paid, i) = AfterDelete(paid)
    BY <1>3 DEF Recalculated
  <2> QED BY <2>1 DEF AfterDelete, Agrees, ShowsUnpaid
<1> QED BY <1>1, <1>2, <1>3

LEMMA RecalculateReads ==
    ASSUME OneRequest, SettlementInv, SequentialInv, NEW w \in Workers,
           NEW i \in Invoices, Recalculate(w, i)
    PROVE  SequentialInv'
<1> DEFINE tx == worker[w]
           paid == Sum(SeenBy(tx), i)
           new == Recalculated(tx.rule, paid, i)
           column == Over(Only(i, new), tx.status)
           r == Tx(tx.rule, tx.insert, tx.delete, tx.refunded, column, tx.applied,
                   tx.noteStatus)
<1>1. InTx(w) /\ IsTx(tx) /\ i \in Touched(tx)
  BY RequestIsNoTx DEF Recalculate, Pending, SettlementInv, TypeOK, InTx
<1>2. TxHolds(tx)
  BY <1>1 DEF SequentialInv, AsRead, InTx
<1>3. worker' = [worker EXCEPT ![w] = r] /\ UNCHANGED tables
  BY DEF Recalculate, Continue
<1>4. paid \in Int
  <2>1. IntRows(SeenBy(tx))
    BY <1>1, <1>2, SeenAreInts DEF SequentialInv, Ledger, TxHolds
  <2>2. OfInvoice(SeenBy(tx), i) \in SUBSET DOMAIN SeenBy(tx)
    BY DEF OfInvoice
  <2> QED BY <2>1, <2>2, WorthIsInt, SumIsWorth
<1>5. tx.rule \in {"receive", "refund", "delete"} /\ total[i] \in Nat
  BY <1>1 DEF IsTx, SettlementInv, TypeOK
<1> HIDE DEF tx, paid
<1>6. Agrees(new, paid, total[i])
  BY <1>4, <1>5, RecalculatedAgrees
<1> HIDE DEF new
<1>7. /\ DOMAIN column = {i} \cup DOMAIN tx.status /\ column[i] = new
      /\ \A j \in DOMAIN tx.status \ {i} : column[j] = tx.status[j]
  BY DEF Over, Only
<1> HIDE DEF column
<1>8. /\ r.pc = "tx" /\ r.insert = tx.insert /\ r.delete = tx.delete
      /\ r.refunded = tx.refunded /\ r.status = column /\ r.applied = tx.applied
      /\ r.noteStatus = tx.noteStatus
  BY TxFields
<1> HIDE DEF r
<1>9. SeenBy(r) = SeenBy(tx) /\ Touched(r) = Touched(tx)
  BY <1>8 DEF SeenBy, Touched
<1>10. \A j \in DOMAIN r.status : Agrees(r.status[j], Sum(SeenBy(r), j), total[j])
  <2> SUFFICES ASSUME NEW j \in DOMAIN column
               PROVE  Agrees(column[j], Sum(SeenBy(tx), j), total[j])
    BY <1>8, <1>9
  <2>1. CASE j = i
    BY <1>6, <1>7, <2>1 DEF paid
  <2>2. CASE j # i
    BY <1>2, <1>7, <2>2 DEF TxHolds
  <2> QED BY <2>1, <2>2
<1>11. TxHolds(r)
  BY <1>1, <1>2, <1>7, <1>8, <1>9, <1>10 DEF TxHolds
<1>12. AsRead(r)
  BY <1>8, <1>11 DEF AsRead
<1> QED BY <1>3, <1>12, RequestReads

LEMMA CommitReads ==
    ASSUME OneRequest, SettlementInv, SequentialInv, NEW w \in Workers, Commit(w)
    PROVE  SequentialInv'
<1> DEFINE tx == worker[w]
<1>1. InTx(w) /\ IsTx(tx) /\ Touched(tx) \subseteq DOMAIN tx.status
  BY RequestIsNoTx DEF Commit, Pending, SettlementInv, TypeOK, InTx
<1>2. TxHolds(tx)
  BY <1>1 DEF SequentialInv, AsRead, InTx
<1>3. /\ payment' = SeenBy(tx) /\ used' = used \cup DOMAIN tx.insert
      /\ refunded' = Over(tx.refunded, refunded) /\ status' = Over(tx.status, status)
      /\ applied' = Over(tx.applied, applied) /\ worker' = [worker EXCEPT ![w] = Idle]
      /\ total' = total
  BY DEF Commit, Done
<1>4. \A v \in Workers : worker'[v] = Idle
  BY <1>3 DEF OneRequest, SettlementInv, TypeOK
<1>5. \A v \in Workers : AsRead(worker[v])'
  BY <1>4, IdleIsRequest DEF AsRead
<1>6. RowsSigned(payment)'
  <2>1. IsFiniteSet(DOMAIN SeenBy(tx))
    BY <1>1, <1>2, SeenAreInts DEF SequentialInv, Ledger, TxHolds, IntRows
  <2>2. \A row : Signed(row) => Signed(row)'
    BY <1>3 DEF Signed
  <2>3. \A p \in DOMAIN SeenBy(tx) : Signed(SeenBy(tx)[p])
    BY <1>2, SeenByIs DEF SequentialInv, Ledger, TxHolds, RowsSigned
  <2> QED BY <1>3, <2>1, <2>2, <2>3 DEF RowsSigned
<1>7. RowsCovered(payment, refunded, applied)'
  BY <1>2, <1>3 DEF TxHolds, RowsCovered
<1>8. UnpaidHasNoMoney'
  <2> SUFFICES ASSUME NEW i \in Invoices, ShowsUnpaid(status'[i]) PROVE Sum(payment', i) <= 0
    BY DEF UnpaidHasNoMoney, ShowsUnpaid, Paid
  <2>1. CASE i \in DOMAIN tx.status
    <3>1. status'[i] = tx.status[i]
      BY <1>3, <2>1 DEF Over
    <3> QED BY <1>2, <1>3, <2>1, <3>1 DEF TxHolds, Agrees
  <2>2. CASE i \notin DOMAIN tx.status
    <3>1. status'[i] = status[i]
      BY <1>3, <2>2 DEF Over, SettlementInv, TypeOK
    <3>2. Sum(payment', i) = Paid(i)
      BY <1>1, <1>2, <1>3, <2>2 DEF TxHolds
    <3> QED BY <3>1, <3>2 DEF SequentialInv, Ledger, UnpaidHasNoMoney, ShowsUnpaid
  <2> QED BY <2>1, <2>2
<1> QED BY <1>5, <1>6, <1>7, <1>8 DEF SequentialInv, Ledger

LEMMA NextReads ==
    ASSUME OneRequest, SettlementInv, SequentialInv, [Next]_vars
    PROVE  SequentialInv'
<1>1. ASSUME NEW v \in Workers, PaymentRequest(v) PROVE SequentialInv'
  BY <1>1, PaymentReads
<1>2. ASSUME NEW v \in Workers, InvoiceRequest(v) PROVE SequentialInv'
  BY <1>2, InvoiceReads
<1>3. ASSUME NEW v \in Workers, NoteRequest(v) PROVE SequentialInv'
  BY <1>3, NoteReads
<1>4. ASSUME NEW v \in Workers, NEW i \in Invoices, Recalculate(v, i) PROVE SequentialInv'
  BY <1>4, RecalculateReads
<1>5. ASSUME NEW v \in Workers, Commit(v) PROVE SequentialInv'
  BY <1>5, CommitReads
<1>6. ASSUME NEW v \in Workers, Abandon(v) PROVE SequentialInv'
  <2>1. AsRead(Idle)
    BY IdleIsRequest DEF AsRead
  <2> QED BY <1>6, <2>1, RequestReads DEF Abandon, Done
<1>7. ASSUME UNCHANGED vars PROVE SequentialInv'
  <2>1. CASE Workers = {}
    <3>1. Ledger'
      BY <1>7, BooksKept, MoneyKept DEF vars
    <3> QED BY <2>1, <3>1 DEF SequentialInv
  <2>2. ASSUME NEW w \in Workers PROVE SequentialInv'
    <3>1. worker' = [worker EXCEPT ![w] = worker[w]] /\ UNCHANGED tables
      BY <1>7 DEF vars, tables, SettlementInv, TypeOK
    <3>2. AsRead(worker[w])
      BY DEF SequentialInv
    <3> QED BY <3>1, <3>2, RequestReads
  <2> QED BY <2>1, <2>2
<1> QED BY <1>1, <1>2, <1>3, <1>4, <1>5, <1>6, <1>7 DEF Next, Transaction

LEMMA SequentialInit == Init => SequentialInv
<1> SUFFICES ASSUME Init PROVE SequentialInv
  OBVIOUS
<1>1. DOMAIN payment = {}
  BY DEF Init
<1>2. RowsSigned(payment) /\ IntRows(payment)
  BY <1>1, FS_EmptySet DEF RowsSigned, IntRows
<1>3. \A n \in Notes : Worth(payment, OfOrigin(payment, <<"part of", n>>)) <= applied[n]
  <2> SUFFICES ASSUME NEW n \in Notes
               PROVE  Worth(payment, OfOrigin(payment, <<"part of", n>>)) <= applied[n]
    OBVIOUS
  <2> DEFINE S == OfOrigin(payment, <<"part of", n>>)
  <2>1. S = {}
    BY <1>1 DEF OfOrigin
  <2>2. applied[n] = 0
    BY DEF Init
  <2> HIDE DEF S
  <2>3. Worth(payment, S) = 0
    BY <1>2, <2>1, WorthOfNone
  <2>4. Worth(payment, S) <= applied[n]
    BY <2>2, <2>3
  <2> QED BY <2>4 DEF S
<1>4. RowsCovered(payment, refunded, applied)
  BY <1>1, <1>3 DEF RowsCovered
<1>5. UnpaidHasNoMoney
  BY DEF Init, UnpaidHasNoMoney
<1>6. \A w \in Workers : AsRead(worker[w])
  BY IdleIsRequest DEF Init, AsRead
<1> QED BY <1>2, <1>4, <1>5, <1>6 DEF SequentialInv, Ledger

\* One request at a time, what a request has read still holds when it writes, and what its
\* transaction would commit agrees with the ledger.
THEOREM SequentialInvariant ==
    ASSUME OneRequest
    PROVE  Spec => []SequentialInv
<1>1. Init => SequentialInv
  BY SequentialInit
<1>2. SettlementInv /\ SequentialInv /\ [Next]_vars => SequentialInv'
  BY NextReads
<1> QED BY <1>1, <1>2, SettlementInvariant, PTL DEF Spec

\* refund() and delete(), one at a time: refundedAmount covers the refund rows of a payment,
\* though the row, the stamp and the deletion of either are different statements.
THEOREM NoRefundTwice ==
    ASSUME OneRequest
    PROVE  Spec => []RefundsStamped
<1>1. SequentialInv => RefundsStamped
  BY SumIsWorth DEF SequentialInv, Ledger, RowsCovered, RefundsStamped
<1> QED BY <1>1, SequentialInvariant, PTL

\* applyToInvoice(), one at a time: appliedTotal covers every payment made from the note.
THEOREM NoteNotSpentTwice ==
    ASSUME OneRequest
    PROVE  Spec => []NoteSpentOnce
<1>1. SequentialInv => NoteSpentOnce
  BY SumIsWorth DEF SequentialInv, Ledger, RowsCovered, NoteSpentOnce
<1> QED BY <1>1, SequentialInvariant, PTL

\* One at a time, the statuses that create(), refund(), delete(), send() and the status
\* changes write never show an invoice as unpaid that has net payments.
THEOREM UnpaidIsUnpaid ==
    ASSUME OneRequest
    PROVE  Spec => []UnpaidHasNoMoney
<1>1. SequentialInv => UnpaidHasNoMoney
  BY DEF SequentialInv, Ledger
<1> QED BY <1>1, SequentialInvariant, PTL

--------------------------------------------------------------------------------
(* Steps of one request *)

\* Only a commit changes the payments
LEMMA PaymentsChange ==
    ASSUME [Next]_vars
    PROVE  payment' = payment \/ \E w \in Workers : Commit(w)
<1> USE DEF tables
<1>1. ASSUME NEW w \in Workers, PaymentRequest(w) PROVE payment' = payment
  BY <1>1 DEF PaymentRequest, Create, CreateBatch, GatewayLookup, GatewayCreate, RefundRead,
              RefundWrite, Delete
<1>2. ASSUME NEW w \in Workers, InvoiceRequest(w) PROVE payment' = payment
  BY <1>2 DEF InvoiceRequest, InvoiceCreate, UpdateRead, InvoiceDeleteRead, MarkPaid, Update,
              AutoTax, InvoiceDelete, StatusRead, BulkRead, OverdueRead, RemindRead,
              StatusWrite, OverdueWrite, RemindWrite
<1>3. ASSUME NEW w \in Workers, NoteRequest(w) PROVE payment' = payment
  BY <1>3 DEF NoteRequest, NoteCreate, ApplyRead, NoteStatusRead, NoteStatusWrite,
              ApplyUnlinked, ApplyToRead, Apply, ApplyTo
<1>4. ASSUME NEW w \in Workers, Transaction(w)
      PROVE  payment' = payment \/ \E v \in Workers : Commit(v)
  BY <1>4 DEF Transaction, Recalculate, Abandon
<1> QED BY <1>1, <1>2, <1>3, <1>4 DEF Next, vars

\* A commit changes what was paid of the invoices it touches, and settles their statuses
LEMMA CommitSettles ==
    ASSUME SettlementInv, SequentialInv, NEW w \in Workers, Commit(w), NEW i \in Invoices
    PROVE  \/ /\ status'[i] = status[i] /\ Paid(i)' = Paid(i)
           \/ /\ Agrees(status'[i], Paid(i)', total[i])
              /\ NotesHaveWorth => Paid(i)' # Paid(i)
<1> DEFINE tx == worker[w]
<1>1. InTx(w) /\ IsTx(tx) /\ Touched(tx) \subseteq DOMAIN tx.status
  BY RequestIsNoTx DEF Commit, Pending, SettlementInv, TypeOK, InTx
<1>2. TxHolds(tx)
  BY <1>1 DEF SequentialInv, AsRead, InTx
<1>3. payment' = SeenBy(tx) /\ status' = Over(tx.status, status)
  BY DEF Commit
<1>4. Paid(i)' = Sum(SeenBy(tx), i)
  BY <1>3 DEF Paid
<1>5. CASE i \in DOMAIN tx.status
  <2>1. status'[i] = tx.status[i] /\ i \in Touched(tx)
    BY <1>2, <1>3, <1>5 DEF Over, TxHolds
  <2> QED BY <1>2, <1>4, <1>5, <2>1 DEF TxHolds
<1>6. CASE i \notin DOMAIN tx.status
  <2>1. status'[i] = status[i] /\ i \notin Touched(tx)
    BY <1>1, <1>3, <1>6 DEF Over, SettlementInv, TypeOK
  <2> QED BY <1>2, <1>4, <2>1 DEF TxHolds
<1> QED BY <1>5, <1>6

\* One at a time, recalculating a status or applying a credit note makes an invoice paid
\* only if its payments cover it.
THEOREM PaidByTheLedger ==
    ASSUME OneRequest
    PROVE  Spec => LedgerDecidesPaid
<1>1. ASSUME SettlementInv, SequentialInv, [Next]_vars, NEW i \in Invoices,
             Paid(i)' # Paid(i), Paid(i)' > 0, status'[i] = "paid"
      PROVE  Paid(i)' >= total[i]
  <2>1. payment' # payment
    BY <1>1 DEF Paid
  <2>2. PICK w \in Workers : Commit(w)
    BY <1>1, <2>1, PaymentsChange
  <2>3. Agrees(status'[i], Paid(i)', total[i])
    BY <1>1, <2>2, CommitSettles
  <2> QED BY <1>1, <2>3 DEF Agrees
<1>2. SettlementInv /\ SequentialInv /\ [Next]_vars =>
        [\A i \in Invoices :
           /\ Paid(i)' # Paid(i) /\ Paid(i)' > 0
           /\ status'[i] = "paid"
           => Paid(i)' >= total[i]]_vars
  BY <1>1
<1> QED BY <1>2, SequentialInvariant, SettlementInvariant, PTL DEF Spec, LedgerDecidesPaid

\* Only a commit ends a status that is settled
LEMMA StatusChanges ==
    ASSUME SettlementInv, SequentialInv, [Next]_vars, NEW i \in Invoices,
           status[i] \in {"paid", "cancelled"}, status'[i] \notin {status[i], "paid"}
    PROVE  \E w \in Workers : Commit(w)
<1> USE DEF tables
<1>0. /\ status \in [Invoices -> Statuses \cup {"none", "deleted"}]
      /\ \A w \in Workers : AsRead(worker[w])
  BY DEF SettlementInv, TypeOK, SequentialInv
<1>1. ASSUME NEW w \in Workers, PaymentRequest(w) PROVE FALSE
  BY <1>1 DEF PaymentRequest, Create, CreateBatch, GatewayLookup, GatewayCreate, RefundRead,
              RefundWrite, Delete
<1>2. ASSUME NEW w \in Workers, InvoiceRequest(w) PROVE FALSE
  <2>1. status' # status
    OBVIOUS
  <2>2. ASSUME NEW j \in Invoices, InvoiceCreate(w, j) PROVE FALSE
    BY <1>0, <2>2 DEF InvoiceCreate
  <2>3. ASSUME NEW j \in Invoices, MarkPaid(w, j) PROVE FALSE
    BY <1>0, <2>3 DEF MarkPaid
  <2>4. ASSUME InvoiceDelete(w) PROVE FALSE
    BY <1>0, <2>4 DEF InvoiceDelete, AsRead
  <2>5. ASSUME StatusWrite(w) PROVE FALSE
    <3>1. Allowed["paid"] = {} /\ Allowed["cancelled"] = {}
      BY DEF Allowed, Statuses
    <3>2. i \notin worker[w].todo
      BY <1>0, <2>5, <3>1 DEF StatusWrite, AsRead
    <3> QED BY <2>5, <3>2 DEF StatusWrite
  <2>6. ASSUME OverdueWrite(w) PROVE FALSE
    <3>1. i \notin worker[w].todo
      BY <1>0, <2>6 DEF OverdueWrite, AsRead, Settled
    <3> QED BY <2>6, <3>1 DEF OverdueWrite
  <2>7. ASSUME NEW j \in Invoices, RemindWrite(w, j) PROVE FALSE
    BY <1>0, <2>7 DEF RemindWrite, AsRead
  <2> QED BY <1>2, <2>1, <2>2, <2>3, <2>4, <2>5, <2>6, <2>7
          DEF InvoiceRequest, UpdateRead, InvoiceDeleteRead, Update, AutoTax, StatusRead,
              BulkRead, OverdueRead, RemindRead
<1>3. ASSUME NEW w \in Workers, NoteRequest(w) PROVE FALSE
  BY <1>3 DEF NoteRequest, NoteCreate, ApplyRead, NoteStatusRead, NoteStatusWrite,
              ApplyUnlinked, ApplyToRead, Apply, ApplyTo
<1>4. ASSUME NEW w \in Workers, Transaction(w) PROVE \E v \in Workers : Commit(v)
  BY <1>4 DEF Transaction, Recalculate, Abandon
<1> QED BY <1>1, <1>2, <1>3, <1>4 DEF Next, vars

\* One at a time, and with credit notes of some worth, nothing but a change of what was
\* paid ends paid or cancelled.  (Applying a note of nothing reopens a cancelled invoice.)
THEOREM SettledUntilMoneyMoves ==
    ASSUME OneRequest, NotesHaveWorth
    PROVE  Spec => SettledIsLeftByMoney
<1>1. ASSUME SettlementInv, SequentialInv, [Next]_vars, NEW i \in Invoices,
             status[i] \in {"paid", "cancelled"}, status'[i] \notin {status[i], "paid"}
      PROVE  Paid(i)' # Paid(i)
  <2>1. PICK w \in Workers : Commit(w)
    BY <1>1, StatusChanges
  <2> QED BY <1>1, <2>1, CommitSettles
<1>2. SettlementInv /\ SequentialInv /\ [Next]_vars =>
        [\A i \in Invoices :
           /\ status[i] \in {"paid", "cancelled"}
           /\ status'[i] \notin {status[i], "paid"}
           => Paid(i)' # Paid(i)]_vars
  BY <1>1
<1> QED BY <1>2, SequentialInvariant, SettlementInvariant, PTL DEF Spec, SettledIsLeftByMoney

\* No step takes a note out of void or applied
LEMMA NoteStays ==
    ASSUME SettlementInv, SequentialInv, [Next]_vars, NEW n \in Notes,
           noteStatus[n] \in {"void", "applied"}
    PROVE  noteStatus'[n] = noteStatus[n]
<1> USE DEF tables
<1>0. /\ noteStatus \in [Notes -> NoteStatuses \cup {"none"}]
      /\ \A w \in Workers : AsRead(worker[w])
  BY DEF SettlementInv, TypeOK, SequentialInv
<1>1. ASSUME NEW w \in Workers, PaymentRequest(w) PROVE noteStatus' = noteStatus
  BY <1>1 DEF PaymentRequest, Create, CreateBatch, GatewayLookup, GatewayCreate, RefundRead,
              RefundWrite, Delete
<1>2. ASSUME NEW w \in Workers, InvoiceRequest(w) PROVE noteStatus' = noteStatus
  BY <1>2 DEF InvoiceRequest, InvoiceCreate, UpdateRead, InvoiceDeleteRead, MarkPaid, Update,
              AutoTax, InvoiceDelete, StatusRead, BulkRead, OverdueRead, RemindRead,
              StatusWrite, OverdueWrite, RemindWrite
<1>3. ASSUME NEW w \in Workers, NoteRequest(w) PROVE noteStatus'[n] = noteStatus[n]
  <2>1. ASSUME NEW m \in Notes, NoteCreate(w, m) PROVE noteStatus'[n] = noteStatus[n]
    BY <1>0, <2>1 DEF NoteCreate
  <2>2. ASSUME NoteStatusWrite(w) PROVE noteStatus'[n] = noteStatus[n]
    <3>1. n \notin worker[w].notes
      BY <1>0, <2>2 DEF NoteStatusWrite, AsRead
    <3> QED BY <1>0, <2>2, <3>1 DEF NoteStatusWrite
  <2>3. ASSUME ApplyUnlinked(w) PROVE noteStatus'[n] = noteStatus[n]
    BY <1>0, <2>3 DEF ApplyUnlinked, AsRead
  <2> QED BY <1>3, <2>1, <2>2, <2>3
          DEF NoteRequest, ApplyRead, NoteStatusRead, ApplyToRead, Apply, ApplyTo
<1>4. ASSUME NEW w \in Workers, Commit(w) PROVE noteStatus'[n] = noteStatus[n]
  <2> DEFINE tx == worker[w]
  <2>1. TxHolds(tx) /\ noteStatus' = Over(tx.noteStatus, noteStatus)
    BY <1>0, <1>4 DEF Commit, InTx, AsRead
  <2>2. CASE n \in DOMAIN tx.noteStatus
    BY <2>1, <2>2 DEF Over, TxHolds
  <2>3. CASE n \notin DOMAIN tx.noteStatus
    BY <1>0, <2>1, <2>3 DEF Over
  <2> QED BY <2>2, <2>3
<1>5. ASSUME NEW w \in Workers, NEW i \in Invoices, Recalculate(w, i)
      PROVE  noteStatus' = noteStatus
  BY <1>5 DEF Recalculate
<1>6. ASSUME NEW w \in Workers, Abandon(w) PROVE noteStatus' = noteStatus
  BY <1>6 DEF Abandon
<1>7. ASSUME UNCHANGED vars PROVE noteStatus' = noteStatus
  BY <1>7 DEF vars
<1> QED BY <1>1, <1>2, <1>3, <1>4, <1>5, <1>6, <1>7 DEF Next, Transaction

\* One at a time, a credit note that is void or applied stays so, whatever void(),
\* bulkUpdateStatus(), apply() and applyToInvoice() do.
THEOREM NotesStayFinal ==
    ASSUME OneRequest
    PROVE  Spec => NoteIsFinal
<1>1. SettlementInv /\ SequentialInv /\ [Next]_vars =>
        [\A n \in Notes :
           noteStatus[n] \in {"void", "applied"} => noteStatus'[n] = noteStatus[n]]_vars
  BY NoteStays
<1> QED BY <1>1, SequentialInvariant, SettlementInvariant, PTL DEF Spec, NoteIsFinal

================================================================================
