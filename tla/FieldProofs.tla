------------------------------- MODULE FieldProofs -------------------------------
(***************************************************************************)
(* Proofs about Stock, Inbox, WorkOrders, Calls and Hierarchy as           *)
(* MCServices composes them, for any adjustments, messages, requests,      *)
(* calls and clients, and any bounds.                                      *)
(***************************************************************************)
EXTENDS OutreachProofs, BillingProofs, OffersProofs, SequenceTheorems

\* Whatever part a behaviour is of, the rows of a service move as its own steps move them
LEMMA StockMoves == [ServicesNext]_vars => [T!Next]_stockRows
BY DEF ServicesNext, vars, BookingSteps, StockSteps, InboxSteps, RecordsRest

LEMMA InboxMoves == [ServicesNext]_vars => [M!Next]_inboxRows
BY DEF ServicesNext, vars, BookingSteps, StockSteps, InboxSteps, RecordsRest

LEMMA OrderMoves == [ServicesNext]_vars => [W!Next]_orderRows
BY DEF ServicesNext, vars, CallSteps, OrderSteps, TreeSteps, FieldRests

LEMMA CallMoves == [ServicesNext]_vars => [L!Next]_callRows
BY DEF ServicesNext, vars, CallSteps, OrderSteps, TreeSteps, FieldRests

LEMMA TreeMoves == [ServicesNext]_vars => [H!Next]_treeRows
BY DEF ServicesNext, vars, CallSteps, OrderSteps, TreeSteps, FieldRests

--------------------------------------------------------------------------------
(* Stock *)

ProductType == [life : {"none", "there", "deleted"}, tracked : BOOLEAN, quantity : T!Quantities]
LineType    == [pc : {"line"}, why : T!Whys, lines : 1 .. 2]
PendingType == [pc : {"write"}, why : T!Whys, lines : 1 .. 2, delta : T!Quantities,
                balance : T!Quantities]
HandType    == {T!Empty} \cup LineType \cup PendingType

Pending(h) == hand[h].pc = "write"

\* A balance that was read and not written yet: of an existing product, and only a correction
\* may take it below zero
ReadOfProduct ==
    \A h \in Hands : Pending(h) =>
        /\ product.life # "none"
        /\ hand[h].balance >= 0 \/ hand[h].why = "correction"

\* As long as nothing came between a read and its write, one balance at most is read and
\* not written, and it is the product's with the movement
ReadIsCurrent ==
    conflicts = 0 =>
        /\ \A h, g \in Hands : Pending(h) /\ Pending(g) => h = g
        /\ \A h \in Hands : Pending(h) /\ product.life = "there" =>
             hand[h].balance = product.quantity + hand[h].delta

\* A product that is not there yet has no movements
NotMoved == product.life = "none" => moves.total = 0

StockInv == T!TypeOK /\ NotMoved /\ ReadOfProduct /\ ReadIsCurrent /\ T!BalanceExplained

LEMMA StockFields ==
    ASSUME T!TypeOK
    PROVE  /\ MaxQuantity \in Nat /\ MaxMoves \in Nat /\ MaxConflicts \in Nat
           /\ T!Quantities \subseteq Int /\ 0 \in T!Quantities
           /\ product \in ProductType /\ product.quantity \in Int
           /\ product.life \in {"none", "there", "deleted"}
           /\ moves \in [count : 0 .. MaxMoves, total : Int]
           /\ moves.count \in 0 .. MaxMoves /\ moves.total \in Int
           /\ hand \in [Hands -> HandType]
           /\ base \in Int /\ forced \in BOOLEAN /\ conflicts \in 0 .. MaxConflicts
           /\ conflicts \in Nat
<1>1. MaxQuantity \in Nat /\ MaxMoves \in Nat /\ MaxConflicts \in Nat
  BY ServicesBounds
<1>2. T!Quantities \subseteq Int /\ 0 \in T!Quantities
  BY <1>1 DEF T!Quantities
<1>3. product \in ProductType
  BY DEF T!TypeOK, ProductType
<1>4. product.quantity \in Int /\ product.life \in {"none", "there", "deleted"}
  BY <1>2, <1>3 DEF ProductType
<1>5. moves \in [count : 0 .. MaxMoves, total : Int]
  BY DEF T!TypeOK
<1>6. moves.count \in 0 .. MaxMoves /\ moves.total \in Int
  BY <1>5
<1>7. hand \in [Hands -> HandType]
  BY DEF T!TypeOK, HandType, LineType, PendingType
<1>8. base \in Int /\ forced \in BOOLEAN /\ conflicts \in 0 .. MaxConflicts
  BY DEF T!TypeOK
<1> QED BY <1>1, <1>2, <1>3, <1>4, <1>5, <1>6, <1>7, <1>8

\* What an adjustment holds, by its pc
LEMMA HandFields ==
    ASSUME T!TypeOK, NEW h \in Hands
    PROVE  /\ hand[h].pc \in {"idle", "line", "write"}
           /\ hand[h].pc = "line" => hand[h] \in LineType
           /\ hand[h].pc = "write" => hand[h] \in PendingType
           /\ hand[h] # T!Empty => hand[h].pc \in {"line", "write"}
<1>1. hand[h] \in HandType
  BY StockFields
<1> QED BY <1>1 DEF HandType, LineType, PendingType, T!Empty

LEMMA StockInit == T!Init => StockInv
<1> SUFFICES ASSUME T!Init PROVE StockInv
  OBVIOUS
<1>1. MaxQuantity \in Nat /\ MaxMoves \in Nat /\ MaxConflicts \in Nat
  BY ServicesBounds
<1>2. product \in ProductType
  BY <1>1 DEF T!Init, ProductType, T!Quantities
<1>3. moves \in [count : 0 .. MaxMoves, total : Int]
  BY <1>1 DEF T!Init
<1>4. /\ hand \in [Hands -> HandType] /\ base \in Int /\ forced \in BOOLEAN
      /\ conflicts \in 0 .. MaxConflicts
  <2>1. hand \in [Hands -> HandType]
    BY DEF T!Init, HandType
  <2>2. base = 0 /\ forced = FALSE /\ conflicts = 0
    BY DEF T!Init
  <2>3. base \in Int /\ conflicts \in 0 .. MaxConflicts
    BY <1>1, <2>2
  <2>4. forced \in BOOLEAN
    BY <2>2, Zenon
  <2> QED BY <2>1, <2>3, <2>4
<1>5. T!TypeOK
  BY <1>2, <1>3, <1>4 DEF T!TypeOK, ProductType, HandType, LineType, PendingType
<1>6. \A h \in Hands : ~Pending(h)
  BY DEF T!Init, Pending, T!Empty
<1>7. product.life = "none" /\ moves.total = 0
  BY DEF T!Init
<1> QED BY <1>5, <1>6, <1>7 DEF StockInv, NotMoved, ReadOfProduct, ReadIsCurrent, T!BalanceExplained

\* The balance is read or edited: it counts when somebody else's write is pending
LEMMA BesideOthers ==
    ASSUME T!TypeOK, NEW others \in SUBSET Hands, T!Beside(others)
    PROVE  /\ conflicts' \in 0 .. MaxConflicts
           /\ conflicts' = 0 => conflicts = 0 /\ \A g \in others : ~Pending(g)
BY StockFields DEF T!Beside, Pending

LEMMA ProductSteps ==
    ASSUME StockInv, T!Create \/ T!SetTracked \/ T!SetQuantity \/ T!Delete
    PROVE  StockInv'
<1>1. /\ MaxQuantity \in Nat /\ MaxMoves \in Nat /\ T!Quantities \subseteq Int
      /\ 0 \in T!Quantities /\ product \in ProductType /\ product.quantity \in Int
      /\ moves \in [count : 0 .. MaxMoves, total : Int] /\ moves.total \in Int
      /\ hand \in [Hands -> HandType] /\ base \in Int /\ forced \in BOOLEAN
      /\ conflicts \in 0 .. MaxConflicts /\ T!TypeOK
  BY StockFields DEF StockInv
<1>2. CASE T!Create
  <2>1. PICK q \in T!Quantities, t \in BOOLEAN :
          /\ product' = [life |-> "there", tracked |-> t, quantity |-> q]
          /\ base' = q /\ forced' = (q < 0)
    BY <1>2 DEF T!Create
  <2>2. product.life = "none" /\ UNCHANGED <<moves, hand, conflicts>>
    BY <1>2 DEF T!Create
  <2>3. T!TypeOK'
    <3>1. product' \in ProductType /\ base' \in Int /\ forced' \in BOOLEAN
      BY <1>1, <2>1 DEF ProductType
    <3> QED BY <1>1, <2>2, <3>1 DEF T!TypeOK, ProductType
  <2>4. \A h \in Hands : ~Pending(h)'
    BY <2>2 DEF StockInv, ReadOfProduct, Pending
  <2>5. moves'.total = 0 /\ product'.life = "there" /\ product'.quantity = q /\ base' = q
    BY <2>1, <2>2 DEF StockInv, NotMoved
  <2>6. T!BalanceExplained'
    <3>1. q \in Int /\ q = q + 0
      BY <1>1, <2>1
    <3>2. ~forced' => ~(q < 0)
      BY <2>1, Zenon
    <3> QED BY <2>5, <3>1, <3>2 DEF T!BalanceExplained
  <2> QED BY <2>3, <2>4, <2>5, <2>6 DEF StockInv, NotMoved, ReadOfProduct, ReadIsCurrent
<1>3. CASE T!SetTracked
  <2>1. /\ product' = [product EXCEPT !.tracked = ~product.tracked]
        /\ UNCHANGED <<moves, hand, base, forced, conflicts>>
    BY <1>3 DEF T!SetTracked
  <2>2. /\ product' \in ProductType /\ product'.life = product.life
        /\ product'.quantity = product.quantity
    BY <1>1, <2>1 DEF ProductType
  <2>3. T!TypeOK'
    BY <1>1, <2>1, <2>2 DEF T!TypeOK, ProductType
  <2> QED BY <2>1, <2>2, <2>3
       DEF StockInv, NotMoved, ReadOfProduct, ReadIsCurrent, Pending, T!BalanceExplained
<1>4. CASE T!SetQuantity
  <2>1. PICK q \in T!Quantities :
          /\ product' = [product EXCEPT !.quantity = q] /\ base' = q - moves.total
          /\ forced' = (forced \/ q < 0)
    BY <1>4 DEF T!SetQuantity
  <2>2. product.life = "there" /\ UNCHANGED <<moves, hand>> /\ T!Beside(Hands)
    BY <1>4 DEF T!SetQuantity
  <2>3. /\ conflicts' \in 0 .. MaxConflicts
        /\ conflicts' = 0 => conflicts = 0 /\ \A g \in Hands : ~Pending(g)
    BY <1>1, <2>2, BesideOthers
  <2>4. /\ product' \in ProductType /\ product'.life = "there" /\ product'.quantity = q
        /\ q \in Int /\ base' \in Int /\ forced' \in BOOLEAN /\ (q < 0 => forced')
    <3>1. product' \in ProductType /\ product'.life = "there" /\ product'.quantity = q
      BY <1>1, <2>1, <2>2 DEF ProductType
    <3>2. forced' \in BOOLEAN /\ (q < 0 => forced')
      BY <2>1
    <3> QED BY <1>1, <2>1, <3>1, <3>2
  <2>5. T!TypeOK'
    BY <1>1, <2>2, <2>3, <2>4 DEF T!TypeOK, ProductType
  <2>6. ReadOfProduct' /\ ReadIsCurrent'
    BY <2>2, <2>3, <2>4 DEF StockInv, ReadOfProduct, ReadIsCurrent, Pending
  <2>7. T!BalanceExplained'
    BY <1>1, <2>1, <2>2, <2>4 DEF T!BalanceExplained
  <2> QED BY <2>4, <2>5, <2>6, <2>7 DEF StockInv, NotMoved
<1>5. CASE T!Delete
  <2>1. /\ product' = [product EXCEPT !.life = "deleted"] /\ moves' = [count |-> 0, total |-> 0]
        /\ UNCHANGED <<hand, base, forced, conflicts>>
    BY <1>5 DEF T!Delete
  <2>2. product' \in ProductType /\ product'.life = "deleted"
    BY <1>1, <2>1 DEF ProductType
  <2>3. T!TypeOK'
    BY <1>1, <2>1, <2>2 DEF T!TypeOK, ProductType
  <2> QED BY <2>1, <2>2, <2>3
       DEF StockInv, NotMoved, ReadOfProduct, ReadIsCurrent, Pending, T!BalanceExplained
<1> QED BY <1>2, <1>3, <1>4, <1>5

\* An adjustment begins, or goes on with its next line, and nothing else changes
LEMMA HandMoves ==
    ASSUME StockInv, NEW h \in Hands, NEW call \in {T!Empty} \cup LineType, T!Goes(h, call),
           UNCHANGED <<product, moves, base, forced, conflicts>>
    PROVE  StockInv'
<1>1. T!TypeOK /\ hand \in [Hands -> HandType]
  BY StockFields DEF StockInv
<1>2. /\ hand' \in [Hands -> HandType]
      /\ \A g \in Hands : hand'[g] = IF g = h THEN call ELSE hand[g]
  BY <1>1 DEF T!Goes, HandType
<1>3. call.pc # "write"
  BY DEF T!Empty, LineType
<1>4. T!TypeOK'
  BY <1>1, <1>2 DEF T!TypeOK, HandType, LineType, PendingType
<1>5. \A g \in Hands : Pending(g)' => g # h /\ Pending(g) /\ hand'[g] = hand[g]
  BY <1>2, <1>3 DEF Pending
<1>6. T!BalanceExplained' /\ NotMoved'
  BY DEF StockInv, T!BalanceExplained, NotMoved
<1>7. ReadOfProduct' /\ ReadIsCurrent'
  BY <1>5 DEF StockInv, ReadOfProduct, ReadIsCurrent
<1> QED BY <1>4, <1>6, <1>7 DEF StockInv

LEMMA LineEnds ==
    ASSUME T!TypeOK, NEW h \in Hands, hand[h] # T!Empty
    PROVE  \E call \in {T!Empty} \cup LineType : T!NextLine(h) <=> T!Goes(h, call)
<1>1. hand[h].why \in T!Whys /\ hand[h].lines \in 1 .. 2
  BY HandFields DEF LineType, PendingType
<1>2. CASE hand[h].lines = 1
  BY <1>2 DEF T!NextLine
<1>3. CASE hand[h].lines = 2
  BY <1>1, <1>3 DEF T!NextLine, LineType
<1> QED BY <1>1, <1>2, <1>3

LEMMA HandBegins ==
    ASSUME StockInv, NEW h \in Hands, T!AdjustStock(h) \/ T!OnInvoiceSent(h) \/ T!Skip(h)
    PROVE  StockInv'
<1>1. CASE T!AdjustStock(h) \/ T!OnInvoiceSent(h)
  <2>1. PICK call \in LineType : T!Goes(h, call)
    BY <1>1 DEF T!AdjustStock, T!OnInvoiceSent, LineType, T!Whys
  <2> QED BY <1>1, <2>1, HandMoves DEF T!AdjustStock, T!OnInvoiceSent
<1>2. CASE T!Skip(h)
  <2>1. PICK call \in {T!Empty} \cup LineType : T!Goes(h, call)
    BY <1>2, LineEnds DEF T!Skip, StockInv
  <2> QED BY <1>2, <2>1, HandMoves DEF T!Skip
<1> QED BY <1>1, <1>2

LEMMA BalanceRead ==
    ASSUME StockInv, NEW h \in Hands, T!Read(h)
    PROVE  StockInv'
<1>1. /\ T!TypeOK /\ MaxQuantity \in Nat /\ T!Quantities \subseteq Int
      /\ hand \in [Hands -> HandType] /\ product.quantity \in Int /\ hand[h].pc = "line"
      /\ product.life = "there" /\ UNCHANGED <<product, moves, base, forced>>
      /\ T!Beside(Hands \ {h})
  BY StockFields DEF StockInv, T!Read
<1>2. hand[h].why \in T!Whys /\ hand[h].lines \in 1 .. 2
  BY <1>1, HandFields DEF LineType
<1>3. PICK d \in T!Deltas(hand[h].why) :
        /\ product.quantity + d \in T!Quantities
        /\ T!Allowed(product.quantity + d, hand[h].why)
        /\ T!Goes(h, [pc |-> "write", why |-> hand[h].why, lines |-> hand[h].lines,
                      delta |-> d, balance |-> product.quantity + d])
  BY DEF T!Read
<1> DEFINE held == [pc |-> "write", why |-> hand[h].why, lines |-> hand[h].lines,
                    delta |-> d, balance |-> product.quantity + d]
<1>4. d \in T!Quantities
  BY DEF T!Deltas
<1>5. /\ held \in PendingType /\ held.pc = "write" /\ held.delta = d
      /\ held.balance = product.quantity + d
      /\ held.balance >= 0 \/ held.why = "correction"
  BY <1>2, <1>3, <1>4 DEF PendingType, T!Allowed
<1>6. /\ hand' \in [Hands -> HandType]
      /\ \A g \in Hands : hand'[g] = IF g = h THEN held ELSE hand[g]
  <2> HIDE DEF held
  <2>1. hand' = [hand EXCEPT ![h] = held]
    BY <1>3 DEF T!Goes, held
  <2> QED BY <1>1, <1>5, <2>1 DEF HandType
<1>7. /\ conflicts' \in 0 .. MaxConflicts
      /\ conflicts' = 0 => conflicts = 0 /\ \A g \in Hands \ {h} : ~Pending(g)
  BY <1>1, BesideOthers
<1> HIDE DEF held
<1>8. T!TypeOK'
  BY <1>1, <1>6, <1>7 DEF T!TypeOK, HandType, LineType, PendingType
<1>9. ReadOfProduct'
  BY <1>1, <1>5, <1>6 DEF StockInv, ReadOfProduct, Pending
<1>10. ReadIsCurrent'
  <2>1. \A g \in Hands \ {h} : Pending(g)' => Pending(g)
    BY <1>6 DEF Pending
  <2>2. hand'[h].balance = product.quantity + hand'[h].delta
    BY <1>5, <1>6
  <2> QED BY <1>1, <1>7, <2>1, <2>2 DEF ReadIsCurrent
<1>11. T!BalanceExplained' /\ NotMoved'
  BY <1>1, <1>7 DEF StockInv, T!BalanceExplained, NotMoved
<1> QED BY <1>8, <1>9, <1>10, <1>11 DEF StockInv

LEMMA BalanceWritten ==
    ASSUME StockInv, NEW h \in Hands, T!Write(h)
    PROVE  StockInv'
<1>1. /\ T!TypeOK /\ hand \in [Hands -> HandType] /\ product.quantity \in Int
      /\ product \in ProductType /\ MaxMoves \in Nat /\ moves.count \in 0 .. MaxMoves
      /\ moves.total \in Int /\ forced \in BOOLEAN /\ base \in Int
      /\ T!Quantities \subseteq Int
  BY StockFields DEF StockInv
<1>2. /\ Pending(h) /\ product.life = "there" /\ moves.count < MaxMoves
      /\ product' = [product EXCEPT !.quantity = hand[h].balance]
      /\ moves' = [count |-> moves.count + 1, total |-> moves.total + hand[h].delta]
      /\ forced' = (forced \/ hand[h].why = "correction")
      /\ T!NextLine(h) /\ UNCHANGED <<base, conflicts>>
  BY DEF T!Write, T!BalanceAfter, Pending
<1>3. hand[h] \in PendingType /\ hand[h] # T!Empty
  BY <1>1, <1>2, HandFields DEF Pending, T!Empty
<1>4. hand[h].balance \in T!Quantities /\ hand[h].delta \in Int /\ hand[h].balance \in Int
  BY <1>1, <1>3 DEF PendingType
<1>5. /\ product' \in ProductType /\ product'.life = "there"
      /\ product'.quantity = hand[h].balance
  BY <1>1, <1>2, <1>4 DEF ProductType
<1>6. /\ moves' \in [count : 0 .. MaxMoves, total : Int]
      /\ moves'.total = moves.total + hand[h].delta
  <2>1. moves.count + 1 \in 0 .. MaxMoves /\ moves.total + hand[h].delta \in Int
    BY <1>1, <1>2, <1>4
  <2> QED BY <1>2, <2>1
<1>7. PICK call \in {T!Empty} \cup LineType : T!Goes(h, call)
  BY <1>1, <1>2, <1>3, LineEnds
<1>8. call.pc # "write"
  BY DEF T!Empty, LineType
<1>9. /\ hand' \in [Hands -> HandType]
      /\ \A g \in Hands : hand'[g] = IF g = h THEN call ELSE hand[g]
  BY <1>1, <1>7 DEF T!Goes, HandType
<1>10. \A g \in Hands : Pending(g)' => g # h /\ Pending(g) /\ hand'[g] = hand[g]
  BY <1>8, <1>9 DEF Pending
<1>11. T!TypeOK'
  <2>1. forced' \in BOOLEAN
    BY <1>2
  <2> QED BY <1>1, <1>2, <1>5, <1>6, <1>9, <2>1
       DEF T!TypeOK, ProductType, HandType, LineType, PendingType
<1>12. ReadOfProduct'
  BY <1>5, <1>10 DEF StockInv, ReadOfProduct
<1>13. ReadIsCurrent'
  BY <1>2, <1>10 DEF StockInv, ReadIsCurrent
<1>14. T!BalanceExplained'
  <2>1. ASSUME conflicts = 0 PROVE product'.quantity = base + moves'.total
    <3>1. /\ hand[h].balance = product.quantity + hand[h].delta
          /\ product.quantity = base + moves.total
      BY <1>2, <2>1 DEF StockInv, ReadIsCurrent, T!BalanceExplained
    <3> QED BY <1>1, <1>4, <1>5, <1>6, <3>1
  <2>2. ~forced' => product'.quantity >= 0
    BY <1>2, <1>5 DEF StockInv, ReadOfProduct
  <2> QED BY <1>2, <2>1, <2>2 DEF T!BalanceExplained
<1> QED BY <1>5, <1>11, <1>12, <1>13, <1>14 DEF StockInv, NotMoved

LEMMA StockInvariant == ServicesSpec => []StockInv
<1>1. ServicesInit => StockInv
  BY StockInit DEF ServicesInit
<1>2. StockInv /\ UNCHANGED stockRows => StockInv'
  BY DEF StockInv, stockRows, T!TypeOK, NotMoved, ReadOfProduct, ReadIsCurrent, Pending,
     T!BalanceExplained
<1>3. StockInv /\ T!Next => StockInv'
  BY ProductSteps, HandBegins, BalanceRead, BalanceWritten DEF T!Next
<1>4. StockInv /\ [ServicesNext]_vars => StockInv'
  BY <1>2, <1>3, StockMoves
<1> QED BY <1>1, <1>4, PTL DEF ServicesSpec

\* As long as no two adjustments read the same balance it is what people entered plus the sum
\* of the movements, and whatever overlaps, it is below zero only where somebody forced it.
THEOREM StockBalanceExplained == ServicesSpec => []BalanceExplained
<1>1. StockInv => BalanceExplained
  BY DEF StockInv, BalanceExplained
<1> QED BY <1>1, StockInvariant, PTL
--------------------------------------------------------------------------------
(* Inbox *)

ConnectType == [pc : {"connect"}, job : BOOLEAN, from : 0 .. MaxUids]
ReadType    == [pc : {"read", "announce"}, job : BOOLEAN, from : 0 .. MaxUids,
                reached : 0 .. MaxUids, uid : 1 .. MaxUids + 1, last : 1 .. MaxUids]
PollJobType == [id : {"none", "waiting", "active", "kept"}, attempts : 0 .. Attempts]

\* The message at this UID is where it belongs, or has a reason not to be
Taken(k) == mailbox[k] \in inbox \/ k \in unread \/ k <= before

MarkTaken == mark <= Len(mailbox) /\ \A k \in 1 .. mark : Taken(k)

\* What a poll has reached, and what it has passed
PollTaken(w) ==
    /\ poll[w].pc = "connect" =>
         poll[w].from <= Len(mailbox) /\ \A k \in 1 .. poll[w].from : Taken(k)
    /\ poll[w].pc \in {"read", "announce"} =>
         /\ poll[w].last <= Len(mailbox) /\ poll[w].uid <= poll[w].last + 1
         /\ poll[w].reached <= Len(mailbox)
         /\ \A k \in 1 .. poll[w].reached : Taken(k)
         /\ \A k \in 1 .. poll[w].uid - 1 : Taken(k)

Announcing(w) == poll[w].pc = "announce"
Message(w)    == mailbox[poll[w].uid]

\* A stored message is announced by the poll that stored it, and by no other
OneAnnouncer ==
    /\ \A m \in Mails : announced[m] <= 1 /\ (m \notin inbox => announced[m] = 0)
    /\ \A w \in Pollers : Announcing(w) =>
         poll[w].uid <= poll[w].last /\ Message(w) \in inbox /\ announced[Message(w)] = 0
    /\ \A w, v \in Pollers : Announcing(w) /\ Announcing(v) /\ Message(w) = Message(v) => w = v

\* A job that waits has an attempt left
JobInTurn == pollJob.id = "waiting" => pollJob.attempts < Attempts

InboxInv ==
    M!TypeOK /\ MarkTaken /\ (\A w \in Pollers : PollTaken(w)) /\ OneAnnouncer /\ JobInTurn

LEMMA InboxFields ==
    ASSUME M!TypeOK
    PROVE  /\ MaxUids \in Nat /\ MaxBreaks \in Nat /\ Attempts \in Nat /\ Attempts > 0
           /\ Cap \in Nat /\ Cap > 0 /\ Catchup \in Nat
           /\ enabled \in BOOLEAN /\ mark \in 0 .. MaxUids /\ mark \in Nat
           /\ mailbox \in Seq(Mails) /\ Len(mailbox) \in Nat /\ Len(mailbox) <= MaxUids
           /\ \A k \in 1 .. Len(mailbox) : mailbox[k] \in Mails
           /\ inbox \subseteq Mails /\ announced \in [Mails -> Nat]
           /\ poll \in [Pollers -> M!PollType] /\ pollJob \in PollJobType
           /\ unread \subseteq 1 .. MaxUids /\ before \in 0 .. MaxUids
           /\ breaks \in 0 .. MaxBreaks
<1>1. /\ MaxUids \in Nat /\ MaxBreaks \in Nat /\ Attempts \in Nat /\ Attempts > 0
      /\ Cap \in Nat /\ Cap > 0 /\ Catchup \in Nat
  BY ServicesBounds
<1>2. /\ mailbox \in Seq(Mails) /\ Len(mailbox) <= MaxUids /\ inbox \subseteq Mails
      /\ announced \in [Mails -> Nat] /\ poll \in [Pollers -> M!PollType]
      /\ enabled \in BOOLEAN /\ mark \in 0 .. MaxUids
  BY DEF M!TypeOK
<1>3. /\ pollJob \in PollJobType /\ unread \subseteq 1 .. MaxUids /\ before \in 0 .. MaxUids
      /\ breaks \in 0 .. MaxBreaks
  BY DEF M!TypeOK, PollJobType
<1>4. Len(mailbox) \in Nat /\ \A k \in 1 .. Len(mailbox) : mailbox[k] \in Mails
  BY <1>2
<1>5. mark \in Nat
  BY <1>1, <1>2
<1> QED BY <1>1, <1>2, <1>3, <1>4, <1>5

LEMMA PollFields ==
    ASSUME M!TypeOK, NEW w \in Pollers
    PROVE  /\ poll[w].pc \in {"idle", "connect", "read", "announce"}
           /\ poll[w].pc = "connect" => poll[w] \in ConnectType
           /\ poll[w].pc \in {"read", "announce"} =>
                /\ poll[w] \in ReadType /\ poll[w].job \in BOOLEAN
                /\ poll[w].uid \in Nat /\ poll[w].uid > 0 /\ poll[w].uid <= MaxUids + 1
                /\ poll[w].reached \in Nat /\ poll[w].reached <= MaxUids
                /\ poll[w].last \in Nat /\ poll[w].last > 0 /\ poll[w].last <= MaxUids
           /\ poll[w].pc = "idle" => poll[w] = M!Quiet
<1>1. poll[w] \in {M!Quiet} \cup ConnectType \cup ReadType
  BY InboxFields DEF M!PollType, ConnectType, ReadType
<1>2. MaxUids \in Nat
  BY InboxFields
<1>3. CASE poll[w] = M!Quiet
  BY <1>3 DEF M!Quiet
<1>4. CASE poll[w] \in ConnectType
  BY <1>4 DEF ConnectType
<1>5. CASE poll[w] \in ReadType
  BY <1>2, <1>5 DEF ReadType
<1> QED BY <1>1, <1>3, <1>4, <1>5

\* A message that is where it belongs stays there
Grows ==
    /\ Len(mailbox') \in Nat /\ Len(mailbox) <= Len(mailbox')
    /\ \A k \in 1 .. Len(mailbox) : mailbox'[k] = mailbox[k]
    /\ inbox \subseteq inbox' /\ unread \subseteq unread'
    /\ before' \in Nat /\ before <= before'

LEMMA TakenStays ==
    ASSUME M!TypeOK, Grows, NEW k \in 1 .. Len(mailbox), Taken(k)
    PROVE  Taken(k)'
<1>1. before \in Nat /\ k \in Int
  BY InboxFields
<1> QED BY <1>1 DEF Grows, Taken

LEMMA MarkStays ==
    ASSUME M!TypeOK, Grows, MarkTaken, UNCHANGED mark
    PROVE  MarkTaken'
<1>1. mark \in Nat /\ Len(mailbox) \in Nat /\ mark <= Len(mailbox)
  BY InboxFields DEF MarkTaken
<1>2. \A k \in 1 .. mark : Taken(k)'
  BY <1>1, TakenStays DEF MarkTaken
<1>3. mark' <= Len(mailbox')
  BY <1>1 DEF Grows
<1> QED BY <1>2, <1>3 DEF MarkTaken

LEMMA PollStays ==
    ASSUME M!TypeOK, Grows, NEW w \in Pollers, PollTaken(w), poll'[w] = poll[w]
    PROVE  PollTaken(w)'
<1>1. Len(mailbox) \in Nat /\ Len(mailbox') \in Nat /\ Len(mailbox) <= Len(mailbox')
  BY InboxFields DEF Grows
<1>2. CASE poll[w].pc = "connect"
  <2>1. poll[w].from \in Nat /\ poll[w].from <= Len(mailbox)
    BY <1>2, PollFields, InboxFields DEF PollTaken, ConnectType
  <2>2. \A k \in 1 .. poll[w].from : Taken(k)'
    BY <1>1, <1>2, <2>1, TakenStays DEF PollTaken
  <2> QED BY <1>1, <1>2, <2>1, <2>2 DEF PollTaken
<1>3. CASE poll[w].pc \in {"read", "announce"}
  <2>1. /\ poll[w].last \in Nat /\ poll[w].last <= Len(mailbox) /\ poll[w].uid \in Nat
        /\ poll[w].uid <= poll[w].last + 1 /\ poll[w].reached \in Nat
        /\ poll[w].reached <= Len(mailbox)
    BY <1>3, PollFields DEF PollTaken
  <2>2. \A k \in 1 .. poll[w].reached : Taken(k)'
    BY <1>1, <1>3, <2>1, TakenStays DEF PollTaken
  <2>3. \A k \in 1 .. poll[w].uid - 1 : Taken(k)'
    BY <1>1, <1>3, <2>1, TakenStays DEF PollTaken
  <2>4. poll[w].last <= Len(mailbox') /\ poll[w].reached <= Len(mailbox')
    BY <1>1, <2>1
  <2> QED BY <1>3, <2>1, <2>2, <2>3, <2>4 DEF PollTaken
<1> QED BY <1>2, <1>3 DEF PollTaken

LEMMA InboxInit == M!Init => InboxInv
<1> SUFFICES ASSUME M!Init PROVE InboxInv
  OBVIOUS
<1>1. MaxUids \in Nat /\ MaxBreaks \in Nat /\ Attempts \in Nat /\ Attempts > 0
  BY ServicesBounds
<1>2. /\ enabled = FALSE /\ mark = 0 /\ mailbox = <<>> /\ inbox = {}
      /\ announced = [m \in Mails |-> 0] /\ poll = [w \in Pollers |-> M!Quiet]
      /\ pollJob = M!NoJob /\ unread = {} /\ before = 0 /\ breaks = 0
  BY DEF M!Init
<1>3. mailbox \in Seq(Mails) /\ Len(mailbox) = 0
  BY <1>2
<1>4. M!TypeOK
  <2>1. poll \in [Pollers -> M!PollType]
    BY <1>2 DEF M!PollType
  <2>2. pollJob \in PollJobType
    BY <1>1, <1>2 DEF M!NoJob, PollJobType
  <2>3. /\ mark \in 0 .. MaxUids /\ before \in 0 .. MaxUids /\ breaks \in 0 .. MaxBreaks
        /\ Len(mailbox) <= MaxUids
    BY <1>1, <1>2, <1>3
  <2>4. enabled \in BOOLEAN /\ inbox \subseteq Mails /\ announced \in [Mails -> Nat]
    BY <1>2
  <2> QED BY <1>2, <1>3, <2>1, <2>2, <2>3, <2>4 DEF M!TypeOK, PollJobType
<1>5. MarkTaken
  BY <1>2, <1>3 DEF MarkTaken
<1>6. \A w \in Pollers : PollTaken(w) /\ ~Announcing(w)
  BY <1>2 DEF PollTaken, Announcing, M!Quiet
<1>7. OneAnnouncer
  BY <1>2, <1>6 DEF OneAnnouncer
<1>8. JobInTurn
  BY <1>2 DEF JobInTurn, M!NoJob
<1> QED BY <1>4, <1>5, <1>6, <1>7, <1>8 DEF InboxInv

LEMMA AnnouncingAt ==
    ASSUME InboxInv, NEW w \in Pollers, poll[w].pc \in {"read", "announce"},
           poll[w].uid <= poll[w].last
    PROVE  poll[w].uid \in 1 .. Len(mailbox) /\ Message(w) \in Mails
<1>1. /\ poll[w].uid \in Nat /\ poll[w].uid > 0 /\ poll[w].last \in Nat
      /\ Len(mailbox) \in Nat /\ \A k \in 1 .. Len(mailbox) : mailbox[k] \in Mails
  BY PollFields, InboxFields DEF InboxInv
<1>2. poll[w].last <= Len(mailbox)
  BY DEF InboxInv, PollTaken
<1>3. poll[w].uid \in 1 .. Len(mailbox)
  BY <1>1, <1>2
<1> QED BY <1>1, <1>3 DEF Message

\* No poll moves
LEMMA PollsRest ==
    ASSUME InboxInv, (\E m \in Mails : M!MailArrives(m)) \/ M!SetEnabled \/ M!Cron \/ M!Evict
    PROVE  InboxInv'
<1>1. M!TypeOK /\ UNCHANGED <<mark, inbox, announced, poll, unread, before>>
  BY DEF InboxInv, M!MailArrives, M!SetEnabled, M!Cron, M!Evict
<1>2. /\ mailbox' \in Seq(Mails) /\ Len(mailbox') <= MaxUids /\ Len(mailbox) <= Len(mailbox')
      /\ Len(mailbox') \in Nat /\ \A k \in 1 .. Len(mailbox) : mailbox'[k] = mailbox[k]
  <2>1. CASE \E m \in Mails : M!MailArrives(m)
    <3>1. PICK m \in Mails : M!MailArrives(m)
      BY <2>1
    <3>2. mailbox' = Append(mailbox, m) /\ Len(mailbox) < MaxUids
      BY <3>1 DEF M!MailArrives
    <3>3. mailbox \in Seq(Mails) /\ Len(mailbox) \in Nat /\ MaxUids \in Nat
      BY <1>1, InboxFields
    <3> QED BY <3>2, <3>3, AppendProperties
  <2>2. CASE M!SetEnabled \/ M!Cron \/ M!Evict
    BY <1>1, <2>2, InboxFields DEF M!SetEnabled, M!Cron, M!Evict
  <2> QED BY <2>1, <2>2
<1>3. Grows
  BY <1>1, <1>2, InboxFields DEF Grows
<1>4. /\ pollJob' \in PollJobType /\ JobInTurn' /\ enabled' \in BOOLEAN
      /\ breaks' \in 0 .. MaxBreaks
  <2>1. /\ pollJob \in PollJobType /\ Attempts \in Nat /\ Attempts > 0 /\ enabled \in BOOLEAN
        /\ breaks \in 0 .. MaxBreaks /\ MaxBreaks \in Nat /\ JobInTurn
    BY <1>1, InboxFields DEF InboxInv
  <2>2. CASE \E m \in Mails : M!MailArrives(m)
    BY <2>1, <2>2 DEF M!MailArrives, JobInTurn
  <2>3. CASE M!SetEnabled
    BY <2>1, <2>3 DEF M!SetEnabled, JobInTurn
  <2>4. CASE M!Cron \/ M!Evict
    BY <2>1, <2>4 DEF M!Cron, M!Evict, M!NoJob, JobInTurn, PollJobType
  <2> QED BY <2>2, <2>3, <2>4
<1>5. M!TypeOK'
  BY <1>1, <1>2, <1>4 DEF M!TypeOK, PollJobType
<1>6. MarkTaken' /\ \A w \in Pollers : PollTaken(w)'
  BY <1>1, <1>3, MarkStays, PollStays DEF InboxInv
<1>7. OneAnnouncer'
  <2>1. \A w \in Pollers : Announcing(w) => Message(w)' = Message(w)
    <3>1. SUFFICES ASSUME NEW w \in Pollers, Announcing(w) PROVE Message(w)' = Message(w)
      OBVIOUS
    <3>2. poll[w].uid \in 1 .. Len(mailbox)
      <4>1. poll[w].pc = "announce" /\ poll[w].uid <= poll[w].last
        BY <3>1 DEF InboxInv, OneAnnouncer, Announcing
      <4> QED BY <4>1, AnnouncingAt
    <3> QED BY <1>1, <1>2, <3>2 DEF Message
  <2> QED BY <1>1, <2>1 DEF InboxInv, OneAnnouncer, Announcing
<1> QED BY <1>4, <1>5, <1>6, <1>7 DEF InboxInv

\* One poll moves, and announces nothing
LEMMA PollMoves ==
    ASSUME InboxInv, NEW w \in Pollers, NEW p \in M!PollType, M!Hold(w, p),
           p.pc # "announce", UNCHANGED <<mailbox, inbox, announced>>, Grows,
           mark' \in 0 .. MaxUids, before' \in 0 .. MaxUids, unread' \subseteq 1 .. MaxUids,
           enabled' \in BOOLEAN, breaks' \in 0 .. MaxBreaks,
           pollJob' \in PollJobType, JobInTurn', MarkTaken', PollTaken(w)'
    PROVE  InboxInv'
<1>1. M!TypeOK /\ poll \in [Pollers -> M!PollType]
  BY InboxFields DEF InboxInv
<1>2. /\ poll' \in [Pollers -> M!PollType]
      /\ \A v \in Pollers : poll'[v] = IF v = w THEN p ELSE poll[v]
  BY <1>1 DEF M!Hold
<1>3. M!TypeOK'
  BY <1>1, <1>2 DEF M!TypeOK, PollJobType
<1>4. \A v \in Pollers : PollTaken(v)'
  <2>1. ASSUME NEW v \in Pollers, v # w PROVE PollTaken(v)'
    <3>1. poll'[v] = poll[v] /\ PollTaken(v)
      BY <1>2, <2>1 DEF InboxInv
    <3> QED BY <1>1, <3>1, PollStays
  <2> QED BY <2>1
<1>5. \A v \in Pollers : Announcing(v)' => v # w /\ Announcing(v) /\ poll'[v] = poll[v]
  BY <1>2 DEF Announcing
<1>6. OneAnnouncer'
  BY <1>5 DEF InboxInv, OneAnnouncer, Message
<1> QED BY <1>3, <1>4, <1>6 DEF InboxInv

\* A poll begins or ends; what it did stays done
LEMMA PollTurns ==
    ASSUME InboxInv, NEW w \in Pollers,
           \/ \E job \in BOOLEAN : M!Begin(w, job)
           \/ M!FindsNothing(w) \/ M!Unauthorized(w) \/ M!Throws(w) \/ M!Crash(w) \/ M!Finish(w)
    PROVE  InboxInv'
<1>1. /\ M!TypeOK /\ MaxUids \in Nat /\ MaxBreaks \in Nat /\ Attempts \in Nat /\ Attempts > 0
      /\ enabled \in BOOLEAN /\ mark \in 0 .. MaxUids /\ mark \in Nat
      /\ pollJob \in PollJobType /\ unread \subseteq 1 .. MaxUids /\ before \in 0 .. MaxUids
      /\ before \in Nat /\ breaks \in 0 .. MaxBreaks /\ Len(mailbox) \in Nat
      /\ MarkTaken /\ JobInTurn
  BY InboxFields DEF InboxInv
<1>2. UNCHANGED <<enabled, mailbox, inbox, announced, unread, before>>
  BY DEF M!Begin, M!FindsNothing, M!Unauthorized, M!Throws, M!Crash, M!Finish
<1>3. Grows
  BY <1>1, <1>2 DEF Grows
<1>4. breaks' \in 0 .. MaxBreaks
  <2>1. CASE (\E job \in BOOLEAN : M!Begin(w, job)) \/ M!FindsNothing(w)
    BY <1>1, <2>1 DEF M!Begin, M!FindsNothing
  <2>2. CASE M!Unauthorized(w) \/ M!Throws(w) \/ M!Crash(w)
    BY <1>1, <2>2 DEF M!Unauthorized, M!Throws, M!Crash
  <2>3. CASE M!Finish(w)
    BY <1>1, <2>3 DEF M!Finish
  <2> QED BY <2>1, <2>2, <2>3
<1>5. pollJob' \in PollJobType /\ JobInTurn'
  <2>1. /\ pollJob.id \in {"none", "waiting", "active", "kept"} /\ pollJob.attempts \in 0 .. Attempts
        /\ pollJob.attempts \in Nat
    BY <1>1 DEF PollJobType
  <2>2. CASE \E job \in BOOLEAN : M!Begin(w, job)
    <3>1. PICK job \in BOOLEAN : M!Begin(w, job)
      BY <2>2
    <3>2. CASE ~job
      BY <1>1, <3>1, <3>2 DEF M!Begin, JobInTurn
    <3>3. CASE job /\ enabled
      <4>1. pollJob.id = "waiting" /\ pollJob' = [id |-> "active", attempts |-> pollJob.attempts + 1]
        BY <3>1, <3>3 DEF M!Begin
      <4>2. pollJob.attempts + 1 \in 0 .. Attempts
        BY <1>1, <2>1, <4>1 DEF JobInTurn
      <4> QED BY <4>1, <4>2 DEF PollJobType, JobInTurn
    <3>4. CASE job /\ ~enabled
      BY <1>1, <3>1, <3>4 DEF M!Begin, JobInTurn, PollJobType
    <3> QED BY <3>2, <3>3, <3>4
  <2>3. CASE M!FindsNothing(w) \/ M!Unauthorized(w) \/ M!Finish(w)
    BY <1>1, <2>3 DEF M!FindsNothing, M!Unauthorized, M!Finish, M!Done, JobInTurn, PollJobType
  <2>4. CASE M!Throws(w)
    BY <1>1, <2>4 DEF M!Throws, JobInTurn, PollJobType
  <2>5. CASE M!Crash(w)
    BY <1>1, <2>5 DEF M!Crash, JobInTurn, PollJobType
  <2> QED BY <2>2, <2>3, <2>4, <2>5
<1>6. mark' \in 0 .. MaxUids /\ MarkTaken'
  <2>1. CASE M!Finish(w) /\ poll[w].reached > poll[w].from
    <3>1. poll[w].pc = "read" /\ mark' = poll[w].reached
      BY <2>1 DEF M!Finish
    <3>2. /\ poll[w].reached \in Nat /\ poll[w].reached <= Len(mailbox)
          /\ poll[w].reached <= MaxUids /\ \A k \in 1 .. poll[w].reached : Taken(k)
      BY <1>1, <3>1, PollFields DEF InboxInv, PollTaken
    <3>3. \A k \in 1 .. poll[w].reached : Taken(k)'
      BY <1>2, <3>2 DEF Taken
    <3> QED BY <1>1, <1>2, <3>1, <3>2, <3>3 DEF MarkTaken
  <2>2. CASE ~(M!Finish(w) /\ poll[w].reached > poll[w].from)
    <3>1. UNCHANGED mark
      BY <2>2 DEF M!Begin, M!FindsNothing, M!Unauthorized, M!Throws, M!Crash, M!Finish
    <3> QED BY <1>1, <1>3, <3>1, MarkStays
  <2> QED BY <2>1, <2>2
<1>7. CASE UNCHANGED poll
  <2>1. M!TypeOK'
    BY <1>1, <1>2, <1>4, <1>5, <1>6, <1>7 DEF M!TypeOK, PollJobType
  <2>2. \A v \in Pollers : PollTaken(v)'
    BY <1>1, <1>3, <1>7, PollStays DEF InboxInv
  <2>3. OneAnnouncer'
    BY <1>2, <1>7 DEF InboxInv, OneAnnouncer, Announcing, Message
  <2> QED BY <1>5, <1>6, <2>1, <2>2, <2>3 DEF InboxInv
<1>8. CASE \E p \in M!PollType : /\ M!Hold(w, p) /\ p.pc # "announce" /\ PollTaken(w)'
  BY <1>1, <1>2, <1>3, <1>4, <1>5, <1>6, <1>8, PollMoves
<1>9. \/ UNCHANGED poll
      \/ \E p \in M!PollType : M!Hold(w, p) /\ p.pc # "announce" /\ PollTaken(w)'
  <2>1. poll \in [Pollers -> M!PollType] /\ M!Quiet \in M!PollType /\ M!Quiet.pc = "idle"
    BY <1>1, InboxFields DEF M!PollType, M!Quiet
  <2>2. CASE M!Hold(w, M!Quiet)
    <3>1. poll'[w].pc = "idle"
      BY <2>1, <2>2 DEF M!Hold
    <3>2. PollTaken(w)'
      BY <3>1 DEF PollTaken
    <3> QED BY <2>1, <2>2, <3>2
  <2>3. ASSUME NEW job \in BOOLEAN, M!Begin(w, job), enabled
        PROVE  \E p \in M!PollType : M!Hold(w, p) /\ p.pc # "announce" /\ PollTaken(w)'
    <3> DEFINE p == [pc |-> "connect", job |-> job, from |-> mark]
    <3>1. p \in M!PollType /\ p.pc = "connect" /\ p.from = mark /\ M!Hold(w, p)
      BY <1>1, <2>3 DEF M!PollType, M!Begin
    <3> HIDE DEF p
    <3>2. poll'[w] = p /\ UNCHANGED mark
      BY <2>1, <2>3, <3>1 DEF M!Hold, M!Begin
    <3>3. PollTaken(w)'
      BY <1>2, <1>6, <3>1, <3>2 DEF PollTaken, MarkTaken
    <3> QED BY <3>1, <3>3
  <2>4. ASSUME NEW job \in BOOLEAN, M!Begin(w, job), ~enabled PROVE UNCHANGED poll
    BY <2>4 DEF M!Begin
  <2>5. ASSUME M!FindsNothing(w) \/ M!Unauthorized(w) \/ M!Throws(w) \/ M!Crash(w) \/ M!Finish(w)
        PROVE  M!Hold(w, M!Quiet)
    BY <2>5 DEF M!FindsNothing, M!Unauthorized, M!Throws, M!Crash, M!Finish, M!Done
  <2> QED BY <2>2, <2>3, <2>4, <2>5
<1> QED BY <1>7, <1>8, <1>9

\* The mailbox is fetched from where the mark was; a first run passes over older messages
LEMMA PollFetches ==
    ASSUME InboxInv, NEW w \in Pollers, M!Fetch(w)
    PROVE  InboxInv'
<1>1. /\ M!TypeOK /\ MaxUids \in Nat /\ Cap \in Nat /\ Cap > 0 /\ Catchup \in Nat
      /\ before \in Nat /\ before \in 0 .. MaxUids /\ Len(mailbox) \in Nat
      /\ Len(mailbox) <= MaxUids /\ MarkTaken /\ JobInTurn
      /\ poll \in [Pollers -> M!PollType] /\ unread \subseteq 1 .. MaxUids
      /\ enabled \in BOOLEAN /\ mark \in 0 .. MaxUids /\ breaks \in 0 .. MaxBreaks
      /\ pollJob \in PollJobType
  BY InboxFields DEF InboxInv
<1>2. /\ poll[w].pc = "connect" /\ mailbox # <<>> /\ poll[w] \in ConnectType
      /\ UNCHANGED <<enabled, mark, mailbox, inbox, announced, pollJob, unread, breaks>>
  BY <1>1, PollFields DEF M!Fetch
<1>3. PICK from \in 0 .. MaxUids : from = poll[w].from
  BY <1>2 DEF ConnectType
<1>4. PICK first : first = M!FirstUid(from)
  OBVIOUS
<1>5. PICK last : last = M!LastUid(from)
  OBVIOUS
<1>6. Len(mailbox) > 0 /\ from <= Len(mailbox) /\ \A k \in 1 .. from : Taken(k)
  <2>1. Len(mailbox) # 0
    BY <1>1, <1>2, InboxFields, EmptySeq
  <2> QED BY <1>1, <1>2, <1>3, <2>1 DEF InboxInv, PollTaken
<1>7. /\ first \in 1 .. Len(mailbox) + 1
      /\ from > 0 => first <= from + 1
  BY <1>1, <1>3, <1>4, <1>6 DEF M!FirstUid
<1>8. last \in 1 .. Len(mailbox) /\ first <= last + 1
  BY <1>1, <1>4, <1>5, <1>6, <1>7 DEF M!LastUid
<1> DEFINE p == [pc |-> "read", job |-> poll[w].job, from |-> from, reached |-> from,
                 uid |-> first, last |-> last]
<1>9. /\ M!Hold(w, p)
      /\ before' = IF from = 0 /\ first - 1 > before THEN first - 1 ELSE before
  BY <1>3, <1>4, <1>5 DEF M!Fetch
<1>10. /\ p \in M!PollType /\ p.pc = "read" /\ p.reached = from /\ p.uid = first /\ p.last = last
  <2>1. poll[w].job \in BOOLEAN /\ first \in 1 .. MaxUids + 1 /\ last \in 1 .. MaxUids
    BY <1>1, <1>2, <1>7, <1>8 DEF ConnectType
  <2> QED BY <1>3, <2>1 DEF M!PollType
<1> HIDE DEF p
<1>11. before' \in Nat /\ before' \in 0 .. MaxUids /\ before <= before'
       /\ (from = 0 => first - 1 <= before')
  BY <1>1, <1>7, <1>9
<1>12. Grows
  BY <1>1, <1>2, <1>11 DEF Grows
<1>13. poll'[w] = p
  BY <1>1, <1>9, <1>10 DEF M!Hold
<1>14. PollTaken(w)'
  <2>1. \A k \in 1 .. from : Taken(k)'
    BY <1>1, <1>3, <1>6, <1>12, TakenStays
  <2>2. \A k \in 1 .. first - 1 : Taken(k)'
    <3>1. CASE from = 0
      BY <1>7, <1>11, <3>1 DEF Taken
    <3>2. CASE from > 0
      BY <1>3, <1>7, <2>1, <3>2
    <3> QED BY <1>3, <3>1, <3>2
  <2>3. mailbox' = mailbox /\ first <= last + 1 /\ last <= Len(mailbox)
    BY <1>1, <1>2, <1>8
  <2> QED BY <1>6, <1>10, <1>13, <2>1, <2>2, <2>3 DEF PollTaken
<1>15. MarkTaken' /\ JobInTurn'
  BY <1>1, <1>2, <1>12, MarkStays DEF JobInTurn
<1> QED BY <1>1, <1>2, <1>9, <1>10, <1>11, <1>12, <1>14, <1>15, PollMoves

\* A poll has dealt with its UID, one way or the other, and goes on
LEMMA PassesOn ==
    ASSUME InboxInv, NEW w \in Pollers, poll[w].pc \in {"read", "announce"},
           NEW uid, uid = poll[w].uid, uid <= poll[w].last,
           NEW reached \in {poll[w].reached, uid},
           M!Hold(w, [poll[w] EXCEPT !.pc = "read", !.uid = poll[w].uid + 1,
                                     !.reached = reached]),
           UNCHANGED mailbox, Grows, Taken(uid)'
    PROVE  /\ poll' \in [Pollers -> M!PollType]
           /\ \A v \in Pollers \ {w} : poll'[v] = poll[v]
           /\ poll'[w].pc = "read" /\ PollTaken(w)'
<1> DEFINE p == [poll[w] EXCEPT !.pc = "read", !.uid = poll[w].uid + 1, !.reached = reached]
<1>1. /\ M!TypeOK /\ MaxUids \in Nat /\ poll \in [Pollers -> M!PollType] /\ poll[w] \in ReadType
      /\ poll[w].uid \in Nat /\ poll[w].uid > 0 /\ poll[w].last \in Nat
      /\ poll[w].last <= MaxUids /\ Len(mailbox) \in Nat
      /\ poll[w].reached \in Nat /\ poll[w].reached <= MaxUids
  BY InboxFields, PollFields DEF InboxInv
<1>2. /\ poll[w].last <= Len(mailbox) /\ poll[w].reached <= Len(mailbox)
      /\ \A k \in 1 .. poll[w].reached : Taken(k)
      /\ \A k \in 1 .. poll[w].uid - 1 : Taken(k)
  BY DEF InboxInv, PollTaken
<1>3. poll[w].uid + 1 \in 1 .. MaxUids + 1 /\ reached \in 0 .. MaxUids
  BY <1>1
<1>4. /\ p \in ReadType /\ p.pc = "read" /\ p.uid = poll[w].uid + 1 /\ p.last = poll[w].last
      /\ p.reached = reached
  BY <1>1, <1>3 DEF ReadType
<1> HIDE DEF p
<1>5. /\ poll' \in [Pollers -> M!PollType] /\ poll'[w] = p
      /\ \A v \in Pollers \ {w} : poll'[v] = poll[v]
  <2>1. poll' = [poll EXCEPT ![w] = p]
    BY DEF M!Hold, p
  <2>2. p \in M!PollType
    BY <1>4 DEF M!PollType, ReadType
  <2> QED BY <1>1, <2>1, <2>2
<1>6. \A k \in 1 .. poll[w].reached : Taken(k)'
  BY <1>1, <1>2, TakenStays
<1>7. \A k \in 1 .. uid : Taken(k)'
  <2>1. \A k \in 1 .. poll[w].uid - 1 : Taken(k)'
    BY <1>1, <1>2, TakenStays
  <2>2. \A k \in 1 .. uid : k = uid \/ k \in 1 .. poll[w].uid - 1
    BY <1>1
  <2> QED BY <2>1, <2>2
<1>8. \A k \in 1 .. reached : Taken(k)'
  BY <1>6, <1>7
<1>9. poll[w].last <= Len(mailbox') /\ reached <= Len(mailbox')
  BY <1>1, <1>2
<1> QED BY <1>1, <1>4, <1>5, <1>7, <1>8, <1>9 DEF PollTaken

LEMMA MessageStored ==
    ASSUME InboxInv, NEW w \in Pollers, M!Store(w)
    PROVE  InboxInv'
<1>1. /\ M!TypeOK /\ poll \in [Pollers -> M!PollType] /\ before \in Nat /\ Len(mailbox) \in Nat
      /\ inbox \subseteq Mails
  BY InboxFields DEF InboxInv
<1>2. /\ poll[w].pc = "read" /\ poll[w].uid <= poll[w].last /\ Message(w) \notin inbox
      /\ inbox' = inbox \cup {Message(w)} /\ M!Hold(w, [poll[w] EXCEPT !.pc = "announce"])
      /\ UNCHANGED <<enabled, mark, mailbox, announced, pollJob, unread, before, breaks>>
  BY DEF M!Store, M!Reading, M!Fresh, Message
<1>3. poll[w].uid \in 1 .. Len(mailbox) /\ Message(w) \in Mails /\ poll[w] \in ReadType
  BY <1>1, <1>2, AnnouncingAt, PollFields
<1>4. PICK p \in ReadType :
        /\ p = [poll[w] EXCEPT !.pc = "announce"] /\ p.pc = "announce"
        /\ p.uid = poll[w].uid /\ p.last = poll[w].last /\ p.reached = poll[w].reached
  <2> DEFINE q == [poll[w] EXCEPT !.pc = "announce"]
  <2>1. /\ q \in ReadType /\ q.pc = "announce" /\ q.uid = poll[w].uid /\ q.last = poll[w].last
        /\ q.reached = poll[w].reached
    BY <1>3 DEF ReadType
  <2> QED BY <2>1
<1>5. /\ poll' \in [Pollers -> M!PollType]
      /\ \A v \in Pollers : poll'[v] = IF v = w THEN p ELSE poll[v]
  <2>1. p \in M!PollType
    BY <1>4 DEF M!PollType, ReadType
  <2> QED BY <1>1, <1>2, <1>4, <2>1 DEF M!Hold
<1>6. Grows
  BY <1>1, <1>2 DEF Grows
<1>7. M!TypeOK'
  BY <1>1, <1>2, <1>3, <1>5 DEF M!TypeOK
<1>8. MarkTaken' /\ JobInTurn'
  BY <1>1, <1>2, <1>6, MarkStays DEF InboxInv, JobInTurn
<1>9. \A v \in Pollers : PollTaken(v)'
  <2>1. ASSUME NEW v \in Pollers, v # w PROVE PollTaken(v)'
    BY <1>1, <1>5, <1>6, <2>1, PollStays DEF InboxInv
  <2>2. PollTaken(w)'
    <3>1. \A k \in Nat : Taken(k) => Taken(k)'
      BY <1>2 DEF Taken
    <3>2. poll[w].reached \in Nat /\ poll[w].uid \in Nat /\ PollTaken(w)
      BY <1>1, <1>2, PollFields DEF InboxInv
    <3>3. /\ \A k \in 1 .. poll[w].reached : Taken(k)'
          /\ \A k \in 1 .. poll[w].uid - 1 : Taken(k)'
      BY <1>2, <3>1, <3>2 DEF PollTaken
    <3>4. poll'[w] = p
      BY <1>5
    <3> QED BY <1>2, <1>4, <3>2, <3>3, <3>4 DEF PollTaken
  <2> QED BY <2>1, <2>2
<1>10. OneAnnouncer'
  <2>1. \A v \in Pollers : Message(v)' = Message(v)
    BY <1>2, <1>4, <1>5 DEF Message
  <2>2. \A v \in Pollers \ {w} : /\ Announcing(v)' <=> Announcing(v)
                                 /\ poll'[v] = poll[v]
                                 /\ Announcing(v) => Message(v) # Message(w)
    BY <1>2, <1>5 DEF InboxInv, OneAnnouncer, Announcing
  <2>3. announced[Message(w)] = 0 /\ \A m \in Mails : announced[m] <= 1
    BY <1>2, <1>3 DEF InboxInv, OneAnnouncer
  <2>4. \A m \in Mails : announced'[m] <= 1 /\ (m \notin inbox' => announced'[m] = 0)
    BY <1>2 DEF InboxInv, OneAnnouncer
  <2>5. ASSUME NEW v \in Pollers, Announcing(v)'
        PROVE  poll'[v].uid <= poll'[v].last /\ Message(v)' \in inbox' /\ announced'[Message(v)'] = 0
    <3>1. CASE v = w
      BY <1>2, <1>4, <1>5, <2>1, <2>3, <3>1
    <3>2. CASE v # w
      BY <1>2, <2>1, <2>2, <2>5, <3>2 DEF InboxInv, OneAnnouncer
    <3> QED BY <3>1, <3>2
  <2>6. \A u, v \in Pollers : Announcing(u)' /\ Announcing(v)' /\ Message(u)' = Message(v)' => u = v
    BY <2>1, <2>2 DEF InboxInv, OneAnnouncer
  <2> QED BY <2>4, <2>5, <2>6 DEF OneAnnouncer
<1> QED BY <1>7, <1>8, <1>9, <1>10 DEF InboxInv

LEMMA MessagePassed ==
    ASSUME InboxInv, NEW w \in Pollers, M!SkipDuplicate(w) \/ M!MessageFails(w)
    PROVE  InboxInv'
<1>1. /\ M!TypeOK /\ before \in Nat /\ Len(mailbox) \in Nat /\ Len(mailbox) <= MaxUids
      /\ MaxUids \in Nat /\ unread \subseteq 1 .. MaxUids /\ breaks \in 0 .. MaxBreaks
      /\ MaxBreaks \in Nat
  BY InboxFields DEF InboxInv
<1>2. /\ poll[w].pc = "read" /\ poll[w].uid <= poll[w].last
      /\ UNCHANGED <<enabled, mark, mailbox, inbox, announced, pollJob, before>>
  BY DEF M!SkipDuplicate, M!MessageFails, M!Reading
<1>3. poll[w].uid \in 1 .. Len(mailbox) /\ poll[w].uid \in 1 .. MaxUids /\ poll[w] \in ReadType
  BY <1>1, <1>2, AnnouncingAt, PollFields
<1>a. PICK uid : uid = poll[w].uid
  OBVIOUS
<1>4. /\ unread \subseteq unread' /\ unread' \subseteq 1 .. MaxUids
      /\ breaks' \in 0 .. MaxBreaks /\ Taken(uid)'
  <2>1. CASE M!SkipDuplicate(w)
    <3>1. unread' = unread /\ breaks' = breaks /\ mailbox[uid] \in inbox
      BY <1>a, <2>1 DEF M!SkipDuplicate, M!Fresh
    <3>2. Taken(uid)'
      BY <1>2, <3>1 DEF Taken
    <3> QED BY <1>1, <3>1, <3>2
  <2>2. CASE M!MessageFails(w)
    <3>1. unread' = unread \cup {uid} /\ breaks < MaxBreaks /\ breaks' = breaks + 1
      BY <1>a, <2>2 DEF M!MessageFails
    <3>2. Taken(uid)' /\ unread \subseteq unread'
      BY <3>1 DEF Taken
    <3>3. breaks + 1 \in 0 .. MaxBreaks
      BY <1>1, <3>1
    <3>4. unread \cup {uid} \subseteq 1 .. MaxUids
      BY <1>1, <1>3, <1>a
    <3> QED BY <3>1, <3>2, <3>3, <3>4
  <2> QED BY <2>1, <2>2
<1>5. Grows
  BY <1>1, <1>2, <1>4 DEF Grows
<1>6. \E reached \in {poll[w].reached, uid} :
        M!Hold(w, [poll[w] EXCEPT !.pc = "read", !.uid = poll[w].uid + 1, !.reached = reached])
  <2>1. CASE M!SkipDuplicate(w)
    <3>1. M!Reached(w) \in {poll[w].reached, uid}
      BY <1>a DEF M!Reached
    <3>2. M!Hold(w, [poll[w] EXCEPT !.pc = "read", !.uid = poll[w].uid + 1,
                                    !.reached = M!Reached(w)])
      BY <2>1 DEF M!SkipDuplicate, M!Onward
    <3> QED BY <3>1, <3>2
  <2>2. CASE M!MessageFails(w)
    <3>1. [poll[w] EXCEPT !.pc = "read", !.uid = poll[w].uid + 1, !.reached = poll[w].reached]
            = [poll[w] EXCEPT !.uid = poll[w].uid + 1]
      BY <1>2, <1>3 DEF ReadType
    <3>2. M!Hold(w, [poll[w] EXCEPT !.uid = poll[w].uid + 1])
      BY <2>2 DEF M!MessageFails
    <3> QED BY <3>1, <3>2
  <2> QED BY <2>1, <2>2
<1>7. /\ poll' \in [Pollers -> M!PollType]
      /\ \A v \in Pollers \ {w} : poll'[v] = poll[v]
      /\ poll'[w].pc = "read" /\ PollTaken(w)'
  BY <1>2, <1>4, <1>5, <1>6, <1>a, PassesOn
<1>8. M!TypeOK'
  BY <1>1, <1>2, <1>4, <1>7 DEF M!TypeOK
<1>9. MarkTaken' /\ JobInTurn' /\ \A v \in Pollers : PollTaken(v)'
  BY <1>1, <1>2, <1>5, <1>7, MarkStays, PollStays DEF InboxInv, JobInTurn
<1>10. OneAnnouncer'
  <2>1. \A v \in Pollers : Announcing(v)' => v # w /\ Announcing(v) /\ poll'[v] = poll[v]
    BY <1>7 DEF Announcing
  <2> QED BY <1>2, <2>1 DEF InboxInv, OneAnnouncer, Message
<1> QED BY <1>8, <1>9, <1>10 DEF InboxInv

LEMMA MessageAnnounced ==
    ASSUME InboxInv, NEW w \in Pollers, M!Announce(w)
    PROVE  InboxInv'
<1>1. /\ M!TypeOK /\ before \in Nat /\ Len(mailbox) \in Nat /\ announced \in [Mails -> Nat]
      /\ breaks \in 0 .. MaxBreaks /\ MaxBreaks \in Nat
  BY InboxFields DEF InboxInv
<1>2. /\ Announcing(w) /\ poll[w].uid <= poll[w].last /\ Message(w) \in inbox
      /\ announced[Message(w)] = 0
      /\ UNCHANGED <<enabled, mark, mailbox, inbox, pollJob, unread, before>>
  BY DEF M!Announce, InboxInv, OneAnnouncer, Announcing
<1>a. PICK uid : uid = poll[w].uid
  OBVIOUS
<1>3. Message(w) \in Mails
  BY <1>2, AnnouncingAt DEF Announcing
<1>4. /\ breaks' \in 0 .. MaxBreaks
      /\ announced' = announced \/ announced' = [announced EXCEPT ![Message(w)] = 1]
  <2>1. announced[Message(w)] + 1 = 1
    BY <1>2
  <2>2. \/ /\ announced' = [announced EXCEPT ![Message(w)] = announced[Message(w)] + 1]
           /\ UNCHANGED breaks
        \/ breaks < MaxBreaks /\ breaks' = breaks + 1 /\ UNCHANGED announced
    BY DEF M!Announce, Message
  <2> QED BY <1>1, <2>1, <2>2
<1>5. /\ announced' \in [Mails -> Nat]
      /\ \A m \in Mails : m # Message(w) => announced'[m] = announced[m]
      /\ announced'[Message(w)] <= 1
  BY <1>1, <1>2, <1>3, <1>4
<1>6. Grows /\ Taken(uid)'
  BY <1>1, <1>2, <1>a DEF Grows, Taken, Message
<1>7. /\ poll' \in [Pollers -> M!PollType]
      /\ \A v \in Pollers \ {w} : poll'[v] = poll[v]
      /\ poll'[w].pc = "read" /\ PollTaken(w)'
  <2>1. M!Reached(w) \in {poll[w].reached, uid}
    BY <1>a DEF M!Reached
  <2>2. M!Hold(w, [poll[w] EXCEPT !.pc = "read", !.uid = poll[w].uid + 1,
                                  !.reached = M!Reached(w)])
    BY DEF M!Announce, M!Onward
  <2> QED BY <1>2, <1>6, <1>a, <2>1, <2>2, PassesOn DEF Announcing
<1>8. M!TypeOK'
  BY <1>1, <1>2, <1>4, <1>5, <1>7 DEF M!TypeOK
<1>9. MarkTaken' /\ JobInTurn' /\ \A v \in Pollers : PollTaken(v)'
  BY <1>1, <1>2, <1>6, <1>7, MarkStays, PollStays DEF InboxInv, JobInTurn
<1>10. OneAnnouncer'
  <2>1. \A v \in Pollers : Announcing(v)' => v # w /\ Announcing(v) /\ poll'[v] = poll[v]
    BY <1>7 DEF Announcing
  <2>2. \A v \in Pollers : Announcing(v)' => Message(v)' = Message(v) /\ Message(v) # Message(w)
    BY <1>2, <2>1 DEF Message, InboxInv, OneAnnouncer
  <2>3. \A m \in Mails : announced'[m] <= 1 /\ (m \notin inbox' => announced'[m] = 0)
    BY <1>2, <1>5 DEF InboxInv, OneAnnouncer
  <2>4. ASSUME NEW v \in Pollers, Announcing(v)'
        PROVE  poll'[v].uid <= poll'[v].last /\ Message(v)' \in inbox' /\ announced'[Message(v)'] = 0
    <3>1. /\ poll[v].uid <= poll[v].last /\ Message(v) \in inbox /\ announced[Message(v)] = 0
          /\ Message(v) \in Mails
      BY <2>1, <2>4, AnnouncingAt DEF InboxInv, OneAnnouncer, Announcing
    <3> QED BY <1>2, <1>5, <2>1, <2>2, <2>4, <3>1
  <2>5. \A u, v \in Pollers : Announcing(u)' /\ Announcing(v)' /\ Message(u)' = Message(v)' => u = v
    BY <2>1, <2>2 DEF InboxInv, OneAnnouncer
  <2> QED BY <2>3, <2>4, <2>5 DEF OneAnnouncer
<1> QED BY <1>8, <1>9, <1>10 DEF InboxInv

LEMMA InboxInvariant == ServicesSpec => []InboxInv
<1>1. ServicesInit => InboxInv
  BY InboxInit DEF ServicesInit
<1>2. InboxInv /\ UNCHANGED inboxRows => InboxInv'
  BY DEF InboxInv, inboxRows, M!TypeOK, MarkTaken, PollTaken, Taken, OneAnnouncer, Announcing,
     Message, JobInTurn
<1>3. InboxInv /\ M!Next => InboxInv'
  <2> SUFFICES ASSUME InboxInv, M!Next PROVE InboxInv'
    OBVIOUS
  <2>1. CASE M!SetEnabled \/ M!Cron \/ M!Evict \/ \E m \in Mails : M!MailArrives(m)
    BY <2>1, PollsRest
  <2>2. ASSUME NEW w \in Pollers,
               \/ M!PollSteps(w) \/ M!Begin(w, FALSE) \/ M!Unauthorized(w)
               \/ M!MessageFails(w) \/ M!Throws(w) \/ M!Crash(w)
        PROVE  InboxInv'
    <3>1. CASE \/ \E job \in BOOLEAN : M!Begin(w, job)
               \/ M!FindsNothing(w) \/ M!Unauthorized(w) \/ M!Throws(w) \/ M!Crash(w)
               \/ M!Finish(w)
      BY <3>1, PollTurns
    <3>2. CASE M!Fetch(w) \/ M!Store(w) \/ M!SkipDuplicate(w) \/ M!MessageFails(w) \/ M!Announce(w)
      BY <3>2, PollFetches, MessageStored, MessagePassed, MessageAnnounced
    <3> QED BY <2>2, <3>1, <3>2 DEF M!PollSteps
  <2> QED BY <2>1, <2>2 DEF M!Next
<1>4. InboxInv /\ [ServicesNext]_vars => InboxInv'
  BY <1>2, <1>3, InboxMoves
<1> QED BY <1>1, <1>4, PTL DEF ServicesSpec

\* Every message below the mark is in the inbox, could not be processed, or is older than the
\* first run's catch-up, and none is announced twice, whatever polls overlap, stop at a cap,
\* break off, die or write back an older mark.
THEOREM InboxTakesMailOnce == ServicesSpec => []MailTakenOnce
<1>1. InboxInv => M!MailTakenOnce
  BY DEF InboxInv, MarkTaken, OneAnnouncer, Taken, M!MailTakenOnce
<1>2. InboxInv => MailTakenOnce
  BY <1>1 DEF MailTakenOnce
<1> QED BY <1>2, InboxInvariant, PTL
--------------------------------------------------------------------------------
(* Work orders *)

OrderType      == [status : W!Statuses \cup {"none", "deleted"}, version : 1 .. MaxEdits]
MoveType       == [from : W!Statuses \ W!Terminal, to : W!Statuses]
DispatcherType == {W!Off} \cup [pc : {"update", "remove"}] \cup [pc : {"move"}, step : MoveType]

Dispatched == {d \in Dispatchers : dispatcher[d] # W!Off}

\* A move whose origin is no longer the order's status
Outdated(d) == dispatcher[d].pc = "move" /\ dispatcher[d].step.from # order.status

Breaks == {n \in 2 .. Len(history) : history[n].from # history[n - 1].to}

HistoryEnds ==
    /\ W!There => history # <<>> /\ history[Len(history)].to = order.status
    /\ ~W!There => history = <<>>

\* The first of the requests that overlap writes what it read, unless another has written since
FirstOfThem == IF Dispatched # {} /\ \A d \in Dispatched : ~Outdated(d) THEN 1 ELSE 0

\* Every request that is under way may yet break the history, but for that one
BreaksCounted ==
    /\ IsFiniteSet(Dispatched)
    /\ Cardinality(Breaks) + Cardinality(Dispatched) <= clashes + FirstOfThem
    /\ order.status = "none" => Dispatched = {}

\* One request after the other: closed is closed
ClosedStaysClosed ==
    clashes = 0 =>
        /\ \A d \in Dispatchers : dispatcher[d].pc = "update" => order.status \notin W!Terminal
        /\ \A n \in 1 .. Len(history) - 1 : history[n].to \notin W!Terminal
        /\ order.status \in W!Terminal => closedWith = order.version

OrderInv ==
    /\ W!TypeOK /\ dispatcher \in [Dispatchers -> DispatcherType]
    /\ HistoryEnds /\ BreaksCounted /\ ClosedStaysClosed

LEMMA OrderFields ==
    ASSUME OrderInv
    PROVE  /\ MaxEdits \in Nat /\ MaxHistory \in Nat /\ MaxClashes \in Nat
           /\ MaxEdits > 0 /\ MaxHistory > 0
           /\ order \in OrderType /\ order.version \in 1 .. MaxEdits
           /\ order.status \in W!Statuses \cup {"none", "deleted"}
           /\ history \in Seq(W!Steps) /\ Len(history) \in Nat /\ Len(history) <= MaxHistory
           /\ \A n \in 1 .. Len(history) : history[n] \in W!Steps
           /\ dispatcher \in [Dispatchers -> DispatcherType]
           /\ closedWith \in 0 .. MaxEdits /\ clashes \in 0 .. MaxClashes /\ clashes \in Nat
           /\ IsFiniteSet(Dispatched) /\ Cardinality(Dispatched) \in Nat
           /\ IsFiniteSet(Breaks) /\ Cardinality(Breaks) \in Nat
<1>1. /\ MaxEdits \in Nat /\ MaxHistory \in Nat /\ MaxClashes \in Nat
      /\ MaxEdits > 0 /\ MaxHistory > 0
  BY ServicesBounds
<1>2. order \in OrderType
  BY DEF OrderInv, W!TypeOK, OrderType
<1>3. /\ order.version \in 1 .. MaxEdits
      /\ order.status \in W!Statuses \cup {"none", "deleted"}
  BY <1>2 DEF OrderType
<1>4. /\ history \in Seq(W!Steps) /\ Len(history) <= MaxHistory
      /\ closedWith \in 0 .. MaxEdits /\ clashes \in 0 .. MaxClashes
      /\ dispatcher \in [Dispatchers -> DispatcherType]
  BY DEF OrderInv, W!TypeOK
<1>5. Len(history) \in Nat /\ \A n \in 1 .. Len(history) : history[n] \in W!Steps
  BY <1>4
<1>6. clashes \in Nat
  BY <1>1, <1>4
<1>7. IsFiniteSet(Dispatched) /\ Cardinality(Dispatched) \in Nat
  BY FS_CardinalityType DEF OrderInv, BreaksCounted
<1>8. IsFiniteSet(Breaks) /\ Cardinality(Breaks) \in Nat
  <2>1. Breaks \subseteq 2 .. Len(history) /\ 2 \in Int /\ Len(history) \in Int
    BY <1>5 DEF Breaks
  <2> QED BY <2>1, FS_Interval, FS_Subset, FS_CardinalityType
<1> QED BY <1>1, <1>2, <1>3, <1>4, <1>5, <1>6, <1>7, <1>8

LEMMA DispatcherFields ==
    ASSUME OrderInv, NEW d \in Dispatchers
    PROVE  /\ dispatcher[d].pc \in {"idle", "update", "remove", "move"}
           /\ dispatcher[d].pc = "idle" <=> dispatcher[d] = W!Off
           /\ dispatcher[d].pc = "move" => dispatcher[d].step \in MoveType
<1>1. dispatcher[d] \in DispatcherType
  BY OrderFields
<1> QED BY <1>1 DEF DispatcherType, W!Off

\* The type of the requests says no less than the model's
LEMMA DispatcherTyped ==
    ASSUME NEW f \in [Dispatchers -> DispatcherType]
    PROVE  f \in [Dispatchers -> {W!Off} \cup [pc : {"update", "remove"}]
                                            \cup [pc : {"move"}, step : W!Steps]]
<1>1. MoveType \subseteq W!Steps
  BY DEF MoveType, W!Steps
<1>2. DispatcherType \subseteq {W!Off} \cup [pc : {"update", "remove"}]
                                            \cup [pc : {"move"}, step : W!Steps]
  BY <1>1 DEF DispatcherType
<1> QED BY <1>2

LEMMA OrderInit == W!Init => OrderInv
<1> SUFFICES ASSUME W!Init PROVE OrderInv
  OBVIOUS
<1>1. /\ MaxEdits \in Nat /\ MaxHistory \in Nat /\ MaxClashes \in Nat
      /\ MaxEdits > 0 /\ MaxHistory > 0
  BY ServicesBounds
<1>2. /\ order = W!NoOrder /\ history = <<>> /\ closedWith = 0 /\ clashes = 0
      /\ dispatcher = [d \in Dispatchers |-> W!Off]
  BY DEF W!Init
<1>3. dispatcher \in [Dispatchers -> DispatcherType] /\ \A d \in Dispatchers : dispatcher[d].pc = "idle"
  BY <1>2 DEF DispatcherType, W!Off
<1>4. order \in OrderType /\ order.status = "none"
  BY <1>1, <1>2 DEF OrderType, W!NoOrder
<1>5. history \in Seq(W!Steps) /\ Len(history) = 0
  BY <1>2
<1>6. W!TypeOK
  <2>1. closedWith \in 0 .. MaxEdits /\ clashes \in 0 .. MaxClashes /\ Len(history) <= MaxHistory
    BY <1>1, <1>2, <1>5
  <2> QED BY <1>3, <1>4, <1>5, <2>1, DispatcherTyped DEF W!TypeOK, OrderType
<1>7. HistoryEnds
  BY <1>2, <1>4 DEF HistoryEnds, W!There, W!Statuses
<1>8. BreaksCounted
  <2>1. Dispatched = {} /\ Breaks = {}
    BY <1>2, <1>5 DEF Dispatched, Breaks
  <2>2. IsFiniteSet({}) /\ Cardinality({}) = 0
    BY FS_EmptySet
  <2> QED BY <1>2, <2>1, <2>2 DEF BreaksCounted, FirstOfThem
<1>9. ClosedStaysClosed
  BY <1>3, <1>4, <1>5 DEF ClosedStaysClosed, W!Terminal
<1> QED BY <1>3, <1>6, <1>7, <1>8, <1>9 DEF OrderInv

LEMMA OrderCreated ==
    ASSUME OrderInv, W!Create
    PROVE  OrderInv'
<1>1. /\ MaxHistory \in Nat /\ MaxHistory > 0 /\ order \in OrderType
      /\ dispatcher \in [Dispatchers -> DispatcherType]
      /\ closedWith \in 0 .. MaxEdits /\ clashes \in 0 .. MaxClashes /\ clashes \in Nat
      /\ Cardinality(Breaks) \in Nat
  BY OrderFields
<1>2. /\ order.status = "none" /\ order' = [order EXCEPT !.status = "draft"]
      /\ history' = <<W!Step("none", "draft")>> /\ UNCHANGED <<dispatcher, closedWith, clashes>>
  BY DEF W!Create
<1>3. order' \in OrderType /\ order'.status = "draft"
  BY <1>1, <1>2 DEF OrderType, W!Statuses
<1>4. W!Step("none", "draft") \in W!Steps /\ W!Step("none", "draft").to = "draft"
  BY DEF W!Step, W!Steps, W!Statuses
<1>5. /\ history' \in Seq(W!Steps) /\ Len(history') = 1 /\ history' # <<>>
      /\ history'[1].to = "draft"
  BY <1>2, <1>4
<1>6. W!TypeOK'
  BY <1>1, <1>2, <1>3, <1>5, DispatcherTyped DEF W!TypeOK, OrderType
<1>7. HistoryEnds'
  BY <1>3, <1>5 DEF HistoryEnds, W!There, W!Statuses
<1>8. Dispatched = {} /\ \A d \in Dispatchers : dispatcher[d].pc = "idle"
  BY <1>2, DispatcherFields DEF OrderInv, BreaksCounted, Dispatched
<1>9. BreaksCounted'
  <2>1. Dispatched' = {} /\ Breaks' = {}
    BY <1>2, <1>5, <1>8 DEF Dispatched, Breaks
  <2>2. IsFiniteSet({}) /\ Cardinality({}) = 0
    BY FS_EmptySet
  <2>3. FirstOfThem' = 0
    BY <2>1 DEF FirstOfThem
  <2> QED BY <1>1, <1>2, <2>1, <2>2, <2>3 DEF BreaksCounted
<1>10. ClosedStaysClosed'
  BY <1>2, <1>3, <1>5, <1>8 DEF ClosedStaysClosed, W!Terminal
<1> QED BY <1>1, <1>2, <1>6, <1>7, <1>9, <1>10 DEF OrderInv

\* What Allowed leads from and to
LEMMA AllowedSteps ==
    ASSUME NEW from, NEW to \in W!Allowed(from) \cup ({from} \cap {"scheduled"})
    PROVE  from \in W!Statuses \ W!Terminal /\ to \in W!Statuses
BY DEF W!Allowed, W!Statuses, W!Terminal

LEMMA OrderRead ==
    ASSUME OrderInv, NEW d \in Dispatchers, W!UpdateRead(d) \/ W!RemoveRead(d) \/ W!MoveRead(d)
    PROVE  OrderInv'
<1>1. /\ order \in OrderType /\ dispatcher \in [Dispatchers -> DispatcherType]
      /\ closedWith \in 0 .. MaxEdits /\ clashes \in 0 .. MaxClashes /\ clashes \in Nat
      /\ MaxClashes \in Nat /\ Cardinality(Breaks) \in Nat /\ Cardinality(Dispatched) \in Nat
      /\ IsFiniteSet(Dispatched) /\ history \in Seq(W!Steps) /\ Len(history) \in Nat
  BY OrderFields
<1>2. UNCHANGED <<order, history, closedWith>>
  BY DEF W!UpdateRead, W!RemoveRead, W!MoveRead
<1>3. PICK call \in DispatcherType :
        /\ W!Begins(d, call) /\ call # W!Off /\ order.status # "none"
        /\ call.pc = "update" => order.status \notin W!Terminal
        /\ call.pc = "move" => call.step.from = order.status
  <2>1. CASE W!UpdateRead(d)
    BY <2>1 DEF W!UpdateRead, W!There, W!Statuses, DispatcherType, W!Off
  <2>2. CASE W!RemoveRead(d)
    BY <2>2 DEF W!RemoveRead, DispatcherType, W!Off
  <2>3. CASE W!MoveRead(d)
    <3>1. PICK to \in W!Allowed(order.status) \cup ({order.status} \cap {"scheduled"}) :
            W!Begins(d, [pc |-> "move", step |-> W!Step(order.status, to)])
      BY <2>3 DEF W!MoveRead
    <3>2. order.status \in W!Statuses \ W!Terminal /\ to \in W!Statuses
      BY AllowedSteps
    <3>3. W!Step(order.status, to) \in MoveType /\ W!Step(order.status, to).from = order.status
      BY <3>2 DEF W!Step, MoveType
    <3>4. order.status # "none"
      BY <3>2 DEF W!Statuses
    <3> QED BY <3>1, <3>3, <3>4 DEF DispatcherType, W!Off
  <2> QED BY <2>1, <2>2, <2>3
<1>4. /\ dispatcher[d] = W!Off /\ dispatcher' \in [Dispatchers -> DispatcherType]
      /\ \A e \in Dispatchers : dispatcher'[e] = IF e = d THEN call ELSE dispatcher[e]
  BY <1>1, <1>3 DEF W!Begins
<1>5. /\ clashes' \in 0 .. MaxClashes /\ clashes' \in Nat
      /\ Dispatched # {} => clashes' = clashes + 1
      /\ Dispatched = {} => clashes' = clashes
  BY <1>1, <1>3 DEF W!Begins, Dispatched
<1>6. W!TypeOK'
  BY <1>1, <1>2, <1>4, <1>5, DispatcherTyped DEF OrderInv, W!TypeOK
<1>7. HistoryEnds' /\ Breaks' = Breaks
  BY <1>2 DEF OrderInv, HistoryEnds, W!There, Breaks
<1>8. BreaksCounted'
  <2>1. Dispatched' = Dispatched \cup {d} /\ d \notin Dispatched
    BY <1>3, <1>4 DEF Dispatched
  <2>2. IsFiniteSet(Dispatched') /\ Cardinality(Dispatched') = Cardinality(Dispatched) + 1
    BY <1>1, <2>1, FS_AddElement
  <2>3. \A e \in Dispatched' : Outdated(e)' => e \in Dispatched /\ Outdated(e)
    BY <1>2, <1>3, <1>4, <2>1 DEF Outdated, Dispatched
  <2>4. /\ FirstOfThem \in {0, 1} /\ FirstOfThem' \in {0, 1}
        /\ FirstOfThem = 1 => FirstOfThem' = 1
        /\ Dispatched = {} => FirstOfThem' = 1
    BY <2>1, <2>3 DEF FirstOfThem
  <2>5. Cardinality(Breaks) + Cardinality(Dispatched) <= clashes + FirstOfThem
    BY DEF OrderInv, BreaksCounted
  <2>6. Dispatched = {} => Cardinality(Dispatched) = 0 /\ FirstOfThem = 0
    BY FS_EmptySet DEF FirstOfThem
  <2>7. Cardinality(Breaks) + Cardinality(Dispatched) + 1 <= clashes' + FirstOfThem'
    BY <1>1, <1>5, <2>4, <2>5, <2>6
  <2>8. order'.status # "none"
    BY <1>2, <1>3
  <2> QED BY <1>1, <1>7, <2>2, <2>7, <2>8 DEF BreaksCounted
<1>9. ClosedStaysClosed'
  <2>1. clashes' = 0 => clashes = 0
    BY <1>1, <1>5
  <2>2. \A e \in Dispatchers : dispatcher'[e].pc = "update" =>
          order.status \notin W!Terminal \/ dispatcher[e].pc = "update"
    BY <1>3, <1>4
  <2> QED BY <1>2, <2>1, <2>2 DEF OrderInv, ClosedStaysClosed
<1> QED BY <1>4, <1>6, <1>7, <1>8, <1>9 DEF OrderInv

\* A request is over; whatever it wrote, it no longer counts as one that may break the history
LEMMA RequestLeaves ==
    ASSUME OrderInv, NEW d \in Dispatchers, dispatcher[d] # W!Off, W!Ends(d)
    PROVE  /\ dispatcher' \in [Dispatchers -> DispatcherType]
           /\ \A e \in Dispatchers : dispatcher'[e] = IF e = d THEN W!Off ELSE dispatcher[e]
           /\ Dispatched' = Dispatched \ {d} /\ d \in Dispatched
           /\ IsFiniteSet(Dispatched')
           /\ Cardinality(Dispatched') = Cardinality(Dispatched) - 1
           /\ FirstOfThem \in {0, 1} /\ FirstOfThem' \in {0, 1}
<1>1. /\ dispatcher \in [Dispatchers -> DispatcherType] /\ IsFiniteSet(Dispatched)
  BY OrderFields
<1>2. /\ dispatcher' \in [Dispatchers -> DispatcherType]
      /\ \A e \in Dispatchers : dispatcher'[e] = IF e = d THEN W!Off ELSE dispatcher[e]
  BY <1>1 DEF W!Ends, DispatcherType
<1>3. Dispatched' = Dispatched \ {d} /\ d \in Dispatched
  BY <1>2 DEF Dispatched
<1>4. IsFiniteSet(Dispatched') /\ Cardinality(Dispatched') = Cardinality(Dispatched) - 1
  BY <1>1, <1>3, FS_RemoveElement
<1>5. FirstOfThem \in {0, 1} /\ FirstOfThem' \in {0, 1}
  BY DEF FirstOfThem
<1> QED BY <1>2, <1>3, <1>4, <1>5

\* It wrote no history
LEMMA OrderKept ==
    ASSUME OrderInv, NEW d \in Dispatchers, dispatcher[d] # W!Off, W!Ends(d),
           UNCHANGED <<closedWith, clashes>>, order' \in OrderType,
           \/ /\ UNCHANGED history /\ order'.status = order.status
              /\ order'.version = order.version \/ dispatcher[d].pc = "update"
           \/ history' = <<>> /\ order'.status = "deleted"
    PROVE  OrderInv'
<1>1. /\ closedWith \in 0 .. MaxEdits /\ clashes \in 0 .. MaxClashes /\ clashes \in Nat
      /\ Cardinality(Breaks) \in Nat /\ Cardinality(Dispatched) \in Nat
      /\ history \in Seq(W!Steps) /\ Len(history) \in Nat /\ Len(history) <= MaxHistory
      /\ MaxHistory \in Nat
  BY OrderFields
<1>2. /\ dispatcher' \in [Dispatchers -> DispatcherType]
      /\ \A e \in Dispatchers : dispatcher'[e] = IF e = d THEN W!Off ELSE dispatcher[e]
      /\ Dispatched' = Dispatched \ {d} /\ d \in Dispatched
      /\ IsFiniteSet(Dispatched') /\ Cardinality(Dispatched') = Cardinality(Dispatched) - 1
      /\ FirstOfThem \in {0, 1} /\ FirstOfThem' \in {0, 1}
  BY RequestLeaves
<1>3. /\ history' \in Seq(W!Steps) /\ Len(history') <= MaxHistory
      /\ HistoryEnds' /\ Cardinality(Breaks') <= Cardinality(Breaks)
  <2>1. CASE UNCHANGED history /\ order'.status = order.status
    <3>1. Breaks' = Breaks /\ HistoryEnds'
      BY <2>1 DEF OrderInv, HistoryEnds, W!There, Breaks
    <3> QED BY <1>1, <2>1, <3>1
  <2>2. CASE history' = <<>> /\ order'.status = "deleted"
    <3>1. Len(history') = 0 /\ history' \in Seq(W!Steps)
      BY <2>2
    <3>2. Breaks' = {}
      BY <3>1 DEF Breaks
    <3>3. Cardinality(Breaks') = 0
      BY <3>2, FS_EmptySet
    <3> QED BY <1>1, <2>2, <3>1, <3>3 DEF HistoryEnds, W!There, W!Statuses
  <2> QED BY <2>1, <2>2
<1>4. W!TypeOK'
  BY <1>1, <1>2, <1>3, DispatcherTyped DEF W!TypeOK, OrderType
<1>5. BreaksCounted'
  <2>1. Cardinality(Breaks) + Cardinality(Dispatched) <= clashes + FirstOfThem
    BY DEF OrderInv, BreaksCounted
  <2>2. Cardinality(Breaks') \in Nat
    <3>1. Breaks' \subseteq 2 .. Len(history') /\ 2 \in Int /\ Len(history') \in Int
      BY <1>3 DEF Breaks
    <3> QED BY <3>1, FS_Interval, FS_Subset, FS_CardinalityType
  <2>3. Cardinality(Breaks') + Cardinality(Dispatched') <= clashes' + FirstOfThem'
    BY <1>1, <1>2, <1>3, <2>1, <2>2
  <2>4. order'.status = "none" => Dispatched' = {}
    BY <1>2 DEF OrderInv, BreaksCounted
  <2> QED BY <1>2, <2>3, <2>4 DEF BreaksCounted
<1>6. ClosedStaysClosed'
  <2>1. SUFFICES ASSUME clashes = 0 PROVE ClosedStaysClosed'
    BY DEF ClosedStaysClosed
  <2>2. \A e \in Dispatchers : dispatcher'[e].pc = "update" => dispatcher[e].pc = "update"
    BY <1>2 DEF W!Off
  <2>3. CASE UNCHANGED history /\ order'.status = order.status
    <3>1. order.status \in W!Terminal => order'.version = order.version
      BY <2>1, <2>3 DEF OrderInv, ClosedStaysClosed, W!Terminal
    <3> QED BY <2>1, <2>2, <2>3, <3>1 DEF OrderInv, ClosedStaysClosed
  <2>4. CASE history' = <<>> /\ order'.status = "deleted"
    BY <2>4 DEF ClosedStaysClosed, W!Terminal
  <2> QED BY <2>3, <2>4
<1> QED BY <1>2, <1>3, <1>4, <1>5, <1>6 DEF OrderInv

\* A move of an order that is there: the row goes to the end of the history
LEMMA HistoryRow ==
    ASSUME OrderInv, NEW d \in Dispatchers, W!MoveWrite(d), W!There
    PROVE  OrderInv'
<1>1. /\ clashes \in 0 .. MaxClashes /\ clashes \in Nat /\ MaxEdits \in Nat
      /\ Cardinality(Breaks) \in Nat /\ Cardinality(Dispatched) \in Nat /\ IsFiniteSet(Breaks)
      /\ IsFiniteSet(Dispatched)
      /\ history \in Seq(W!Steps) /\ Len(history) \in Nat /\ Len(history) <= MaxHistory
      /\ MaxHistory \in Nat /\ order.version \in 1 .. MaxEdits /\ closedWith \in 0 .. MaxEdits
  BY OrderFields
<1>2. PICK st : st = dispatcher[d].step
  OBVIOUS
<1>3. /\ dispatcher[d].pc = "move" /\ st \in MoveType /\ dispatcher[d] # W!Off
      /\ Len(history) < MaxHistory /\ history' = Append(history, st) /\ W!Ends(d)
      /\ UNCHANGED clashes /\ order'.status = st.to
  BY <1>2, DispatcherFields DEF W!MoveWrite, W!Off
<1>4. order' \in OrderType
  <2>1. PICK version \in {order.version, order.version + 1} :
          version <= MaxEdits /\ order' = [status |-> st.to, version |-> version]
    BY <1>2 DEF W!MoveWrite
  <2>2. version \in 1 .. MaxEdits /\ st.to \in W!Statuses
    BY <1>1, <1>3, <2>1 DEF MoveType
  <2> QED BY <2>1, <2>2 DEF OrderType
<1>5. closedWith' = IF st.to \in W!Terminal THEN order'.version ELSE closedWith
  BY <1>2 DEF W!MoveWrite
<1>6. st \in W!Steps /\ st.to \in W!Statuses /\ st.from \notin W!Terminal
  BY <1>3 DEF MoveType, W!Steps
<1>7. /\ history' \in Seq(W!Steps) /\ Len(history') = Len(history) + 1 /\ history' # <<>>
      /\ \A n \in 1 .. Len(history) : history'[n] = history[n]
      /\ history'[Len(history) + 1] = st
  BY <1>1, <1>3, <1>6, AppendProperties
<1>8. Len(history) > 0 /\ history[Len(history)].to = order.status
  BY <1>1, EmptySeq DEF OrderInv, HistoryEnds
<1>9. /\ dispatcher' \in [Dispatchers -> DispatcherType]
      /\ \A e \in Dispatchers : dispatcher'[e] = IF e = d THEN W!Off ELSE dispatcher[e]
      /\ Dispatched' = Dispatched \ {d} /\ d \in Dispatched
      /\ IsFiniteSet(Dispatched') /\ Cardinality(Dispatched') = Cardinality(Dispatched) - 1
      /\ FirstOfThem \in {0, 1} /\ FirstOfThem' \in {0, 1}
  BY <1>3, RequestLeaves
<1>10. W!TypeOK'
  <2>1. closedWith' \in 0 .. MaxEdits
    BY <1>1, <1>4, <1>5 DEF OrderType
  <2>2. Len(history') <= MaxHistory
    BY <1>1, <1>3, <1>7
  <2> QED BY <1>1, <1>3, <1>4, <1>7, <1>9, <2>1, <2>2, DispatcherTyped DEF W!TypeOK, OrderType
<1>11. HistoryEnds'
  BY <1>3, <1>6, <1>7 DEF HistoryEnds, W!There
<1>12. Cardinality(Breaks) + Cardinality(Dispatched) <= clashes + FirstOfThem
  BY DEF OrderInv, BreaksCounted
<1>13. BreaksCounted'
  <2>1. Breaks' = IF Outdated(d) THEN Breaks \cup {Len(history) + 1} ELSE Breaks
    <3>1. \A n \in 2 .. Len(history) : n \in 1 .. Len(history) /\ n - 1 \in 1 .. Len(history)
      BY <1>1
    <3>2. \A n \in 2 .. Len(history) : n \in Breaks' <=> n \in Breaks
      BY <1>1, <1>7, <3>1 DEF Breaks
    <3>3. Len(history) + 1 \in Breaks' <=> Outdated(d)
      <4>1. Len(history) \in 1 .. Len(history) /\ Len(history) + 1 \in 2 .. Len(history')
            /\ Len(history) + 1 - 1 = Len(history)
        BY <1>1, <1>7, <1>8
      <4> QED BY <1>2, <1>3, <1>7, <1>8, <4>1 DEF Breaks, Outdated
    <3>4. \A n \in Breaks' : n \in 2 .. Len(history) \/ n = Len(history) + 1
      BY <1>1, <1>7 DEF Breaks
    <3>5. \A n \in Breaks : n \in 2 .. Len(history)
      BY DEF Breaks
    <3> QED BY <3>2, <3>3, <3>4, <3>5
  <2>2. CASE Outdated(d)
    <3>1. FirstOfThem = 0
      BY <1>9, <2>2 DEF FirstOfThem
    <3>2. Cardinality(Breaks') \in Nat /\ Cardinality(Breaks') <= Cardinality(Breaks) + 1
      <4> DEFINE more == Breaks \cup {Len(history) + 1}
      <4>1. /\ IsFiniteSet(more)
            /\ Cardinality(more) = Cardinality(Breaks) \/ Cardinality(more) = Cardinality(Breaks) + 1
        BY <1>1, FS_AddElement
      <4>2. Breaks' = more
        BY <2>1, <2>2
      <4> HIDE DEF more
      <4>3. Cardinality(Breaks') = Cardinality(Breaks) \/ Cardinality(Breaks') = Cardinality(Breaks) + 1
        BY <4>1, <4>2
      <4> QED BY <1>1, <4>3
    <3>3. Cardinality(Breaks') + Cardinality(Dispatched') <= clashes' + FirstOfThem'
      BY <1>1, <1>3, <1>9, <1>12, <3>1, <3>2
    <3> QED BY <1>3, <1>6, <1>9, <3>3 DEF BreaksCounted, W!Statuses
  <2>3. CASE ~Outdated(d)
    <3>1. Cardinality(Breaks') + Cardinality(Dispatched') <= clashes' + FirstOfThem'
      BY <1>1, <1>3, <1>9, <1>12, <2>1, <2>3
    <3> QED BY <1>3, <1>6, <1>9, <3>1 DEF BreaksCounted, W!Statuses
  <2> QED BY <2>2, <2>3
<1>14. ClosedStaysClosed'
  <2>1. SUFFICES ASSUME clashes = 0 PROVE ClosedStaysClosed'
    BY <1>3 DEF ClosedStaysClosed
  <2>2. Cardinality(Dispatched') \in Nat
    BY <1>9, FS_CardinalityType
  <2>3. Cardinality(Dispatched') = 0 /\ FirstOfThem = 1
    BY <1>1, <1>9, <1>12, <2>1, <2>2
  <2>4. Dispatched' = {} /\ ~Outdated(d)
    BY <1>9, <2>3, FS_EmptySet DEF FirstOfThem
  <2>5. \A e \in Dispatchers : dispatcher'[e].pc # "update"
    BY <2>4 DEF Dispatched, W!Off
  <2>6. \A n \in 1 .. Len(history') - 1 : history'[n].to \notin W!Terminal
    <3>1. st.from = order.status
      BY <1>2, <1>3, <2>4 DEF Outdated
    <3>2. history[Len(history)].to \notin W!Terminal
      BY <1>6, <1>8, <3>1
    <3>3. \A n \in 1 .. Len(history) - 1 : history[n].to \notin W!Terminal
      BY <2>1 DEF OrderInv, ClosedStaysClosed
    <3>4. \A n \in 1 .. Len(history) : n = Len(history) \/ n \in 1 .. Len(history) - 1
      BY <1>1
    <3>5. Len(history') - 1 = Len(history)
      BY <1>1, <1>7
    <3> QED BY <1>7, <3>2, <3>3, <3>4, <3>5
  <2>7. order'.status \in W!Terminal => closedWith' = order'.version
    BY <1>3, <1>5
  <2> QED BY <2>5, <2>6, <2>7 DEF ClosedStaysClosed
<1> QED BY <1>9, <1>10, <1>11, <1>13, <1>14 DEF OrderInv

LEMMA OrderWritten ==
    ASSUME OrderInv, NEW d \in Dispatchers,
           W!UpdateWrite(d) \/ W!RemoveWrite(d) \/ W!MoveWrite(d) \/ W!Fails(d)
    PROVE  OrderInv'
<1>1. order \in OrderType /\ order.version \in 1 .. MaxEdits /\ MaxEdits \in Nat
  BY OrderFields
<1>2. W!Ends(d) /\ dispatcher[d] # W!Off
  BY DEF W!UpdateWrite, W!RemoveWrite, W!MoveWrite, W!Fails, W!Off
<1>3. CASE W!UpdateWrite(d)
  <2>1. /\ dispatcher[d].pc = "update" /\ UNCHANGED <<history, closedWith, clashes>>
        /\ order' = order \/ (order.version < MaxEdits /\ order' = [order EXCEPT !.version = order.version + 1])
    BY <1>3 DEF W!UpdateWrite
  <2>2. order' \in OrderType /\ order'.status = order.status
    BY <1>1, <2>1 DEF OrderType
  <2> QED BY <1>2, <2>1, <2>2, OrderKept
<1>4. CASE W!RemoveWrite(d)
  <2>1. /\ order' = [order EXCEPT !.status = "deleted"] /\ history' = <<>>
        /\ UNCHANGED <<closedWith, clashes>>
    BY <1>4 DEF W!RemoveWrite
  <2>2. order' \in OrderType /\ order'.status = "deleted"
    BY <1>1, <2>1 DEF OrderType
  <2> QED BY <1>2, <2>1, <2>2, OrderKept
<1>5. CASE W!MoveWrite(d) /\ W!There
  BY <1>5, HistoryRow
<1>6. CASE W!MoveWrite(d) /\ ~W!There
  <2>1. UNCHANGED <<order, history, closedWith, clashes>>
    BY <1>6 DEF W!MoveWrite
  <2> QED BY <1>1, <1>2, <2>1, OrderKept
<1>7. CASE W!Fails(d)
  <2>1. UNCHANGED <<order, history, closedWith, clashes>>
    BY <1>7 DEF W!Fails
  <2> QED BY <1>1, <1>2, <2>1, OrderKept
<1> QED BY <1>3, <1>4, <1>5, <1>6, <1>7

LEMMA OrderInvariant == ServicesSpec => []OrderInv
<1>1. ServicesInit => OrderInv
  BY OrderInit DEF ServicesInit
<1>2. OrderInv /\ UNCHANGED orderRows => OrderInv'
  BY DEF OrderInv, orderRows, W!TypeOK, HistoryEnds, W!There, BreaksCounted, Breaks, Dispatched,
     FirstOfThem, Outdated, ClosedStaysClosed
<1>3. OrderInv /\ W!Next => OrderInv'
  BY OrderCreated, OrderRead, OrderWritten DEF W!Next
<1>4. OrderInv /\ [ServicesNext]_vars => OrderInv'
  BY <1>2, <1>3, OrderMoves
<1> QED BY <1>1, <1>4, PTL DEF ServicesSpec

\* The history ends at the order's status, breaks at most once for each request that began
\* beside another, and while none does, leads out of no closed order.
THEOREM OrderHistoryNeverDrifts == ServicesSpec => []HistoryNeverDrifts
<1>1. ASSUME OrderInv PROVE W!HistoryNeverDrifts
  <2>1. /\ Cardinality(Breaks) \in Nat /\ Cardinality(Dispatched) \in Nat /\ clashes \in Nat
        /\ IsFiniteSet(Dispatched)
    BY <1>1, OrderFields
  <2>2. W!Cardinality(Breaks) = Cardinality(Breaks)
    BY Zenon DEF W!Cardinality, Cardinality
  <2>3. Cardinality(Breaks) <= clashes
    <3>1. Dispatched = {} => FirstOfThem = 0
      BY DEF FirstOfThem
    <3>2. Dispatched # {} => Cardinality(Dispatched) # 0
      BY <2>1, FS_EmptySet
    <3>3. FirstOfThem \in {0, 1}
      BY DEF FirstOfThem
    <3>4. Cardinality(Breaks) + Cardinality(Dispatched) <= clashes + FirstOfThem
      BY <1>1 DEF OrderInv, BreaksCounted
    <3> QED BY <2>1, <3>1, <3>2, <3>3, <3>4
  <2>4. W!Cardinality(Breaks) <= clashes
    BY <2>2, <2>3
  <2>5. HistoryEnds /\ ClosedStaysClosed
    BY <1>1 DEF OrderInv
  <2> QED BY <2>4, <2>5 DEF W!HistoryNeverDrifts, Breaks, HistoryEnds, ClosedStaysClosed
<1>2. OrderInv => HistoryNeverDrifts
  BY <1>1 DEF HistoryNeverDrifts
<1> QED BY <1>2, OrderInvariant, PTL
--------------------------------------------------------------------------------
(* Calls *)

CallStatuses == {"none", "deleted", "logged", "queued", "ringing"} \cup L!Endings
CallRow      == [status : CallStatuses, duration : L!DurationType]
LineStates   == {"none", "placed", "ringing"} \cup L!Endings

\* What the duration of a completed call is without its recording
Lasting == {"call", "edited", "zero", "filled"}

Inserts(s, c)  == server[s].pc = "row" /\ server[s].call = c
Writes(s, c)   == server[s].pc = "activity" /\ server[s].call = c
Tells(s, c, m) == server[s].pc = "callback" /\ server[s].call = c /\ server[s].says = m

Dialing  == {s \in Servers : server[s].pc = "dial"}
Awaiting == {c \in CallIds : \E s \in Servers : Inserts(s, c)}

\* A call placed within the minute has a row in it, or its row is missing or on the way; and
\* every dial that has been let through may yet place one
DialsCounted ==
    /\ IsFiniteSet(minute) /\ IsFiniteSet(placed) /\ IsFiniteSet(unseen) /\ IsFiniteSet(Dialing)
    /\ placed \subseteq minute \cup unseen \cup Awaiting
    /\ Cardinality(placed) + Cardinality(Dialing) <= MaxDials + beside + Cardinality(unseen)

\* The row of a placed call is inserted once, into nothing
InsertsOnce(c) ==
    /\ \A s \in Servers : Inserts(s, c) => line[c] # "none" /\ row[c].status = "none"
    /\ \A s, t \in Servers : Inserts(s, c) /\ Inserts(t, c) => s = t

\* The message is on its way, or a request is dealing with it
Under(c, m) == <<c, m>> \in wire \/ \E s \in Servers : Tells(s, c, m)

\* Twilio tells what happened
TellsTrue(c) ==
    /\ \A m \in L!Endings : Under(c, m) => line[c] = m
    /\ Under(c, "recording") => line[c] = "completed"
    /\ Under(c, "ringing") => line[c] \in {"ringing"} \cup L!Endings

EndIsTold(c) == <<c, line[c]>> \notin wire /\ \A s \in Servers : ~Tells(s, c, line[c])

\* As long as no callback of the call failed, found no row or came out of turn: what the row
\* has been told, in the order in which it happened
InTurn(c) ==
    c \notin astray =>
        /\ Under(c, "ringing") /\ line[c] \in L!Endings => <<c, line[c]>> \in wire
        /\ row[c].duration # "recording"
        /\ \A s \in Servers : Tells(s, c, "recording") => server[s].duration \in Lasting
        /\ L!There(c) /\ line[c] \in L!Endings /\ EndIsTold(c) =>
             /\ row[c].status = line[c]
             /\ line[c] = "completed" => row[c].duration \in Lasting
        /\ \A s \in Servers : Inserts(s, c) =>
             /\ \A t \in Servers, m \in L!Messages : ~Tells(t, c, m)
             /\ line[c] \in {"ringing"} \cup L!Endings => <<c, "ringing">> \in wire
             /\ line[c] \in L!Endings => <<c, line[c]>> \in wire

\* An entry of the timeline is there, on its way, or lost; and it is of a call that is over
Traced(c) ==
    /\ row[c].status \in {"logged", "completed"} =>
         timeline[c] > 0 \/ (\E s \in Servers : Writes(s, c)) \/ c \in unwritten
    /\ timeline[c] > 0 \/ (\E s \in Servers : Writes(s, c)) =>
         line[c] = "completed" \/ (line[c] = "none" /\ row[c].status # "none")

\* What may yet make an entry: a request, a message, or a call that is not over
Completing(c)   == {s \in Servers : Writes(s, c) \/ Tells(s, c, "completed")}
EndOnTheWire(c) == IF <<c, "completed">> \in wire THEN 1 ELSE 0
NotOver(c)      ==
    IF line[c] \in {"placed", "ringing"} \/ (line[c] = "none" /\ row[c].status = "none")
      THEN 1 ELSE 0

EntriesCounted(c) ==
    /\ IsFiniteSet(Completing(c))
    /\ timeline[c] + Cardinality(Completing(c)) + EndOnTheWire(c) + NotOver(c) <= 1 + mishaps

OfCall(c) == InsertsOnce(c) /\ TellsTrue(c) /\ InTurn(c) /\ Traced(c) /\ EntriesCounted(c)

CallInv == L!TypeOK /\ DialsCounted /\ \A c \in CallIds : OfCall(c)

LEMMA CallFields ==
    ASSUME L!TypeOK
    PROVE  /\ MaxDials \in Nat /\ MaxBeside \in Nat /\ MaxMishaps \in Nat
           /\ row \in [CallIds -> CallRow] /\ line \in [CallIds -> LineStates]
           /\ \A c \in CallIds : /\ row[c].status \in CallStatuses
                                 /\ row[c].duration \in L!DurationType
                                 /\ line[c] \in LineStates /\ timeline[c] \in Nat
           /\ wire \subseteq CallIds \X L!Messages /\ server \in [Servers -> L!ServerType]
           /\ timeline \in [CallIds -> Nat]
           /\ minute \subseteq CallIds /\ placed \subseteq CallIds /\ unseen \subseteq CallIds
           /\ astray \subseteq CallIds /\ unwritten \subseteq CallIds
           /\ beside \in 0 .. MaxBeside /\ beside \in Nat
           /\ mishaps \in 0 .. MaxMishaps /\ mishaps \in Nat
<1>1. MaxDials \in Nat /\ MaxBeside \in Nat /\ MaxMishaps \in Nat
  BY ServicesBounds
<1>2. row \in [CallIds -> CallRow] /\ line \in [CallIds -> LineStates]
  BY DEF L!TypeOK, CallRow, LineStates, CallStatuses
<1>3. \A c \in CallIds : row[c] \in CallRow
  BY <1>2
<1>4. \A c \in CallIds : row[c].status \in CallStatuses /\ row[c].duration \in L!DurationType
  BY <1>3 DEF CallRow
<1>5. /\ wire \subseteq CallIds \X L!Messages /\ server \in [Servers -> L!ServerType]
      /\ timeline \in [CallIds -> Nat]
      /\ beside \in 0 .. MaxBeside /\ mishaps \in 0 .. MaxMishaps
  BY DEF L!TypeOK
<1>6. /\ minute \subseteq CallIds /\ placed \subseteq CallIds /\ unseen \subseteq CallIds
      /\ astray \subseteq CallIds /\ unwritten \subseteq CallIds
  BY DEF L!TypeOK
<1>7. beside \in Nat /\ mishaps \in Nat
  BY <1>1, <1>5
<1>8. \A c \in CallIds : line[c] \in LineStates /\ timeline[c] \in Nat
  BY <1>2, <1>5
<1> QED BY <1>1, <1>2, <1>4, <1>5, <1>6, <1>7, <1>8

LEMMA ServerFields ==
    ASSUME NEW r \in L!ServerType
    PROVE  /\ r.pc \in {"idle", "dial", "row", "activity", "callback"}
           /\ r.pc = "idle" <=> r = L!Waiting
           /\ r.pc \in {"row", "activity", "callback"} => r.call \in CallIds
           /\ r.pc = "callback" => r.says \in L!Messages /\ r.duration \in L!DurationType
<1>1. CASE r \in [pc : {"idle", "dial"}]
  BY <1>1 DEF L!Waiting
<1>2. CASE r \in [pc : {"row", "activity"}, call : CallIds]
  BY <1>2 DEF L!Waiting
<1>3. CASE r \in [pc : {"callback"}, call : CallIds, says : L!Messages, duration : L!DurationType]
  BY <1>3 DEF L!Waiting
<1> QED BY <1>1, <1>2, <1>3 DEF L!ServerType

LEMMA ServerTypes ==
    /\ L!Waiting \in L!ServerType /\ [pc |-> "dial"] \in L!ServerType
    /\ \A c \in CallIds : /\ [pc |-> "row", call |-> c] \in L!ServerType
                          /\ [pc |-> "activity", call |-> c] \in L!ServerType
    /\ \A c \in CallIds, m \in L!Messages, d \in L!DurationType :
         [pc |-> "callback", call |-> c, says |-> m, duration |-> d] \in L!ServerType
BY DEF L!ServerType, L!Waiting

LEMMA CallInit == L!Init => CallInv
<1> SUFFICES ASSUME L!Init PROVE CallInv
  OBVIOUS
<1>1. MaxDials \in Nat /\ MaxBeside \in Nat /\ MaxMishaps \in Nat
  BY ServicesBounds
<1>2. /\ row = [c \in CallIds |-> L!NoRow] /\ line = [c \in CallIds |-> "none"]
      /\ wire = {} /\ minute = {} /\ placed = {} /\ server = [s \in Servers |-> L!Waiting]
      /\ timeline = [c \in CallIds |-> 0] /\ unseen = {} /\ astray = {} /\ unwritten = {}
      /\ beside = 0 /\ mishaps = 0
  BY DEF L!Init
<1>3. L!TypeOK
  <2>1. row \in [CallIds -> CallRow] /\ line \in [CallIds -> LineStates]
    BY <1>2 DEF CallRow, CallStatuses, LineStates, L!NoRow, L!DurationType
  <2>2. server \in [Servers -> L!ServerType] /\ timeline \in [CallIds -> Nat]
    BY <1>2, ServerTypes
  <2>3. beside \in 0 .. MaxBeside /\ mishaps \in 0 .. MaxMishaps
    BY <1>1, <1>2
  <2> QED BY <1>2, <2>1, <2>2, <2>3 DEF L!TypeOK, CallRow, CallStatuses, LineStates
<1>4. \A s \in Servers : server[s].pc = "idle"
  BY <1>2 DEF L!Waiting
<1>5. IsFiniteSet({}) /\ Cardinality({}) = 0
  BY FS_EmptySet
<1>6. DialsCounted
  <2>1. Dialing = {}
    BY <1>4 DEF Dialing
  <2> QED BY <1>1, <1>2, <1>5, <2>1 DEF DialsCounted
<1>7. ASSUME NEW c \in CallIds PROVE OfCall(c)
  <2>1. row[c] = L!NoRow /\ row[c].status = "none" /\ row[c].duration # "recording"
        /\ line[c] = "none" /\ timeline[c] = 0
    BY <1>2 DEF L!NoRow
  <2>2. \A s \in Servers : ~Inserts(s, c) /\ ~Writes(s, c) /\ \A m : ~Tells(s, c, m)
    BY <1>4 DEF Inserts, Writes, Tells
  <2>3. \A m : ~Under(c, m)
    BY <1>2, <2>2 DEF Under
  <2>4. InsertsOnce(c) /\ TellsTrue(c) /\ InTurn(c) /\ Traced(c)
    BY <2>1, <2>2, <2>3 DEF InsertsOnce, TellsTrue, InTurn, Traced, L!Endings
  <2>5. EntriesCounted(c)
    <3>1. Completing(c) = {} /\ EndOnTheWire(c) = 0 /\ NotOver(c) = 1
      BY <1>2, <2>1, <2>2 DEF Completing, EndOnTheWire, NotOver
    <3> QED BY <1>2, <1>5, <2>1, <3>1 DEF EntriesCounted
  <2> QED BY <2>4, <2>5 DEF OfCall
<1> QED BY <1>3, <1>6, <1>7 DEF CallInv

\* Nothing that is about this call changes
SameCall(c) ==
    /\ row'[c] = row[c] /\ line'[c] = line[c] /\ timeline'[c] = timeline[c]
    /\ \A m \in L!Messages : <<c, m>> \in wire' <=> <<c, m>> \in wire
    /\ \A s \in Servers :
         /\ Inserts(s, c)' <=> Inserts(s, c)
         /\ Writes(s, c)' <=> Writes(s, c)
         /\ \A m \in L!Messages : Tells(s, c, m)' <=> Tells(s, c, m)
         /\ Tells(s, c, "recording") => server'[s].duration = server[s].duration
    /\ astray \subseteq astray' /\ unwritten \subseteq unwritten'
    /\ mishaps' \in Nat /\ mishaps <= mishaps'

LEMMA OtherCallStays ==
    ASSUME L!TypeOK, NEW c \in CallIds, OfCall(c), SameCall(c)
    PROVE  OfCall(c)'
<1>1. /\ row'[c] = row[c] /\ line'[c] = line[c] /\ timeline'[c] = timeline[c]
      /\ \A m \in L!Messages : <<c, m>> \in wire' <=> <<c, m>> \in wire
      /\ \A s \in Servers :
           /\ Inserts(s, c)' <=> Inserts(s, c)
           /\ Writes(s, c)' <=> Writes(s, c)
           /\ \A m \in L!Messages : Tells(s, c, m)' <=> Tells(s, c, m)
           /\ Tells(s, c, "recording") => server'[s].duration = server[s].duration
  BY DEF SameCall
<1>2. L!Endings \subseteq L!Messages /\ {"ringing", "recording", "completed"} \subseteq L!Messages
  BY DEF L!Endings, L!Messages
<1>3. \A m \in L!Messages : Under(c, m)' <=> Under(c, m)
  BY <1>1 DEF Under
<1>4. InsertsOnce(c)'
  BY <1>1 DEF OfCall, InsertsOnce
<1>5. TellsTrue(c)'
  BY <1>1, <1>2, <1>3 DEF OfCall, TellsTrue
<1>6. InTurn(c)'
  <2>1. SUFFICES ASSUME c \notin astray' PROVE InTurn(c)'
    BY DEF InTurn
  <2>2. c \notin astray /\ InTurn(c)
    BY <2>1 DEF SameCall, OfCall
  <2>3. line[c] \in L!Endings => (EndIsTold(c)' <=> EndIsTold(c))
    BY <1>1, <1>2 DEF EndIsTold
  <2>4. L!There(c)' <=> L!There(c)
    BY <1>1 DEF L!There
  <2>5. Under(c, "ringing")' /\ line'[c] \in L!Endings => <<c, line'[c]>> \in wire'
    BY <1>1, <1>2, <1>3, <2>2 DEF InTurn
  <2>6. /\ row'[c].duration # "recording"
        /\ \A s \in Servers : Tells(s, c, "recording")' => server'[s].duration \in Lasting
    BY <1>1, <1>2, <2>2 DEF InTurn
  <2>7. L!There(c)' /\ line'[c] \in L!Endings /\ EndIsTold(c)' =>
             /\ row'[c].status = line'[c]
             /\ line'[c] = "completed" => row'[c].duration \in Lasting
    BY <1>1, <2>2, <2>3, <2>4 DEF InTurn
  <2>8. \A s \in Servers : Inserts(s, c)' =>
             /\ \A t \in Servers, m \in L!Messages : ~Tells(t, c, m)'
             /\ line'[c] \in {"ringing"} \cup L!Endings => <<c, "ringing">> \in wire'
             /\ line'[c] \in L!Endings => <<c, line'[c]>> \in wire'
    BY <1>1, <1>2, <2>2 DEF InTurn
  <2> QED BY <2>5, <2>6, <2>7, <2>8 DEF InTurn
<1>7. Traced(c)'
  BY <1>1 DEF OfCall, Traced, SameCall
<1>8. EntriesCounted(c)'
  <2>1. Completing(c)' = Completing(c) /\ EndOnTheWire(c)' = EndOnTheWire(c)
        /\ NotOver(c)' = NotOver(c)
    BY <1>1, <1>2 DEF Completing, EndOnTheWire, NotOver
  <2>2. /\ IsFiniteSet(Completing(c)) /\ Cardinality(Completing(c)) \in Nat
        /\ timeline[c] + Cardinality(Completing(c)) + EndOnTheWire(c) + NotOver(c) <= 1 + mishaps
    BY FS_CardinalityType DEF OfCall, EntriesCounted
  <2>3. /\ timeline[c] \in Nat /\ EndOnTheWire(c) \in Nat /\ NotOver(c) \in Nat
        /\ mishaps \in Nat /\ mishaps' \in Nat /\ mishaps <= mishaps'
    BY CallFields DEF EndOnTheWire, NotOver, SameCall
  <2> QED BY <1>1, <2>1, <2>2, <2>3 DEF EntriesCounted
<1> QED BY <1>4, <1>5, <1>6, <1>7, <1>8 DEF OfCall

LEMMA OneServerMoves ==
    ASSUME L!TypeOK, NEW s \in Servers, NEW r \in L!ServerType, L!Goes(s, r)
    PROVE  /\ server' \in [Servers -> L!ServerType]
           /\ \A t \in Servers : server'[t] = IF t = s THEN r ELSE server[t]
BY CallFields DEF L!Goes

\* A request that is not about this call, neither before nor after it moves
LEMMA AboutAnother ==
    ASSUME L!TypeOK, NEW c \in CallIds, NEW s \in Servers, NEW r \in L!ServerType, L!Goes(s, r),
           server[s].pc \in {"row", "activity", "callback"} => server[s].call # c,
           r.pc \in {"row", "activity", "callback"} => r.call # c,
           row'[c] = row[c], line'[c] = line[c], timeline'[c] = timeline[c],
           \A m \in L!Messages : <<c, m>> \in wire' <=> <<c, m>> \in wire,
           astray \subseteq astray', unwritten \subseteq unwritten', mishaps' \in Nat,
           mishaps <= mishaps'
    PROVE  SameCall(c)
<1>1. \A t \in Servers : server'[t] = IF t = s THEN r ELSE server[t]
  BY OneServerMoves
<1>2. \A t \in Servers :
        /\ Inserts(t, c)' <=> Inserts(t, c)
        /\ Writes(t, c)' <=> Writes(t, c)
        /\ \A m \in L!Messages : Tells(t, c, m)' <=> Tells(t, c, m)
        /\ Tells(t, c, "recording") => server'[t].duration = server[t].duration
  BY <1>1 DEF Inserts, Writes, Tells
<1> QED BY <1>2 DEF SameCall

LEMMA EntriesStay ==
    ASSUME L!TypeOK, NEW c \in CallIds, EntriesCounted(c),
           Completing(c)' \subseteq Completing(c), timeline'[c] = timeline[c],
           EndOnTheWire(c)' = 1 => EndOnTheWire(c) = 1,
           NotOver(c)' = 1 => NotOver(c) = 1,
           mishaps' \in Nat, mishaps <= mishaps'
    PROVE  EntriesCounted(c)'
<1>1. /\ IsFiniteSet(Completing(c)) /\ Cardinality(Completing(c)) \in Nat
      /\ timeline[c] + Cardinality(Completing(c)) + EndOnTheWire(c) + NotOver(c) <= 1 + mishaps
  BY FS_CardinalityType DEF EntriesCounted
<1>2. /\ IsFiniteSet(Completing(c)') /\ Cardinality(Completing(c)') \in Nat
      /\ Cardinality(Completing(c)') <= Cardinality(Completing(c))
  BY <1>1, FS_Subset, FS_CardinalityType
<1>3. /\ EndOnTheWire(c) \in {0, 1} /\ EndOnTheWire(c)' \in {0, 1}
      /\ NotOver(c) \in {0, 1} /\ NotOver(c)' \in {0, 1}
  BY DEF EndOnTheWire, NotOver
<1>4. timeline[c] \in Nat /\ mishaps \in Nat
  BY CallFields
<1> QED BY <1>1, <1>2, <1>3, <1>4 DEF EntriesCounted

\* Somebody corrects or deletes the row
LEMMA RowEdited ==
    ASSUME CallInv, NEW d \in CallIds, L!Update(d) \/ L!Remove(d), NEW c \in CallIds
    PROVE  OfCall(c)'
<1>1. /\ L!TypeOK /\ OfCall(c) /\ mishaps \in Nat /\ row \in [CallIds -> CallRow]
      /\ UNCHANGED <<line, wire, server, timeline, astray, unwritten>> /\ L!There(d)
  BY CallFields DEF CallInv, L!Update, L!Remove
<1>2. mishaps' \in Nat /\ mishaps <= mishaps'
  BY <1>1 DEF L!Update, L!Remove
<1>3. CASE c # d
  <2>1. row'[c] = row[c]
    BY <1>1, <1>3 DEF L!Update, L!Remove
  <2>2. SameCall(c)
    BY <1>1, <1>2, <2>1 DEF SameCall, Inserts, Writes, Tells
  <2> QED BY <1>1, <2>2, OtherCallStays
<1>4. CASE c = d
  <2>1. row[c].status \notin {"none", "deleted"}
    BY <1>1, <1>4 DEF L!There
  <2>2. \/ /\ row'[c].status = row[c].status
           /\ row'[c].duration = "edited" \/ row'[c].duration = L!Zeroed(c)
        \/ row'[c].status = "deleted" /\ row'[c].duration = "none"
    <3>1. CASE L!Update(d)
      BY <1>1, <1>4, <3>1 DEF L!Update, CallRow
    <3>2. CASE L!Remove(d)
      BY <1>1, <1>4, <3>2 DEF L!Remove
    <3> QED BY <3>1, <3>2
  <2>3. \A s \in Servers : ~Inserts(s, c) /\ ~Inserts(s, c)'
    BY <1>1, <2>1 DEF OfCall, InsertsOnce, Inserts
  <2>4. InsertsOnce(c)'
    BY <2>3 DEF InsertsOnce
  <2>5. TellsTrue(c)'
    BY <1>1 DEF OfCall, TellsTrue, Under, Tells
  <2>6. InTurn(c)'
    <3>1. EndIsTold(c)' <=> EndIsTold(c)
      BY <1>1 DEF EndIsTold, Tells
    <3>2. /\ L!There(c)' => row'[c].status = row[c].status /\ L!There(c)
          /\ L!There(c)' /\ row[c].status = "completed" => row'[c].duration \in Lasting
          /\ row'[c].duration # "recording"
      BY <2>1, <2>2 DEF L!There, L!Zeroed, Lasting
    <3> QED BY <1>1, <2>3, <3>1, <3>2 DEF OfCall, InTurn, Under, Tells
  <2>7. Traced(c)'
    BY <1>1, <2>1, <2>2 DEF OfCall, Traced, Writes
  <2>8. EntriesCounted(c)'
    <3>1. /\ Completing(c)' = Completing(c) /\ EndOnTheWire(c)' = EndOnTheWire(c)
          /\ NotOver(c)' = NotOver(c)
      BY <1>1, <2>1, <2>2 DEF Completing, Writes, Tells, EndOnTheWire, NotOver
    <3> QED BY <1>1, <1>2, <3>1, EntriesStay DEF OfCall
  <2> QED BY <2>4, <2>5, <2>6, <2>7, <2>8 DEF OfCall
<1> QED BY <1>3, <1>4

\* Nothing is told of a call that has not rung, and no entry made of one that is not over
LEMMA NotYetTold ==
    ASSUME NEW c \in CallIds, OfCall(c)
    PROVE  /\ line[c] \in {"none", "placed"} => \A m \in L!Messages : ~Under(c, m)
           /\ line[c] = "ringing" => \A m \in L!Messages : Under(c, m) => m = "ringing"
           /\ line[c] \in {"placed", "ringing"} \/ (line[c] = "none" /\ row[c].status = "none") =>
                ~(timeline[c] > 0) /\ \A s \in Servers : ~Writes(s, c)
<1>1. /\ "none" \notin L!Endings /\ "placed" \notin L!Endings /\ "ringing" \notin L!Endings
      /\ L!Messages = L!Endings \cup {"ringing", "recording"}
  BY DEF L!Endings, L!Messages
<1>2. TellsTrue(c) /\ Traced(c)
  BY DEF OfCall
<1>3. line[c] \in {"none", "placed"} => \A m \in L!Messages : ~Under(c, m)
  BY <1>1, <1>2 DEF TellsTrue
<1>4. line[c] = "ringing" => \A m \in L!Messages : Under(c, m) => m = "ringing"
  BY <1>1, <1>2 DEF TellsTrue
<1>5. line[c] \in {"placed", "ringing"} \/ (line[c] = "none" /\ row[c].status = "none") =>
                ~(timeline[c] > 0) /\ \A s \in Servers : ~Writes(s, c)
  BY <1>2 DEF Traced
<1> QED BY <1>3, <1>4, <1>5

LEMMA TwilioMoves ==
    ASSUME CallInv, NEW d \in CallIds, L!Rings(d) \/ L!HangsUp(d), NEW c \in CallIds
    PROVE  OfCall(c)'
<1>1. /\ L!TypeOK /\ OfCall(c) /\ mishaps \in Nat /\ line \in [CallIds -> LineStates]
      /\ UNCHANGED <<row, server, timeline, astray, unwritten, mishaps>>
  BY CallFields DEF CallInv, L!Rings, L!HangsUp
<1>2. CASE c # d
  <2>1. line'[c] = line[c] /\ \A m \in L!Messages : <<c, m>> \in wire' <=> <<c, m>> \in wire
    BY <1>1, <1>2 DEF L!Rings, L!HangsUp
  <2>2. SameCall(c)
    BY <1>1, <2>1 DEF SameCall, Inserts, Writes, Tells
  <2> QED BY <1>1, <2>2, OtherCallStays
<1>3. CASE c = d
  <2>1. /\ line[c] \in {"placed", "ringing"} /\ ~(timeline[c] > 0)
        /\ \A s \in Servers : ~Writes(s, c)
    BY <1>1, <1>3, NotYetTold DEF L!Rings, L!HangsUp
  <2>2. /\ \A s \in Servers : Inserts(s, c)' <=> Inserts(s, c)
        /\ \A s \in Servers : Writes(s, c)' <=> Writes(s, c)
        /\ \A s \in Servers, m \in L!Messages : Tells(s, c, m)' <=> Tells(s, c, m)
    BY <1>1 DEF Inserts, Writes, Tells
  <2>3. L!Endings = {"completed", "busy"}
        /\ L!Messages = {"completed", "busy", "ringing", "recording"}
    BY DEF L!Endings, L!Messages
  <2>4. line'[c] # "none" /\ line'[c] # "placed"
    BY <1>1, <1>3, <2>3 DEF L!Rings, L!HangsUp
  <2>5. InsertsOnce(c)'
    BY <1>1, <2>2, <2>4 DEF OfCall, InsertsOnce
  <2>6. Traced(c)'
    BY <1>1, <2>1, <2>2 DEF OfCall, Traced
  <2>7. Completing(c)' = Completing(c)
    BY <2>2, <2>3 DEF Completing
  <2>8. CASE L!Rings(d)
    <3>1. /\ line[c] = "placed" /\ line'[c] = "ringing" /\ wire' = wire \cup {<<c, "ringing">>}
      BY <1>1, <1>3, <2>8 DEF L!Rings
    <3>2. \A m \in L!Messages : ~Under(c, m)
      BY <1>1, <3>1, NotYetTold
    <3>3. \A m \in L!Messages : Under(c, m)' => m = "ringing"
      BY <2>2, <3>1, <3>2 DEF Under
    <3>4. TellsTrue(c)'
      BY <2>3, <3>1, <3>3 DEF TellsTrue
    <3>5. \A s \in Servers, m \in L!Messages : ~Tells(s, c, m)'
      BY <2>2, <3>2 DEF Under
    <3>6. InTurn(c)'
      BY <1>1, <2>3, <3>1, <3>5 DEF OfCall, InTurn
    <3>7. EntriesCounted(c)'
      <4>1. EndOnTheWire(c)' = EndOnTheWire(c) /\ NotOver(c) = 1
        BY <3>1 DEF EndOnTheWire, NotOver
      <4> QED BY <1>1, <2>7, <4>1, EntriesStay DEF OfCall
    <3> QED BY <2>5, <2>6, <3>4, <3>6, <3>7 DEF OfCall
  <2>9. CASE L!HangsUp(d)
    <3>1. PICK how \in L!Endings :
            /\ line[c] = "ringing" /\ line'[c] = how
            /\ wire' = wire \cup {<<c, how>>}
                            \cup (IF how = "completed" THEN {<<c, "recording">>} ELSE {})
      BY <1>1, <1>3, <2>9 DEF L!HangsUp
    <3>2. \A m \in L!Messages : Under(c, m) => m = "ringing"
      BY <1>1, <3>1, NotYetTold
    <3>3. \A m \in L!Messages : Under(c, m)' =>
            m \in {"ringing", how} \/ (m = "recording" /\ how = "completed")
      BY <2>2, <3>1, <3>2 DEF Under
    <3>4. TellsTrue(c)'
      BY <2>3, <3>1, <3>3 DEF TellsTrue
    <3>5. \A s \in Servers : ~Tells(s, c, "recording")'
      BY <2>2, <2>3, <3>2 DEF Under
    <3>6. <<c, line'[c]>> \in wire' /\ ~EndIsTold(c)'
      BY <3>1 DEF EndIsTold
    <3>7. InTurn(c)'
      <4>1. c \notin astray => \A s \in Servers : Inserts(s, c) =>
              /\ \A t \in Servers, m \in L!Messages : ~Tells(t, c, m)
              /\ <<c, "ringing">> \in wire
        BY <1>1, <3>1 DEF OfCall, InTurn
      <4>2. <<c, "ringing">> \in wire => <<c, "ringing">> \in wire'
        BY <3>1
      <4>3. c \notin astray => row'[c].duration # "recording"
        BY <1>1 DEF OfCall, InTurn
      <4> QED BY <1>1, <2>2, <3>5, <3>6, <4>1, <4>2, <4>3 DEF InTurn
    <3>8. EntriesCounted(c)'
      <4>1. EndOnTheWire(c) = 0 /\ NotOver(c) = 1 /\ NotOver(c)' = 0 /\ EndOnTheWire(c)' \in {0, 1}
        BY <2>3, <3>1, <3>2 DEF EndOnTheWire, NotOver, Under
      <4>2. /\ IsFiniteSet(Completing(c)) /\ Cardinality(Completing(c)) \in Nat
            /\ timeline[c] + Cardinality(Completing(c)) + EndOnTheWire(c) + NotOver(c) <= 1 + mishaps
        BY <1>1, FS_CardinalityType DEF OfCall, EntriesCounted
      <4>3. timeline[c] \in Nat
        BY <1>1, CallFields
      <4> QED BY <1>1, <2>7, <4>1, <4>2, <4>3 DEF EntriesCounted
    <3> QED BY <2>5, <2>6, <3>4, <3>7, <3>8 DEF OfCall
  <2> QED BY <1>1, <2>8, <2>9
<1> QED BY <1>2, <1>3

\* A dial is let through, places its call, inserts its row; or somebody logs a call
LEMMA DialMoves ==
    ASSUME CallInv, NEW s \in Servers,
           L!DialCount(s) \/ (\E d \in CallIds : L!DialPlace(s, d)) \/ L!DialRow(s),
           NEW c \in CallIds
    PROVE  OfCall(c)'
<1>1. /\ L!TypeOK /\ OfCall(c) /\ mishaps \in Nat /\ row \in [CallIds -> CallRow]
      /\ line \in [CallIds -> LineStates] /\ server[s] \in L!ServerType
      /\ UNCHANGED <<wire, timeline, astray, unwritten, mishaps>>
  BY CallFields DEF CallInv, L!DialCount, L!DialPlace, L!DialRow
<1>2. /\ L!Waiting.pc = "idle"
      /\ L!Endings = {"completed", "busy"}
      /\ L!Messages = {"completed", "busy", "ringing", "recording"}
  BY DEF L!Waiting, L!Endings, L!Messages
<1>3. CASE L!DialCount(s)
  <2>1. /\ L!Goes(s, [pc |-> "dial"]) /\ server[s] = L!Waiting /\ UNCHANGED <<row, line>>
    BY <1>3 DEF L!DialCount, L!Begins
  <2>2. SameCall(c)
    BY <1>1, <1>2, <2>1, ServerTypes, AboutAnother
  <2> QED BY <1>1, <2>2, OtherCallStays
<1>4. ASSUME NEW d \in CallIds, L!DialPlace(s, d) PROVE OfCall(c)'
  <2>1. /\ server[s].pc = "dial" /\ line[d] = "none" /\ row[d].status = "none"
        /\ line' = [line EXCEPT ![d] = "placed"] /\ L!Goes(s, [pc |-> "row", call |-> d])
        /\ UNCHANGED row
    BY <1>4 DEF L!DialPlace
  <2>a. PICK r \in L!ServerType : r.pc = "row" /\ r.call = d /\ L!Goes(s, r)
    BY <2>1, ServerTypes
  <2>2. CASE c # d
    <3>1. line'[c] = line[c] /\ row'[c] = row[c]
      BY <1>1, <2>1, <2>2
    <3>2. SameCall(c)
      BY <1>1, <2>1, <2>2, <2>a, <3>1, AboutAnother
    <3> QED BY <1>1, <3>2, OtherCallStays
  <2>3. CASE c = d
    <3>1. /\ \A m \in L!Messages : ~Under(c, m)
          /\ ~(timeline[c] > 0) /\ \A t \in Servers : ~Writes(t, c)
      BY <1>1, <2>1, <2>3, NotYetTold
    <3>2. \A t \in Servers : server'[t] = IF t = s THEN r ELSE server[t]
      BY <1>1, <2>a, OneServerMoves
    <3>3. /\ \A t \in Servers : Inserts(t, c)' => t = s \/ Inserts(t, c)
          /\ \A t \in Servers : ~Writes(t, c)'
          /\ \A t \in Servers, m \in L!Messages : ~Tells(t, c, m)'
      BY <2>a, <3>1, <3>2 DEF Inserts, Writes, Tells, Under
    <3>4. \A t \in Servers : ~Inserts(t, c)
      BY <1>1, <2>1, <2>3 DEF OfCall, InsertsOnce
    <3>5. line'[c] = "placed" /\ row'[c].status = "none" /\ row'[c] = row[c]
      BY <1>1, <2>1, <2>3
    <3>6. InsertsOnce(c)'
      BY <3>3, <3>4, <3>5 DEF InsertsOnce
    <3>7. \A m \in L!Messages : ~Under(c, m)'
      BY <1>1, <3>1, <3>3 DEF Under
    <3>8. TellsTrue(c)' /\ InTurn(c)'
      BY <1>1, <1>2, <3>3, <3>5, <3>7 DEF TellsTrue, InTurn, OfCall
    <3>9. Traced(c)'
      BY <1>1, <3>1, <3>3, <3>5 DEF Traced
    <3>10. EntriesCounted(c)'
      <4>1. Completing(c)' = {} /\ EndOnTheWire(c)' = EndOnTheWire(c) /\ NotOver(c) = 1
        BY <1>1, <1>2, <2>1, <2>3, <3>3 DEF Completing, EndOnTheWire, NotOver
      <4> QED BY <1>1, <4>1, EntriesStay DEF OfCall
    <3> QED BY <3>6, <3>8, <3>9, <3>10 DEF OfCall
  <2> QED BY <2>2, <2>3
<1>5. CASE L!DialRow(s)
  <2>1. PICK d \in CallIds : d = server[s].call
    BY <1>1, <1>5, ServerFields DEF L!DialRow
  <2>2. /\ server[s].pc = "row" /\ row' = [row EXCEPT ![d].status = "queued"]
        /\ L!Goes(s, L!Waiting) /\ UNCHANGED line
    BY <1>5, <2>1 DEF L!DialRow, L!Returns
  <2>3. CASE c # d
    <3>1. row'[c] = row[c]
      BY <1>1, <2>2, <2>3
    <3>2. SameCall(c)
      BY <1>1, <1>2, <2>1, <2>2, <2>3, <3>1, ServerTypes, AboutAnother
    <3> QED BY <1>1, <3>2, OtherCallStays
  <2>4. CASE c = d
    <3>1. Inserts(s, c) /\ line[c] # "none" /\ \A t \in Servers : Inserts(t, c) => t = s
      BY <1>1, <2>1, <2>2, <2>4 DEF Inserts, OfCall, InsertsOnce
    <3>2. \A t \in Servers : server'[t] = IF t = s THEN L!Waiting ELSE server[t]
      BY <1>1, <2>2, ServerTypes, OneServerMoves
    <3>3. /\ \A t \in Servers : ~Inserts(t, c)'
          /\ \A t \in Servers : Writes(t, c)' <=> Writes(t, c)
          /\ \A t \in Servers, m \in L!Messages : /\ Tells(t, c, m)' <=> Tells(t, c, m)
                                                  /\ Tells(t, c, m) => server'[t] = server[t]
      BY <1>2, <2>2, <3>1, <3>2 DEF Inserts, Writes, Tells
    <3>4. row'[c].status = "queued" /\ row'[c].duration = row[c].duration
      <4>1. row[c] \in CallRow
        BY <1>1
      <4> QED BY <1>1, <2>2, <2>4, <4>1 DEF CallRow
    <3>5. InsertsOnce(c)'
      BY <3>3 DEF InsertsOnce
    <3>6. \A m \in L!Messages : Under(c, m)' <=> Under(c, m)
      BY <1>1, <3>3 DEF Under
    <3>7. TellsTrue(c)'
      BY <1>1, <1>2, <2>2, <3>6 DEF OfCall, TellsTrue
    <3>8. InTurn(c)'
      <4>1. c \notin astray => /\ Under(c, "ringing") /\ line[c] \in L!Endings => <<c, line[c]>> \in wire
                               /\ \A t \in Servers : Tells(t, c, "recording") => server[t].duration \in Lasting
                               /\ line[c] \in L!Endings => <<c, line[c]>> \in wire
                               /\ row[c].duration # "recording"
        BY <1>1, <3>1 DEF OfCall, InTurn
      <4>2. line[c] \in L!Endings /\ <<c, line[c]>> \in wire => ~EndIsTold(c)'
        BY <1>1, <2>2 DEF EndIsTold
      <4> QED BY <1>1, <1>2, <2>2, <3>3, <3>4, <3>6, <4>1, <4>2 DEF InTurn
    <3>9. Traced(c)'
      BY <1>1, <2>2, <3>1, <3>3, <3>4 DEF OfCall, Traced
    <3>10. EntriesCounted(c)'
      <4>1. Completing(c)' = Completing(c) /\ EndOnTheWire(c)' = EndOnTheWire(c)
        BY <1>1, <1>2, <3>3 DEF Completing, EndOnTheWire
      <4>2. NotOver(c)' = NotOver(c)
        BY <2>2, <3>1 DEF NotOver
      <4> QED BY <1>1, <4>1, <4>2, EntriesStay DEF OfCall
    <3> QED BY <3>5, <3>7, <3>8, <3>9, <3>10 DEF OfCall
  <2> QED BY <2>3, <2>4
<1> QED BY <1>3, <1>4, <1>5

LEMMA CallLogged ==
    ASSUME CallInv, NEW s \in Servers, NEW d \in CallIds, L!LogCall(s, d), NEW c \in CallIds
    PROVE  OfCall(c)'
<1>1. /\ L!TypeOK /\ OfCall(c) /\ mishaps \in Nat /\ row \in [CallIds -> CallRow]
      /\ UNCHANGED <<line, wire, timeline, astray, unwritten, mishaps>>
      /\ line[d] = "none" /\ row[d].status = "none" /\ server[s] = L!Waiting
      /\ row' = [row EXCEPT ![d].status = "logged"]
      /\ L!Goes(s, [pc |-> "activity", call |-> d])
  BY CallFields DEF CallInv, L!LogCall, L!Begins
<1>2. /\ L!Waiting.pc = "idle"
      /\ L!Endings = {"completed", "busy"}
      /\ L!Messages = {"completed", "busy", "ringing", "recording"}
  BY DEF L!Waiting, L!Endings, L!Messages
<1>a. PICK r \in L!ServerType : r.pc = "activity" /\ r.call = d /\ L!Goes(s, r)
  BY <1>1, ServerTypes
<1>3. CASE c # d
  <2>1. row'[c] = row[c]
    BY <1>1, <1>3
  <2>2. SameCall(c)
    BY <1>1, <1>2, <1>3, <1>a, <2>1, AboutAnother
  <2> QED BY <1>1, <2>2, OtherCallStays
<1>4. CASE c = d
  <2>1. /\ \A m \in L!Messages : ~Under(c, m)
        /\ ~(timeline[c] > 0) /\ \A t \in Servers : ~Writes(t, c) /\ ~Inserts(t, c)
    BY <1>1, <1>4, NotYetTold DEF OfCall, InsertsOnce
  <2>2. \A t \in Servers : server'[t] = IF t = s THEN r ELSE server[t]
    BY <1>1, <1>a, OneServerMoves
  <2>3. /\ \A t \in Servers : ~Inserts(t, c)'
        /\ \A t \in Servers : Writes(t, c)' <=> t = s
        /\ \A t \in Servers, m \in L!Messages : ~Tells(t, c, m)'
    BY <1>4, <1>a, <2>1, <2>2 DEF Inserts, Writes, Tells, Under
  <2>4. /\ row'[c].status = "logged" /\ row'[c].duration = row[c].duration
        /\ line'[c] = "none"
    <3>1. row[c] \in CallRow
      BY <1>1
    <3> QED BY <1>1, <1>4, <3>1 DEF CallRow
  <2>5. \A m \in L!Messages : ~Under(c, m)'
    BY <1>1, <2>1, <2>3 DEF Under
  <2>6. InsertsOnce(c)' /\ TellsTrue(c)' /\ InTurn(c)' /\ Traced(c)'
    BY <1>1, <1>2, <2>3, <2>4, <2>5 DEF OfCall, InsertsOnce, TellsTrue, InTurn, Traced
  <2>7. EntriesCounted(c)'
    <3>1. Completing(c) = {} /\ Completing(c)' = {s}
      BY <1>2, <2>1, <2>3 DEF Completing, Under
    <3>2. /\ IsFiniteSet({s}) /\ Cardinality({s}) = 1 /\ Cardinality({}) = 0
      BY FS_Singleton, FS_EmptySet
    <3>3. /\ EndOnTheWire(c)' = EndOnTheWire(c) /\ NotOver(c) = 1 /\ NotOver(c)' = 0
          /\ EndOnTheWire(c) \in {0, 1}
      BY <1>1, <1>4, <2>4 DEF EndOnTheWire, NotOver
    <3>4. timeline[c] + Cardinality(Completing(c)) + EndOnTheWire(c) + NotOver(c) <= 1 + mishaps
      BY <1>1 DEF OfCall, EntriesCounted
    <3>5. timeline[c] \in Nat
      BY <1>1, CallFields
    <3> QED BY <1>1, <3>1, <3>2, <3>3, <3>4, <3>5 DEF EntriesCounted
  <2> QED BY <2>6, <2>7 DEF OfCall
<1> QED BY <1>3, <1>4

\* A request that was about a call ends: a callback of it is astray or found no row, and an
\* entry that it was writing is written or lost
LEMMA RequestReturns ==
    ASSUME L!TypeOK, NEW c \in CallIds, OfCall(c), NEW s \in Servers, L!Returns(s),
           row'[c] = row[c], UNCHANGED <<line, wire, timeline>>,
           astray \subseteq astray', unwritten \subseteq unwritten', mishaps' \in Nat,
           mishaps <= mishaps',
           server[s].pc = "callback" /\ server[s].call = c => c \in astray' \/ ~L!There(c),
           Writes(s, c) => c \in unwritten'
    PROVE  OfCall(c)'
<1>1. \A t \in Servers : server'[t] = IF t = s THEN L!Waiting ELSE server[t]
  BY ServerTypes, OneServerMoves DEF L!Returns
<1>2. /\ L!Waiting.pc = "idle"
      /\ L!Endings = {"completed", "busy"}
      /\ L!Messages = {"completed", "busy", "ringing", "recording"}
  BY DEF L!Waiting, L!Endings, L!Messages
<1>3. /\ \A t \in Servers : Inserts(t, c)' => Inserts(t, c)
      /\ \A t \in Servers : Writes(t, c)' => Writes(t, c)
      /\ \A t \in Servers, m \in L!Messages : Tells(t, c, m)' => Tells(t, c, m) /\ server'[t] = server[t]
      /\ \A t \in Servers : t # s => /\ Writes(t, c)' <=> Writes(t, c)
                                     /\ \A m \in L!Messages : Tells(t, c, m)' <=> Tells(t, c, m)
  BY <1>1, <1>2 DEF Inserts, Writes, Tells
<1>4. \A m \in L!Messages : Under(c, m)' => Under(c, m)
  BY <1>3 DEF Under
<1>5. InsertsOnce(c)'
  BY <1>3 DEF OfCall, InsertsOnce
<1>6. TellsTrue(c)'
  BY <1>2, <1>4 DEF OfCall, TellsTrue
<1>7. InTurn(c)'
  <2>1. SUFFICES ASSUME c \notin astray' PROVE InTurn(c)'
    BY DEF InTurn
  <2>2. InTurn(c) /\ c \notin astray /\ (L!There(c)' <=> L!There(c))
    BY <2>1 DEF OfCall, L!There
  <2>3. L!There(c) => \A m : ~Tells(s, c, m)
    BY <2>1 DEF Tells
  <2>4. L!There(c)' /\ line'[c] \in L!Endings /\ EndIsTold(c)' => EndIsTold(c)
    BY <1>2, <1>3, <2>2, <2>3 DEF EndIsTold
  <2>5. /\ Under(c, "ringing")' /\ line'[c] \in L!Endings => <<c, line'[c]>> \in wire'
        /\ row'[c].duration # "recording"
        /\ \A t \in Servers : Tells(t, c, "recording")' => server'[t].duration \in Lasting
    BY <1>2, <1>3, <1>4, <2>2 DEF InTurn
  <2>6. L!There(c)' /\ line'[c] \in L!Endings /\ EndIsTold(c)' =>
             /\ row'[c].status = line'[c]
             /\ line'[c] = "completed" => row'[c].duration \in Lasting
    BY <2>2, <2>4 DEF InTurn
  <2>7. \A t \in Servers : Inserts(t, c)' =>
             /\ \A u \in Servers, m \in L!Messages : ~Tells(u, c, m)'
             /\ line'[c] \in {"ringing"} \cup L!Endings => <<c, "ringing">> \in wire'
             /\ line'[c] \in L!Endings => <<c, line'[c]>> \in wire'
    BY <1>3, <2>2 DEF InTurn
  <2> QED BY <2>5, <2>6, <2>7 DEF InTurn
<1>8. Traced(c)'
  <2>1. (\E t \in Servers : Writes(t, c)) => (\E t \in Servers : Writes(t, c)') \/ c \in unwritten'
    BY <1>3
  <2> QED BY <1>3, <2>1 DEF OfCall, Traced
<1>9. EntriesCounted(c)'
  <2>1. Completing(c)' \subseteq Completing(c)
    BY <1>2, <1>3 DEF Completing
  <2>2. EndOnTheWire(c)' = EndOnTheWire(c) /\ NotOver(c)' = NotOver(c)
    BY DEF EndOnTheWire, NotOver
  <2> QED BY <2>1, <2>2, EntriesStay DEF OfCall
<1> QED BY <1>5, <1>6, <1>7, <1>8, <1>9 DEF OfCall

LEMMA RequestFails ==
    ASSUME CallInv, NEW s \in Servers, L!Fails(s), NEW c \in CallIds
    PROVE  OfCall(c)'
<1>1. /\ L!TypeOK /\ OfCall(c) /\ mishaps \in Nat /\ UNCHANGED <<row, line, wire, timeline>>
      /\ L!Returns(s) /\ mishaps' = mishaps + 1
  BY CallFields DEF CallInv, L!Fails
<1>2. astray \subseteq astray' /\ unwritten \subseteq unwritten' /\ mishaps' \in Nat /\ mishaps <= mishaps'
  BY <1>1 DEF L!Fails
<1>3. /\ server[s].pc = "callback" /\ server[s].call = c => c \in astray'
      /\ Writes(s, c) => c \in unwritten'
  BY DEF L!Fails, Writes
<1> QED BY <1>1, <1>2, <1>3, RequestReturns

LEMMA EntryWritten ==
    ASSUME CallInv, NEW s \in Servers, L!Activity(s), NEW c \in CallIds
    PROVE  OfCall(c)'
<1>1. /\ L!TypeOK /\ OfCall(c) /\ mishaps \in Nat /\ timeline \in [CallIds -> Nat]
      /\ UNCHANGED <<row, line, wire, astray, unwritten, mishaps>>
      /\ L!Returns(s) /\ server[s].pc = "activity" /\ server[s] \in L!ServerType
  BY CallFields DEF CallInv, L!Activity
<1>2. PICK d \in CallIds : /\ d = server[s].call
                           /\ timeline' = [timeline EXCEPT ![d] = timeline[d] + 1]
  BY <1>1, ServerFields DEF L!Activity
<1>3. /\ L!Waiting.pc = "idle"
      /\ L!Endings = {"completed", "busy"}
      /\ L!Messages = {"completed", "busy", "ringing", "recording"}
  BY DEF L!Waiting, L!Endings, L!Messages
<1>4. CASE c # d
  <2>1. timeline'[c] = timeline[c]
    BY <1>1, <1>2, <1>4
  <2>2. SameCall(c)
    BY <1>1, <1>2, <1>3, <1>4, <2>1, ServerTypes, AboutAnother DEF L!Returns
  <2> QED BY <1>1, <2>2, OtherCallStays
<1>5. CASE c = d
  <2>1. timeline'[c] = timeline[c] + 1 /\ timeline[c] \in Nat
    BY <1>1, <1>2, <1>5
  <2>2. \A t \in Servers : server'[t] = IF t = s THEN L!Waiting ELSE server[t]
    BY <1>1, ServerTypes, OneServerMoves DEF L!Returns
  <2>3. /\ \A t \in Servers : Inserts(t, c)' <=> Inserts(t, c)
        /\ \A t \in Servers : Writes(t, c)' => Writes(t, c)
        /\ \A t \in Servers, m \in L!Messages :
             /\ Tells(t, c, m)' <=> Tells(t, c, m)
             /\ Tells(t, c, m) => server'[t] = server[t]
        /\ Writes(s, c) /\ ~Writes(s, c)' /\ \A m \in L!Messages : ~Tells(s, c, m)
        /\ \A t \in Servers : t # s => (Writes(t, c)' <=> Writes(t, c))
    BY <1>1, <1>2, <1>3, <1>5, <2>2 DEF Inserts, Writes, Tells
  <2>4. \A m \in L!Messages : Under(c, m)' <=> Under(c, m)
    BY <1>1, <2>3 DEF Under
  <2>5. InsertsOnce(c)' /\ TellsTrue(c)'
    BY <1>1, <1>3, <2>3, <2>4 DEF OfCall, InsertsOnce, TellsTrue
  <2>6. InTurn(c)'
    <3>1. line[c] \in L!Endings => (EndIsTold(c)' <=> EndIsTold(c))
      BY <1>1, <1>3, <2>3 DEF EndIsTold
    <3> QED BY <1>1, <1>3, <2>3, <2>4, <3>1 DEF OfCall, InTurn, L!There
  <2>7. Traced(c)'
    <3>1. line[c] = "completed" \/ (line[c] = "none" /\ row[c].status # "none")
      BY <1>1, <2>3 DEF OfCall, Traced
    <3>2. timeline'[c] > 0
      BY <2>1
    <3> QED BY <1>1, <3>1, <3>2 DEF Traced
  <2>8. EntriesCounted(c)'
    <3>1. Completing(c)' = Completing(c) \ {s} /\ s \in Completing(c)
      BY <1>3, <2>3 DEF Completing
    <3>2. /\ IsFiniteSet(Completing(c)) /\ Cardinality(Completing(c)) \in Nat
          /\ timeline[c] + Cardinality(Completing(c)) + EndOnTheWire(c) + NotOver(c) <= 1 + mishaps
      BY <1>1, FS_CardinalityType DEF OfCall, EntriesCounted
    <3>3. /\ IsFiniteSet(Completing(c)')
          /\ Cardinality(Completing(c)') = Cardinality(Completing(c)) - 1
      BY <3>1, <3>2, FS_RemoveElement
    <3>4. /\ EndOnTheWire(c)' = EndOnTheWire(c) /\ NotOver(c)' = NotOver(c)
          /\ EndOnTheWire(c) \in {0, 1} /\ NotOver(c) \in {0, 1}
      BY <1>1 DEF EndOnTheWire, NotOver
    <3> QED BY <1>1, <2>1, <3>2, <3>3, <3>4 DEF EntriesCounted
  <2> QED BY <2>5, <2>6, <2>7, <2>8 DEF OfCall
<1> QED BY <1>4, <1>5

\* A callback arrives and reads the row
LEMMA CallbackArrives ==
    ASSUME CallInv, NEW s \in Servers, NEW d \in CallIds, NEW m \in L!Messages,
           L!CallbackRead(s, d, m), NEW c \in CallIds
    PROVE  OfCall(c)'
<1>1. /\ L!TypeOK /\ OfCall(c) /\ mishaps \in Nat /\ row[d].duration \in L!DurationType
      /\ UNCHANGED <<row, line, timeline, unwritten>> /\ <<d, m>> \in wire
      /\ server[s] = L!Waiting /\ server[s].pc = "idle"
  BY CallFields DEF CallInv, L!CallbackRead, L!Begins, L!Waiting
<1>2. /\ L!Endings = {"completed", "busy"}
      /\ L!Messages = {"completed", "busy", "ringing", "recording"}
  BY DEF L!Endings, L!Messages
<1>3. \/ wire' = wire \ {<<d, m>>} /\ UNCHANGED mishaps
      \/ UNCHANGED wire /\ mishaps' = mishaps + 1
  BY DEF L!CallbackRead
<1>4. mishaps' \in Nat /\ mishaps <= mishaps' /\ astray \subseteq astray'
  BY <1>1, <1>3 DEF L!CallbackRead
<1>5. PICK r \in L!ServerType :
        /\ L!Goes(s, r)
        /\ \/ /\ ~L!There(d) /\ r = L!Waiting /\ d \in astray'
           \/ /\ L!There(d) /\ r.pc = "callback" /\ r.call = d /\ r.says = m
              /\ r.duration = row[d].duration
  <2>1. CASE L!There(d)
    <3>1. [pc |-> "callback", call |-> d, says |-> m, duration |-> row[d].duration] \in L!ServerType
      BY <1>1, ServerTypes
    <3>2. L!Goes(s, [pc |-> "callback", call |-> d, says |-> m, duration |-> row[d].duration])
      BY <2>1 DEF L!CallbackRead, L!Begins
    <3> QED BY <2>1, <3>1, <3>2
  <2>2. CASE ~L!There(d)
    <3>1. UNCHANGED server /\ d \in astray'
      BY <2>2 DEF L!CallbackRead
    <3>2. server = [server EXCEPT ![s] = L!Waiting]
      BY <1>1, CallFields
    <3> QED BY <2>2, <3>1, <3>2, ServerTypes DEF L!Goes
  <2> QED BY <2>1, <2>2
<1>6. \A t \in Servers : server'[t] = IF t = s THEN r ELSE server[t]
  BY <1>1, <1>5, OneServerMoves
<1>7. CASE c # d
  <2>1. \A k \in L!Messages : <<c, k>> \in wire' <=> <<c, k>> \in wire
    BY <1>3, <1>7
  <2>2. r.pc \in {"row", "activity", "callback"} => r.call # c
    BY <1>5, <1>7 DEF L!Waiting
  <2>3. SameCall(c)
    BY <1>1, <1>4, <1>5, <2>1, <2>2, AboutAnother
  <2> QED BY <1>1, <2>3, OtherCallStays
<1>8. CASE c = d
  <2>1. /\ \A t \in Servers : Inserts(t, c)' <=> Inserts(t, c)
        /\ \A t \in Servers : Writes(t, c)' <=> Writes(t, c)
        /\ \A t \in Servers, k \in L!Messages :
             /\ Tells(t, c, k)' => Tells(t, c, k) \/ (t = s /\ k = m /\ L!There(d))
             /\ Tells(t, c, k) => Tells(t, c, k)' /\ server'[t] = server[t]
        /\ L!There(d) => Tells(s, c, m)' /\ server'[s].duration = row[c].duration
    BY <1>1, <1>5, <1>6, <1>8 DEF Inserts, Writes, Tells, L!Waiting
  <2>2. \A k \in L!Messages : Under(c, k)' => Under(c, k)
    BY <1>1, <1>3, <1>8, <2>1 DEF Under
  <2>3. InsertsOnce(c)' /\ TellsTrue(c)' /\ Traced(c)'
    BY <1>1, <1>2, <2>1, <2>2 DEF OfCall, InsertsOnce, TellsTrue, Traced
  <2>4. InTurn(c)'
    <3>1. SUFFICES ASSUME c \notin astray' PROVE InTurn(c)'
      BY DEF InTurn
    <3>2. /\ L!There(c) /\ ~L!Early(c, m) /\ wire' = wire \ {<<c, m>>} /\ InTurn(c)
          /\ c \notin astray
      <4>1. c \notin astray /\ ~(~L!There(c) \/ L!Early(c, m) \/ wire' = wire)
        BY <1>4, <1>8, <3>1 DEF L!CallbackRead
      <4> QED BY <1>1, <1>3, <1>8, <4>1 DEF OfCall
    <3>3. /\ m # "ringing" => <<c, "ringing">> \notin wire
          /\ m = "recording" => <<c, "completed">> \notin wire
          /\ \A t \in Servers, k \in L!Messages : ~Tells(t, c, k)
      BY <3>2 DEF L!Early, Tells
    <3>4. \A t \in Servers, k \in L!Messages : Tells(t, c, k)' => t = s /\ k = m
      BY <2>1, <3>3
    <3>5. \A t \in Servers : ~Inserts(t, c)'
      BY <1>1, <2>1, <3>2 DEF OfCall, InsertsOnce, L!There
    <3>6. Under(c, "ringing")' /\ line'[c] \in L!Endings => <<c, line'[c]>> \in wire'
      <4>1. SUFFICES ASSUME Under(c, "ringing")', line[c] \in L!Endings PROVE <<c, line[c]>> \in wire'
        BY <1>1
      <4>2. m = "ringing"
        BY <1>2, <3>2, <3>3, <3>4, <4>1 DEF Under
      <4>3. <<c, line[c]>> \in wire
        BY <1>2, <2>2, <3>2, <4>1 DEF InTurn
      <4> QED BY <1>2, <3>2, <4>1, <4>2, <4>3
    <3>7. \A t \in Servers : Tells(t, c, "recording")' => server'[t].duration \in Lasting
      <4>1. SUFFICES ASSUME m = "recording" PROVE row[c].duration \in Lasting
        BY <1>2, <2>1, <3>2, <3>4, <1>8
      <4>2. line[c] = "completed"
        BY <1>1, <1>8, <4>1 DEF OfCall, TellsTrue, Under
      <4>3. EndIsTold(c)
        BY <1>2, <3>3, <4>1, <4>2 DEF EndIsTold
      <4> QED BY <1>2, <3>2, <4>2, <4>3 DEF InTurn
    <3>8. L!There(c)' /\ line'[c] \in L!Endings /\ EndIsTold(c)' =>
             /\ row'[c].status = line'[c]
             /\ line'[c] = "completed" => row'[c].duration \in Lasting
      <4>1. SUFFICES ASSUME line[c] \in L!Endings, EndIsTold(c)'
            PROVE  /\ row[c].status = line[c]
                   /\ line[c] = "completed" => row[c].duration \in Lasting
        BY <1>1
      <4>2. m # line[c]
        BY <1>1, <1>8, <2>1, <3>2, <4>1 DEF EndIsTold
      <4>3. EndIsTold(c)
        BY <1>1, <1>2, <2>1, <3>2, <4>1, <4>2 DEF EndIsTold
      <4> QED BY <3>2, <4>1, <4>3 DEF InTurn
    <3> QED BY <1>1, <3>2, <3>5, <3>6, <3>7, <3>8 DEF InTurn
  <2>5. EntriesCounted(c)'
    <3>1. /\ IsFiniteSet(Completing(c)) /\ Cardinality(Completing(c)) \in Nat
          /\ timeline[c] + Cardinality(Completing(c)) + EndOnTheWire(c) + NotOver(c) <= 1 + mishaps
      BY <1>1, FS_CardinalityType DEF OfCall, EntriesCounted
    <3>2. CASE m # "completed" \/ ~L!There(d)
      <4>1. Completing(c)' = Completing(c)
        BY <1>2, <2>1, <3>2 DEF Completing
      <4>2. EndOnTheWire(c)' = 1 => EndOnTheWire(c) = 1
        BY <1>3 DEF EndOnTheWire
      <4>3. NotOver(c)' = NotOver(c)
        BY <1>1 DEF NotOver
      <4> QED BY <1>1, <1>4, <4>1, <4>2, <4>3, EntriesStay DEF OfCall
    <3>3. CASE m = "completed" /\ L!There(d)
      <4>1. Completing(c)' = Completing(c) \cup {s}
        BY <1>2, <2>1, <3>3 DEF Completing
      <4>2. /\ IsFiniteSet(Completing(c)') /\ Cardinality(Completing(c)') \in Nat
            /\ Cardinality(Completing(c)') <= Cardinality(Completing(c)) + 1
        <5> DEFINE more == Completing(c) \cup {s}
        <5>1. /\ IsFiniteSet(more)
              /\ Cardinality(more) = Cardinality(Completing(c)) \/ Cardinality(more) = Cardinality(Completing(c)) + 1
          BY <3>1, FS_AddElement
        <5>2. Completing(c)' = more
          BY <4>1
        <5> HIDE DEF more
        <5>3. /\ IsFiniteSet(Completing(c)')
              /\ \/ Cardinality(Completing(c)') = Cardinality(Completing(c))
                 \/ Cardinality(Completing(c)') = Cardinality(Completing(c)) + 1
          BY <5>1, <5>2
        <5> QED BY <3>1, <5>3
      <4>3. NotOver(c)' = NotOver(c) /\ NotOver(c) \in {0, 1}
        BY <1>1 DEF NotOver
      <4>4. \/ EndOnTheWire(c) = 1 /\ EndOnTheWire(c)' = 0 /\ mishaps' = mishaps
            \/ EndOnTheWire(c)' = EndOnTheWire(c) /\ EndOnTheWire(c) \in {0, 1} /\ mishaps' = mishaps + 1
        BY <1>1, <1>3, <1>8, <3>3 DEF EndOnTheWire
      <4>5. timeline[c] \in Nat /\ timeline'[c] = timeline[c]
        BY <1>1, CallFields
      <4> QED BY <1>1, <3>1, <4>2, <4>3, <4>4, <4>5 DEF EntriesCounted
    <3> QED BY <3>2, <3>3
  <2> QED BY <2>3, <2>4, <2>5 DEF OfCall
<1> QED BY <1>7, <1>8

\* The callback writes what Twilio told, into the row as it is now
LEMMA CallbackWrites ==
    ASSUME CallInv, NEW s \in Servers, L!CallbackWrite(s), NEW c \in CallIds
    PROVE  OfCall(c)'
<1>1. /\ L!TypeOK /\ OfCall(c) /\ mishaps \in Nat /\ row \in [CallIds -> CallRow]
      /\ UNCHANGED <<line, wire, timeline, astray, unwritten, mishaps>>
      /\ server[s].pc = "callback" /\ server[s] \in L!ServerType
  BY CallFields DEF CallInv, L!CallbackWrite
<1>2. PICK d \in CallIds, m \in L!Messages :
        d = server[s].call /\ m = server[s].says /\ Tells(s, d, m)
  BY <1>1, ServerFields DEF Tells
<1>3. /\ L!Endings = {"completed", "busy"} /\ L!Waiting.pc = "idle"
      /\ L!Messages = {"completed", "busy", "ringing", "recording"}
  BY DEF L!Endings, L!Messages, L!Waiting
<1>4. CASE ~L!There(d)
  <2>1. UNCHANGED row /\ L!Returns(s)
    BY <1>2, <1>4 DEF L!CallbackWrite
  <2>2. /\ server[s].pc = "callback" /\ server[s].call = c => ~L!There(c)
        /\ ~Writes(s, c)
    BY <1>1, <1>2, <1>4 DEF Writes
  <2> QED BY <1>1, <2>1, <2>2, RequestReturns
<1>5. CASE L!There(d)
  <2>1. PICK r \in L!ServerType :
          /\ L!Goes(s, r)
          /\ IF m = "completed" THEN r.pc = "activity" /\ r.call = d ELSE r = L!Waiting
    BY <1>2, <1>5, ServerTypes DEF L!CallbackWrite, L!Completes, L!Returns
  <2>2. \A t \in Servers : server'[t] = IF t = s THEN r ELSE server[t]
    BY <1>1, <2>1, OneServerMoves
  <2>3. PICK duration \in L!Durations(s) : row' = [row EXCEPT ![d] = L!Told(s, duration)]
    BY <1>2, <1>5 DEF L!CallbackWrite
  <2>4. CASE c # d
    <3>1. row'[c] = row[c]
      BY <1>1, <2>3, <2>4
    <3>2. SameCall(c)
      BY <1>1, <1>2, <1>3, <2>1, <2>4, <3>1, AboutAnother
    <3> QED BY <1>1, <3>2, OtherCallStays
  <2>5. CASE c = d
    <3>1. row'[c] = L!Told(s, duration) /\ row[c] \in CallRow /\ row[c].status \notin {"none", "deleted"}
      BY <1>1, <1>5, <2>3, <2>5 DEF L!There
    <3>2. /\ m = "ringing" => row'[c].status = "ringing"
          /\ m = "busy" => row'[c].status = "busy"
          /\ m = "completed" => /\ row'[c].status = "completed"
                                /\ row[c].duration # "recording" => row'[c].duration \in Lasting
          /\ m = "recording" => /\ row'[c].status = row[c].status
                                /\ server[s].duration \in Lasting =>
                                     row'[c].duration \in {"filled", row[c].duration}
          /\ row'[c].duration = "recording" =>
               \/ row[c].duration = "recording"
               \/ m = "recording" /\ server[s].duration = "none"
      <4>1. /\ row'[c].duration = duration
            /\ row'[c].status = IF m = "recording" THEN row[c].status ELSE m
        BY <1>2, <2>5, <3>1 DEF L!Told
      <4>2. row[c].duration \in L!DurationType
        BY <3>1 DEF CallRow
      <4>3. /\ m = "ringing" => duration = row[c].duration
            /\ m = "completed" => duration \in {"call", "zero"} \cup ({row[c].duration} \ {"none"})
            /\ m = "busy" => duration \in {"none", row[c].duration}
            /\ m = "recording" => duration = L!Recorded(s)
        BY <1>2, <2>3, <2>5 DEF L!Durations
      <4>4. L!Recorded(s) = CASE server[s].duration = "none" -> "recording"
                              [] server[s].duration = "zero" -> "filled"
                              [] OTHER -> row[c].duration
        BY <1>2, <2>5 DEF L!Recorded
      <4> QED BY <1>3, <4>1, <4>2, <4>3, <4>4 DEF Lasting, L!DurationType
    <3>3. row'[c].status \notin {"none", "deleted"}
      BY <1>3, <3>1, <3>2
    <3>4. \A t \in Servers : ~Inserts(t, c)
      BY <1>1, <3>1 DEF OfCall, InsertsOnce
    <3>5. /\ \A t \in Servers : ~Inserts(t, c)'
          /\ \A t \in Servers : t # s => /\ Writes(t, c)' <=> Writes(t, c)
                                         /\ \A k \in L!Messages : Tells(t, c, k)' <=> Tells(t, c, k)
          /\ \A t \in Servers, k \in L!Messages : Tells(t, c, k)' => t # s /\ server'[t] = server[t]
          /\ ~Writes(s, c) /\ (Writes(s, c)' <=> m = "completed")
      BY <1>1, <1>3, <2>1, <2>2, <2>5, <3>4 DEF Inserts, Writes, Tells
    <3>6. \A k \in L!Messages : /\ Under(c, k)' => Under(c, k)
                                /\ Tells(s, c, k) <=> k = m
      BY <1>1, <1>2, <2>5, <3>5 DEF Under, Tells
    <3>7. Under(c, m)
      BY <1>2, <2>5 DEF Under
    <3>8. InsertsOnce(c)' /\ TellsTrue(c)'
      BY <1>1, <1>3, <3>5, <3>6 DEF OfCall, InsertsOnce, TellsTrue
    <3>9. Traced(c)'
      <4>1. row'[c].status \in {"logged", "completed"} =>
              timeline'[c] > 0 \/ (\E t \in Servers : Writes(t, c)') \/ c \in unwritten'
        <5>1. row'[c].status \in {"logged", "completed"} =>
                m = "completed" \/ row[c].status \in {"logged", "completed"}
          BY <1>3, <3>2
        <5>2. row[c].status \in {"logged", "completed"} =>
                timeline[c] > 0 \/ (\E t \in Servers : Writes(t, c)) \/ c \in unwritten
          BY <1>1 DEF OfCall, Traced
        <5> QED BY <1>1, <3>5, <5>1, <5>2
      <4>2. timeline'[c] > 0 \/ (\E t \in Servers : Writes(t, c)') =>
              line'[c] = "completed" \/ (line'[c] = "none" /\ row'[c].status # "none")
        <5>1. m = "completed" => line[c] = "completed"
          BY <1>1, <1>3, <3>7 DEF OfCall, TellsTrue
        <5>2. timeline[c] > 0 \/ (\E t \in Servers : Writes(t, c)) =>
                line[c] = "completed" \/ line[c] = "none"
          BY <1>1 DEF OfCall, Traced
        <5> QED BY <1>1, <3>3, <3>5, <5>1, <5>2
      <4> QED BY <4>1, <4>2 DEF Traced
    <3>10. InTurn(c)'
      <4>1. SUFFICES ASSUME c \notin astray PROVE InTurn(c)'
        BY <1>1 DEF InTurn
      <4>2. InTurn(c)
        BY <1>1 DEF OfCall
      <4>a. row'[c].duration # "recording"
        BY <1>2, <2>5, <3>2, <4>1, <4>2 DEF InTurn, Lasting
      <4>3. /\ Under(c, "ringing")' /\ line'[c] \in L!Endings => <<c, line'[c]>> \in wire'
            /\ \A t \in Servers : Tells(t, c, "recording")' => server'[t].duration \in Lasting
        BY <1>1, <1>3, <3>5, <3>6, <4>1, <4>2 DEF InTurn
      <4>4. L!There(c)' /\ line'[c] \in L!Endings /\ EndIsTold(c)' =>
               /\ row'[c].status = line'[c]
               /\ line'[c] = "completed" => row'[c].duration \in Lasting
        <5>1. SUFFICES ASSUME line[c] \in L!Endings, EndIsTold(c)'
              PROVE  /\ row'[c].status = line[c]
                     /\ line[c] = "completed" => row'[c].duration \in Lasting
          BY <1>1
        <5>2. CASE m \in L!Endings
          <6>1. m = line[c]
            BY <1>1, <3>7, <5>2 DEF OfCall, TellsTrue
          <6>2. row[c].duration # "recording"
            BY <4>1, <4>2 DEF InTurn
          <6> QED BY <1>3, <3>2, <5>2, <6>1, <6>2
        <5>3. CASE m \notin L!Endings
          <6>1. EndIsTold(c)
            BY <1>1, <1>3, <3>5, <3>6, <5>1, <5>3 DEF EndIsTold
          <6>2. m # "ringing"
            BY <1>3, <3>7, <4>1, <4>2, <5>1, <6>1 DEF InTurn, EndIsTold
          <6>3. m = "recording" /\ server[s].duration \in Lasting
            BY <1>2, <1>3, <2>5, <4>1, <4>2, <5>3, <6>2 DEF InTurn
          <6>4. /\ row[c].status = line[c]
                /\ line[c] = "completed" => row[c].duration \in Lasting
            BY <1>5, <2>5, <4>1, <4>2, <5>1, <6>1 DEF InTurn
          <6> QED BY <3>2, <6>3, <6>4 DEF Lasting
        <5> QED BY <5>2, <5>3
      <4> QED BY <3>5, <4>3, <4>4, <4>a DEF InTurn
    <3>11. EntriesCounted(c)'
      <4>1. Completing(c)' = Completing(c)
        BY <1>3, <3>5, <3>6 DEF Completing
      <4>2. EndOnTheWire(c)' = EndOnTheWire(c) /\ NotOver(c)' = NotOver(c)
        BY <1>1, <3>1, <3>3 DEF EndOnTheWire, NotOver
      <4> QED BY <1>1, <4>1, <4>2, EntriesStay DEF OfCall
    <3> QED BY <3>8, <3>9, <3>10, <3>11 DEF OfCall
  <2> QED BY <2>4, <2>5
<1> QED BY <1>4, <1>5

LEMMA CallTypes ==
    ASSUME row' \in [CallIds -> CallRow], line' \in [CallIds -> LineStates],
           wire' \subseteq CallIds \X L!Messages, server' \in [Servers -> L!ServerType],
           timeline' \in [CallIds -> Nat],
           minute' \subseteq CallIds, placed' \subseteq CallIds, unseen' \subseteq CallIds,
           astray' \subseteq CallIds, unwritten' \subseteq CallIds,
           beside' \in 0 .. MaxBeside, mishaps' \in 0 .. MaxMishaps
    PROVE  L!TypeOK'
BY DEF L!TypeOK, CallRow, CallStatuses, LineStates

LEMMA MishapTyped ==
    ASSUME L!TypeOK, mishaps' = mishaps \/ (mishaps < MaxMishaps /\ mishaps' = mishaps + 1)
    PROVE  mishaps' \in 0 .. MaxMishaps
BY CallFields

LEMMA BeginTyped ==
    ASSUME L!TypeOK, NEW s \in Servers, NEW r \in L!ServerType, L!Begins(s, r)
    PROVE  beside' \in 0 .. MaxBeside /\ beside' \in Nat /\ beside <= beside'
<1>1. beside' = beside \/ (beside < MaxBeside /\ beside' = beside + 1)
  BY DEF L!Begins
<1> QED BY <1>1, CallFields

LEMMA PeopleTyped ==
    ASSUME L!TypeOK, NEW c \in CallIds,
           L!Update(c) \/ L!Remove(c) \/ L!Rings(c) \/ L!HangsUp(c) \/ L!MinutePasses(c)
    PROVE  L!TypeOK'
<1>1. /\ row \in [CallIds -> CallRow] /\ line \in [CallIds -> LineStates]
      /\ wire \subseteq CallIds \X L!Messages /\ server \in [Servers -> L!ServerType]
      /\ timeline \in [CallIds -> Nat]
      /\ minute \subseteq CallIds /\ placed \subseteq CallIds /\ unseen \subseteq CallIds
      /\ astray \subseteq CallIds /\ unwritten \subseteq CallIds
      /\ beside \in 0 .. MaxBeside /\ mishaps \in 0 .. MaxMishaps
      /\ row[c] \in CallRow
  BY CallFields
<1>2. CASE L!Update(c)
  <2>1. PICK duration \in {"edited", L!Zeroed(c)} :
          row' = [row EXCEPT ![c] = [row[c] EXCEPT !.duration = duration]]
    BY <1>2 DEF L!Update
  <2>2. duration \in L!DurationType
    BY DEF L!Zeroed, L!DurationType
  <2>3. row' \in [CallIds -> CallRow]
    <3>1. [row[c] EXCEPT !.duration = duration] \in CallRow
      BY <1>1, <2>2 DEF CallRow
    <3> QED BY <1>1, <2>1, <3>1
  <2> QED BY <1>1, <1>2, <2>3, CallTypes DEF L!Update
<1>3. CASE L!Remove(c)
  <2>1. [status |-> "deleted", duration |-> "none"] \in CallRow
    BY DEF CallRow, CallStatuses, L!DurationType
  <2>2. row' \in [CallIds -> CallRow]
    BY <1>1, <1>3, <2>1 DEF L!Remove
  <2>3. mishaps' \in 0 .. MaxMishaps
    BY <1>3, MishapTyped DEF L!Remove
  <2>4. minute' \subseteq CallIds /\ unseen' \subseteq CallIds
    BY <1>1, <1>3 DEF L!Remove
  <2> QED BY <1>1, <1>3, <2>2, <2>3, <2>4, CallTypes DEF L!Remove
<1>4. CASE L!Rings(c) \/ L!HangsUp(c)
  <2>1. line' \in [CallIds -> LineStates]
    BY <1>1, <1>4 DEF L!Rings, L!HangsUp, LineStates, L!Endings
  <2>2. wire' \subseteq CallIds \X L!Messages
    BY <1>1, <1>4 DEF L!Rings, L!HangsUp, L!Messages, L!Endings
  <2> QED BY <1>1, <1>4, <2>1, <2>2, CallTypes DEF L!Rings, L!HangsUp
<1>5. CASE L!MinutePasses(c)
  <2>1. minute' \subseteq CallIds /\ placed' \subseteq CallIds
    BY <1>1, <1>5 DEF L!MinutePasses
  <2> QED BY <1>1, <1>5, <2>1, CallTypes DEF L!MinutePasses
<1> QED BY <1>2, <1>3, <1>4, <1>5

LEMMA ToldTyped ==
    ASSUME L!TypeOK, NEW s \in Servers, server[s].pc = "callback",
           NEW duration \in L!Durations(s)
    PROVE  L!Told(s, duration) \in CallRow
<1>1. PICK c \in CallIds : c = server[s].call
  BY CallFields, ServerFields
<1>2. row[c] \in CallRow /\ row[c].status \in CallStatuses /\ server[s] \in L!ServerType
  BY CallFields
<1>3. server[s].says \in {"completed", "busy", "ringing", "recording"}
  BY <1>2, ServerFields DEF L!Messages, L!Endings
<1>4. L!Recorded(s) \in L!DurationType
  BY <1>1, <1>2 DEF L!Recorded, L!DurationType, CallRow
<1>5. duration \in L!DurationType
  BY <1>1, <1>2, <1>3, <1>4 DEF L!Durations, L!DurationType, CallRow
<1>6. (IF server[s].says = "recording" THEN row[c].status ELSE server[s].says) \in CallStatuses
  BY <1>2, <1>3 DEF CallStatuses, L!Endings
<1> QED BY <1>1, <1>5, <1>6 DEF L!Told, CallRow

LEMMA ServerTyped ==
    ASSUME L!TypeOK, NEW s \in Servers,
           \/ L!DialCount(s) \/ L!DialRow(s) \/ L!CallbackWrite(s) \/ L!Activity(s) \/ L!Fails(s)
    PROVE  L!TypeOK'
<1>1. /\ row \in [CallIds -> CallRow] /\ line \in [CallIds -> LineStates]
      /\ wire \subseteq CallIds \X L!Messages /\ server \in [Servers -> L!ServerType]
      /\ timeline \in [CallIds -> Nat]
      /\ minute \subseteq CallIds /\ placed \subseteq CallIds /\ unseen \subseteq CallIds
      /\ astray \subseteq CallIds /\ unwritten \subseteq CallIds
      /\ beside \in 0 .. MaxBeside /\ mishaps \in 0 .. MaxMishaps
      /\ server[s] \in L!ServerType
  BY CallFields
<1>2. CASE L!DialCount(s)
  <2>1. PICK r \in L!ServerType : L!Begins(s, r)
    BY <1>2, ServerTypes DEF L!DialCount
  <2>2. server' \in [Servers -> L!ServerType]
    BY <2>1, OneServerMoves DEF L!Begins
  <2>3. beside' \in 0 .. MaxBeside
    BY <2>1, BeginTyped
  <2> QED BY <1>1, <1>2, <2>2, <2>3, CallTypes DEF L!DialCount
<1>3. CASE L!DialRow(s)
  <2>1. PICK c \in CallIds : c = server[s].call
    BY <1>1, <1>3, ServerFields DEF L!DialRow
  <2>2. row[c] \in CallRow
    BY <1>1
  <2>3. [row[c] EXCEPT !.status = "queued"] \in CallRow
    BY <2>2 DEF CallRow, CallStatuses
  <2>4. row' = [row EXCEPT ![c] = [row[c] EXCEPT !.status = "queued"]] /\ minute' = minute \cup {c}
    BY <1>3, <2>1 DEF L!DialRow
  <2>5. row' \in [CallIds -> CallRow] /\ minute' \subseteq CallIds
    BY <1>1, <2>3, <2>4
  <2>6. server' \in [Servers -> L!ServerType]
    BY <1>3, ServerTypes, OneServerMoves DEF L!DialRow, L!Returns
  <2> QED BY <1>1, <1>3, <2>5, <2>6, CallTypes DEF L!DialRow
<1>4. CASE L!CallbackWrite(s)
  <2>1. PICK c \in CallIds : c = server[s].call
    BY <1>1, <1>4, ServerFields DEF L!CallbackWrite
  <2>2. \A duration \in L!Durations(s) : L!Told(s, duration) \in CallRow
    BY <1>4, ToldTyped DEF L!CallbackWrite
  <2>3. row' = row \/ \E duration \in L!Durations(s) :
                        row' = [row EXCEPT ![c] = L!Told(s, duration)]
    BY <1>4, <2>1 DEF L!CallbackWrite
  <2>4. row' \in [CallIds -> CallRow]
    BY <1>1, <2>2, <2>3
  <2>5. PICK r \in L!ServerType : L!Goes(s, r)
    BY <1>4, <2>1, ServerTypes DEF L!CallbackWrite, L!Returns
  <2>6. server' \in [Servers -> L!ServerType]
    BY <2>5, OneServerMoves
  <2> QED BY <1>1, <1>4, <2>4, <2>6, CallTypes DEF L!CallbackWrite
<1>5. CASE L!Activity(s)
  <2>1. PICK c \in CallIds : c = server[s].call
    BY <1>1, <1>5, ServerFields DEF L!Activity
  <2>2. timeline[c] \in Nat /\ timeline' = [timeline EXCEPT ![c] = timeline[c] + 1]
    BY <1>1, <1>5, <2>1 DEF L!Activity
  <2>3. timeline' \in [CallIds -> Nat]
    BY <1>1, <2>2
  <2>4. server' \in [Servers -> L!ServerType]
    BY <1>5, ServerTypes, OneServerMoves DEF L!Activity, L!Returns
  <2> QED BY <1>1, <1>5, <2>3, <2>4, CallTypes DEF L!Activity
<1>6. CASE L!Fails(s)
  <2>1. server' \in [Servers -> L!ServerType]
    BY <1>6, ServerTypes, OneServerMoves DEF L!Fails, L!Returns
  <2>2. mishaps' \in 0 .. MaxMishaps
    BY <1>6, MishapTyped DEF L!Fails
  <2>3. unseen' \subseteq CallIds /\ astray' \subseteq CallIds /\ unwritten' \subseteq CallIds
    BY <1>1, <1>6, ServerFields DEF L!Fails
  <2> QED BY <1>1, <1>6, <2>1, <2>2, <2>3, CallTypes DEF L!Fails
<1> QED BY <1>2, <1>3, <1>4, <1>5, <1>6

LEMMA MessageTyped ==
    ASSUME L!TypeOK, NEW s \in Servers, NEW c \in CallIds,
           \/ L!DialPlace(s, c) \/ L!LogCall(s, c)
           \/ \E m \in L!Messages : L!CallbackRead(s, c, m)
    PROVE  L!TypeOK'
<1>1. /\ row \in [CallIds -> CallRow] /\ line \in [CallIds -> LineStates]
      /\ wire \subseteq CallIds \X L!Messages /\ server \in [Servers -> L!ServerType]
      /\ timeline \in [CallIds -> Nat]
      /\ minute \subseteq CallIds /\ placed \subseteq CallIds /\ unseen \subseteq CallIds
      /\ astray \subseteq CallIds /\ unwritten \subseteq CallIds
      /\ beside \in 0 .. MaxBeside /\ mishaps \in 0 .. MaxMishaps
      /\ row[c] \in CallRow
  BY CallFields
<1>2. CASE L!DialPlace(s, c)
  <2>1. PICK r \in L!ServerType : L!Goes(s, r)
    BY <1>2, ServerTypes DEF L!DialPlace
  <2>2. server' \in [Servers -> L!ServerType]
    BY <2>1, OneServerMoves
  <2>3. line' \in [CallIds -> LineStates] /\ placed' \subseteq CallIds
    BY <1>1, <1>2 DEF L!DialPlace, LineStates
  <2> QED BY <1>1, <1>2, <2>2, <2>3, CallTypes DEF L!DialPlace
<1>3. CASE L!LogCall(s, c)
  <2>1. PICK r \in L!ServerType : L!Begins(s, r)
    BY <1>3, ServerTypes DEF L!LogCall
  <2>2. server' \in [Servers -> L!ServerType]
    BY <2>1, OneServerMoves DEF L!Begins
  <2>3. [row[c] EXCEPT !.status = "logged"] \in CallRow
    BY <1>1 DEF CallRow, CallStatuses
  <2>4. row' = [row EXCEPT ![c] = [row[c] EXCEPT !.status = "logged"]] /\ minute' = minute \cup {c}
    BY <1>3 DEF L!LogCall
  <2>5. row' \in [CallIds -> CallRow] /\ minute' \subseteq CallIds /\ beside' \in 0 .. MaxBeside
    BY <1>1, <2>1, <2>3, <2>4, BeginTyped
  <2> QED BY <1>1, <1>3, <2>2, <2>5, CallTypes DEF L!LogCall
<1>4. ASSUME NEW m \in L!Messages, L!CallbackRead(s, c, m) PROVE L!TypeOK'
  <2>1. wire' \subseteq CallIds \X L!Messages /\ astray' \subseteq CallIds
    BY <1>1, <1>4 DEF L!CallbackRead
  <2>2. mishaps' \in 0 .. MaxMishaps
    BY <1>4, MishapTyped DEF L!CallbackRead
  <2>3. server' \in [Servers -> L!ServerType] /\ beside' \in 0 .. MaxBeside
    <3>1. CASE L!There(c)
      <4>1. row[c].duration \in L!DurationType
        BY CallFields
      <4>2. PICK r \in L!ServerType : L!Begins(s, r)
        BY <1>4, <3>1, <4>1, ServerTypes DEF L!CallbackRead
      <4> QED BY <4>2, BeginTyped, OneServerMoves DEF L!Begins
    <3>2. CASE ~L!There(c)
      BY <1>1, <1>4, <3>2 DEF L!CallbackRead
    <3> QED BY <3>1, <3>2
  <2> QED BY <1>1, <1>4, <2>1, <2>2, <2>3, CallTypes DEF L!CallbackRead
<1> QED BY <1>2, <1>3, <1>4

\* No more calls, no more dials, and what leaves the minute is accounted for
LEMMA DialsStay ==
    ASSUME L!TypeOK, DialsCounted, IsFiniteSet(minute'), IsFiniteSet(unseen'),
           placed' \subseteq placed, unseen \subseteq unseen', Dialing' \subseteq Dialing,
           placed' \subseteq minute' \cup unseen' \cup Awaiting', beside' \in Nat, beside <= beside'
    PROVE  DialsCounted'
<1>1. /\ IsFiniteSet(placed) /\ IsFiniteSet(unseen) /\ IsFiniteSet(Dialing)
      /\ Cardinality(placed) + Cardinality(Dialing) <= MaxDials + beside + Cardinality(unseen)
  BY DEF DialsCounted
<1>2. /\ IsFiniteSet(placed') /\ Cardinality(placed') \in Nat /\ Cardinality(placed) \in Nat
      /\ Cardinality(placed') <= Cardinality(placed)
  BY <1>1, FS_Subset, FS_CardinalityType
<1>3. /\ IsFiniteSet(Dialing') /\ Cardinality(Dialing') \in Nat /\ Cardinality(Dialing) \in Nat
      /\ Cardinality(Dialing') <= Cardinality(Dialing)
  BY <1>1, FS_Subset, FS_CardinalityType
<1>4. /\ Cardinality(unseen) \in Nat /\ Cardinality(unseen') \in Nat
      /\ Cardinality(unseen) <= Cardinality(unseen')
  BY <1>1, FS_Subset, FS_CardinalityType
<1>5. MaxDials \in Nat /\ beside \in Nat
  BY CallFields
<1>6. Cardinality(placed') + Cardinality(Dialing') <= MaxDials + beside' + Cardinality(unseen')
  BY <1>1, <1>2, <1>3, <1>4, <1>5
<1> QED BY <1>2, <1>3, <1>6 DEF DialsCounted

\* A request that moves leaves the others where they are
LEMMA ServerLeaves ==
    ASSUME L!TypeOK, NEW s \in Servers, NEW r \in L!ServerType, L!Goes(s, r), r.pc # "dial"
    PROVE  /\ Dialing' = Dialing \ {s}
           /\ \A c \in Awaiting : c \in Awaiting' \/ Inserts(s, c)
<1>1. \A t \in Servers : server'[t] = IF t = s THEN r ELSE server[t]
  BY OneServerMoves
<1> QED BY <1>1 DEF Dialing, Awaiting, Inserts

\* Somebody edits or deletes a row, Twilio goes on, or a minute passes
LEMMA DialsRest ==
    ASSUME CallInv, NEW c \in CallIds,
           L!Update(c) \/ L!Remove(c) \/ L!Rings(c) \/ L!HangsUp(c) \/ L!MinutePasses(c)
    PROVE  DialsCounted'
<1>1. /\ L!TypeOK /\ DialsCounted /\ UNCHANGED <<server, beside>> /\ beside \in Nat
      /\ IsFiniteSet(minute) /\ IsFiniteSet(placed) /\ IsFiniteSet(unseen)
      /\ placed \subseteq minute \cup unseen \cup Awaiting
  BY CallFields DEF CallInv, DialsCounted, L!Update, L!Remove, L!Rings, L!HangsUp, L!MinutePasses
<1>2. Dialing' = Dialing /\ Awaiting' = Awaiting
  BY <1>1 DEF Dialing, Awaiting, Inserts
<1>3. CASE L!Update(c) \/ L!Rings(c) \/ L!HangsUp(c)
  <2>1. UNCHANGED <<minute, placed, unseen>>
    BY <1>3 DEF L!Update, L!Rings, L!HangsUp
  <2> QED BY <1>1, <1>2, <2>1, DialsStay
<1>4. CASE L!Remove(c)
  <2>1. /\ minute' = minute \ {c} /\ unseen' = unseen \cup ({c} \cap placed)
        /\ placed' = placed
    BY <1>4 DEF L!Remove
  <2>2. IsFiniteSet({c} \cap placed)
    BY <1>1, FS_Subset
  <2>3. IsFiniteSet(minute') /\ IsFiniteSet(unseen')
    BY <1>1, <2>1, <2>2, FS_RemoveElement, FS_Union
  <2>4. placed' \subseteq minute' \cup unseen' \cup Awaiting'
    BY <1>1, <1>2, <2>1
  <2> QED BY <1>1, <1>2, <2>1, <2>3, <2>4, DialsStay
<1>5. CASE L!MinutePasses(c)
  <2>1. /\ unseen' = unseen
        /\ \/ c \in placed /\ placed' = placed \ {c} /\ minute' = minute
           \/ c \in minute \ placed /\ minute' = minute \ {c} /\ placed' = placed
    BY <1>5 DEF L!MinutePasses
  <2>2. IsFiniteSet(minute') /\ IsFiniteSet(unseen')
    BY <1>1, <2>1, FS_RemoveElement
  <2>3. placed' \subseteq minute' \cup unseen' \cup Awaiting'
    BY <1>1, <1>2, <2>1
  <2> QED BY <1>1, <1>2, <2>1, <2>2, <2>3, DialsStay
<1> QED BY <1>3, <1>4, <1>5

\* A request goes on, ends or begins, and is not a dial that is let through
LEMMA DialsGoOn ==
    ASSUME CallInv, NEW s \in Servers,
           \/ L!DialRow(s) \/ L!CallbackWrite(s) \/ L!Activity(s) \/ L!Fails(s)
           \/ \E c \in CallIds : L!LogCall(s, c)
           \/ \E c \in CallIds, m \in L!Messages : L!CallbackRead(s, c, m)
    PROVE  DialsCounted'
<1>1. /\ L!TypeOK /\ DialsCounted /\ beside \in Nat /\ server[s] \in L!ServerType
      /\ IsFiniteSet(minute) /\ IsFiniteSet(placed) /\ IsFiniteSet(unseen)
      /\ placed \subseteq minute \cup unseen \cup Awaiting
  BY CallFields DEF CallInv, DialsCounted
<1>2. L!Waiting \in L!ServerType /\ L!Waiting.pc = "idle"
  BY ServerTypes DEF L!Waiting
<1>3. CASE L!DialRow(s)
  <2>1. /\ minute' = minute \cup {server[s].call} /\ L!Goes(s, L!Waiting)
        /\ UNCHANGED <<placed, unseen, beside>>
    BY <1>3 DEF L!DialRow, L!Returns
  <2>2. /\ Dialing' = Dialing \ {s}
        /\ \A c \in Awaiting : c \in Awaiting' \/ Inserts(s, c)
    BY <1>1, <1>2, <2>1, ServerLeaves
  <2>3. placed' \subseteq minute' \cup unseen' \cup Awaiting'
    BY <1>1, <2>1, <2>2 DEF Inserts
  <2>4. IsFiniteSet(minute') /\ IsFiniteSet(unseen')
    BY <1>1, <2>1, FS_AddElement
  <2> QED BY <1>1, <2>1, <2>2, <2>3, <2>4, DialsStay
<1>4. CASE L!CallbackWrite(s) \/ L!Activity(s)
  <2>1. /\ UNCHANGED <<minute, placed, unseen, beside>>
        /\ server[s].pc = "callback" \/ server[s].pc = "activity"
    BY <1>4 DEF L!CallbackWrite, L!Activity
  <2>2. PICK r \in L!ServerType : r.pc # "dial" /\ L!Goes(s, r)
    <3>1. server[s].call \in CallIds
      BY <1>1, <2>1, ServerFields
    <3> QED BY <1>2, <1>4, <3>1, ServerTypes DEF L!CallbackWrite, L!Activity, L!Returns
  <2>3. /\ Dialing' = Dialing \ {s}
        /\ \A c \in Awaiting : c \in Awaiting'
    BY <1>1, <2>1, <2>2, ServerLeaves DEF Inserts
  <2> QED BY <1>1, <2>1, <2>3, DialsStay
<1>5. CASE L!Fails(s)
  <2>1. /\ L!Goes(s, L!Waiting) /\ UNCHANGED <<minute, placed, beside>>
        /\ unseen' = IF server[s].pc = "row" THEN unseen \cup {server[s].call} ELSE unseen
    BY <1>5 DEF L!Fails, L!Returns
  <2>2. /\ Dialing' = Dialing \ {s}
        /\ \A c \in Awaiting : c \in Awaiting' \/ Inserts(s, c)
    BY <1>1, <1>2, <2>1, ServerLeaves
  <2>3. placed' \subseteq minute' \cup unseen' \cup Awaiting'
    BY <1>1, <2>1, <2>2 DEF Inserts
  <2>4. IsFiniteSet(unseen') /\ unseen \subseteq unseen'
    BY <1>1, <2>1, FS_AddElement
  <2> QED BY <1>1, <2>1, <2>2, <2>3, <2>4, DialsStay
<1>6. ASSUME NEW c \in CallIds, L!LogCall(s, c) PROVE DialsCounted'
  <2>1. PICK r \in L!ServerType : r.pc = "activity" /\ L!Begins(s, r)
    BY <1>6, ServerTypes DEF L!LogCall
  <2>2. /\ minute' = minute \cup {c} /\ UNCHANGED <<placed, unseen>>
        /\ L!Goes(s, r) /\ server[s].pc = "idle"
    BY <1>2, <1>6, <2>1 DEF L!LogCall, L!Begins
  <2>3. /\ Dialing' = Dialing \ {s}
        /\ \A d \in Awaiting : d \in Awaiting'
    BY <1>1, <2>1, <2>2, ServerLeaves DEF Inserts
  <2>4. IsFiniteSet(minute')
    BY <1>1, <2>2, FS_AddElement
  <2>5. beside' \in Nat /\ beside <= beside'
    BY <1>1, <2>1, BeginTyped
  <2> QED BY <1>1, <2>2, <2>3, <2>4, <2>5, DialsStay
<1>7. ASSUME NEW c \in CallIds, NEW m \in L!Messages, L!CallbackRead(s, c, m) PROVE DialsCounted'
  <2>1. UNCHANGED <<minute, placed, unseen>>
    BY <1>7 DEF L!CallbackRead
  <2>2. CASE L!There(c)
    <3>1. row[c].duration \in L!DurationType
      BY <1>1, CallFields
    <3>2. PICK r \in L!ServerType : r.pc = "callback" /\ L!Begins(s, r)
      BY <1>7, <2>2, <3>1, ServerTypes DEF L!CallbackRead
    <3>3. L!Goes(s, r) /\ server[s].pc = "idle"
      BY <1>2, <3>2 DEF L!Begins
    <3>4. /\ Dialing' = Dialing \ {s}
          /\ \A d \in Awaiting : d \in Awaiting'
      BY <1>1, <3>2, <3>3, ServerLeaves DEF Inserts
    <3>5. beside' \in Nat /\ beside <= beside'
      BY <1>1, <3>2, BeginTyped
    <3> QED BY <1>1, <2>1, <3>4, <3>5, DialsStay
  <2>3. CASE ~L!There(c)
    <3>1. UNCHANGED <<server, beside>>
      BY <1>7, <2>3 DEF L!CallbackRead
    <3>2. Dialing' = Dialing /\ Awaiting' = Awaiting
      BY <3>1 DEF Dialing, Awaiting, Inserts
    <3> QED BY <1>1, <2>1, <3>1, <3>2, DialsStay
  <2> QED BY <2>2, <2>3
<1> QED BY <1>3, <1>4, <1>5, <1>6, <1>7

\* A dial that begins alone has counted every call of the minute that has a row
LEMMA DialLetThrough ==
    ASSUME CallInv, NEW s \in Servers, L!DialCount(s)
    PROVE  DialsCounted'
<1>1. /\ L!TypeOK /\ beside \in Nat /\ MaxDials \in Nat
      /\ IsFiniteSet(minute) /\ IsFiniteSet(placed) /\ IsFiniteSet(unseen) /\ IsFiniteSet(Dialing)
      /\ placed \subseteq minute \cup unseen \cup Awaiting
      /\ Cardinality(placed) + Cardinality(Dialing) <= MaxDials + beside + Cardinality(unseen)
      /\ UNCHANGED <<minute, placed, unseen>>
  BY CallFields DEF CallInv, DialsCounted, L!DialCount
<1>2. /\ Cardinality(minute) \in Nat /\ Cardinality(placed) \in Nat /\ Cardinality(unseen) \in Nat
      /\ Cardinality(Dialing) \in Nat
  BY <1>1, FS_CardinalityType
<1>3. Cardinality(minute) < MaxDials
  <2>1. L!Cardinality(minute) = Cardinality(minute)
    BY Zenon DEF L!Cardinality, Cardinality
  <2>2. L!Cardinality(minute) < MaxDials
    BY DEF L!DialCount, L!MayDial
  <2> QED BY <2>1, <2>2
<1>4. PICK r \in L!ServerType : r.pc = "dial" /\ L!Begins(s, r)
  BY ServerTypes DEF L!DialCount
<1>5. server[s] = L!Waiting /\ L!Waiting.pc = "idle" /\ L!Goes(s, r)
  BY <1>4 DEF L!Begins, L!Waiting
<1>6. \A t \in Servers : server'[t] = IF t = s THEN r ELSE server[t]
  BY <1>1, <1>5, OneServerMoves
<1> DEFINE more == Dialing \cup {s}
<1>7. Dialing' = more /\ s \notin Dialing
  BY <1>4, <1>5, <1>6 DEF Dialing
<1>8. IsFiniteSet(more) /\ Cardinality(more) = Cardinality(Dialing) + 1
  BY <1>1, <1>7, FS_AddElement
<1> HIDE DEF more
<1>9. Awaiting \subseteq Awaiting'
  BY <1>5, <1>6 DEF Awaiting, Inserts
<1>10. CASE \E t \in Servers : server[t] # L!Waiting
  <2>1. beside' = beside + 1
    BY <1>4, <1>10 DEF L!Begins
  <2>2. Cardinality(placed') + Cardinality(more) <= MaxDials + beside' + Cardinality(unseen')
    BY <1>1, <1>2, <1>8, <2>1
  <2> QED BY <1>1, <1>7, <1>8, <1>9, <2>2 DEF DialsCounted
<1>11. CASE ~\E t \in Servers : server[t] # L!Waiting
  <2>1. beside' = beside /\ \A t \in Servers : server[t] = L!Waiting
    BY <1>4, <1>11 DEF L!Begins
  <2>2. Dialing = {} /\ Awaiting = {}
    BY <1>5, <2>1 DEF Dialing, Awaiting, Inserts
  <2>3. /\ IsFiniteSet(minute \cup unseen) /\ Cardinality(minute \cap unseen) \in Nat
        /\ Cardinality(minute \cup unseen) =
             Cardinality(minute) + Cardinality(unseen) - Cardinality(minute \cap unseen)
    BY <1>1, FS_Union, FS_Subset, FS_CardinalityType
  <2>4. Cardinality(placed) <= Cardinality(minute \cup unseen)
    BY <1>1, <2>2, <2>3, FS_Subset
  <2>5. Cardinality(Dialing) = 0
    BY <2>2, FS_EmptySet
  <2>6. Cardinality(placed') + Cardinality(more) <= MaxDials + beside' + Cardinality(unseen')
    BY <1>1, <1>2, <1>3, <1>8, <2>1, <2>3, <2>4, <2>5
  <2> QED BY <1>1, <1>7, <1>8, <1>9, <2>6 DEF DialsCounted
<1> QED BY <1>10, <1>11

LEMMA DialPlaced ==
    ASSUME CallInv, NEW s \in Servers, NEW c \in CallIds, L!DialPlace(s, c)
    PROVE  DialsCounted'
<1>1. /\ L!TypeOK /\ beside \in Nat /\ MaxDials \in Nat
      /\ IsFiniteSet(minute) /\ IsFiniteSet(placed) /\ IsFiniteSet(unseen) /\ IsFiniteSet(Dialing)
      /\ placed \subseteq minute \cup unseen \cup Awaiting
      /\ Cardinality(placed) + Cardinality(Dialing) <= MaxDials + beside + Cardinality(unseen)
      /\ UNCHANGED <<minute, unseen, beside>> /\ server[s].pc = "dial"
  BY CallFields DEF CallInv, DialsCounted, L!DialPlace
<1>2. PICK r \in L!ServerType : r.pc = "row" /\ r.call = c /\ L!Goes(s, r)
  BY ServerTypes DEF L!DialPlace
<1>3. \A t \in Servers : server'[t] = IF t = s THEN r ELSE server[t]
  BY <1>1, <1>2, OneServerMoves
<1>4. \A d \in Awaiting \cup {c} : d \in Awaiting'
  BY <1>1, <1>2, <1>3 DEF Awaiting, Inserts
<1> DEFINE fewer == Dialing \ {s}
           more  == placed \cup {c}
<1>5. Dialing' = fewer /\ s \in Dialing /\ placed' = more
  BY <1>1, <1>2, ServerLeaves DEF Dialing, L!DialPlace
<1>6. /\ IsFiniteSet(fewer) /\ Cardinality(fewer) = Cardinality(Dialing) - 1
      /\ IsFiniteSet(more) /\ Cardinality(more) <= Cardinality(placed) + 1
      /\ Cardinality(more) \in Nat /\ Cardinality(fewer) \in Nat
  <2>1. Cardinality(placed) \in Nat
    BY <1>1, FS_CardinalityType
  <2>2. IsFiniteSet(fewer) /\ Cardinality(fewer) = Cardinality(Dialing) - 1
    BY <1>1, <1>5, FS_RemoveElement
  <2>3. IsFiniteSet(more) /\ Cardinality(more) <= Cardinality(placed) + 1
    <3>1. /\ IsFiniteSet(more)
          /\ Cardinality(more) = IF c \in placed THEN Cardinality(placed) ELSE Cardinality(placed) + 1
      BY <1>1, FS_AddElement
    <3> HIDE DEF more
    <3> QED BY <2>1, <3>1
  <2>4. Cardinality(more) \in Nat /\ Cardinality(fewer) \in Nat
    BY <2>2, <2>3, FS_CardinalityType
  <2> QED BY <2>2, <2>3, <2>4
<1>7. more \subseteq minute' \cup unseen' \cup Awaiting'
  BY <1>1, <1>4
<1>8. /\ Cardinality(placed) \in Nat /\ Cardinality(Dialing) \in Nat /\ Cardinality(unseen) \in Nat
  BY <1>1, FS_CardinalityType
<1> HIDE DEF fewer, more
<1>9. Cardinality(more) + Cardinality(fewer) <= MaxDials + beside' + Cardinality(unseen')
  BY <1>1, <1>6, <1>8
<1> QED BY <1>1, <1>5, <1>6, <1>7, <1>9 DEF DialsCounted

LEMMA MinuteLeavesCall ==
    ASSUME CallInv, NEW d \in CallIds, L!MinutePasses(d), NEW c \in CallIds
    PROVE  OfCall(c)'
<1>1. /\ L!TypeOK /\ OfCall(c) /\ mishaps \in Nat
      /\ UNCHANGED <<row, line, wire, server, timeline, astray, unwritten, mishaps>>
  BY CallFields DEF CallInv, L!MinutePasses
<1>2. SameCall(c)
  BY <1>1 DEF SameCall, Inserts, Writes, Tells
<1> QED BY <1>1, <1>2, OtherCallStays

LEMMA CallInvariant == ServicesSpec => []CallInv
<1>1. ServicesInit => CallInv
  BY CallInit DEF ServicesInit
<1>2. CallInv /\ UNCHANGED callRows => CallInv'
  <2> SUFFICES ASSUME CallInv, UNCHANGED callRows PROVE CallInv'
    OBVIOUS
  <2>1. L!TypeOK' /\ DialsCounted'
    BY DEF CallInv, callRows, L!TypeOK, DialsCounted, Dialing, Awaiting, Inserts
  <2>2. ASSUME NEW c \in CallIds PROVE OfCall(c)'
    <3>1. SameCall(c) /\ L!TypeOK /\ OfCall(c)
      BY CallFields DEF CallInv, callRows, SameCall, Inserts, Writes, Tells
    <3> QED BY <3>1, OtherCallStays
  <2> QED BY <2>1, <2>2 DEF CallInv
<1>3. CallInv /\ L!Next => CallInv'
  <2> SUFFICES ASSUME CallInv, L!Next PROVE CallInv'
    OBVIOUS
  <2>1. L!TypeOK
    BY DEF CallInv
  <2>2. ASSUME NEW d \in CallIds,
               L!Update(d) \/ L!Remove(d) \/ L!Rings(d) \/ L!HangsUp(d) \/ L!MinutePasses(d)
        PROVE  CallInv'
    <3>1. L!TypeOK' /\ DialsCounted'
      BY <2>1, <2>2, PeopleTyped, DialsRest
    <3>2. \A c \in CallIds : OfCall(c)'
      BY <2>2, RowEdited, TwilioMoves, MinuteLeavesCall
    <3> QED BY <3>1, <3>2 DEF CallInv
  <2>3. ASSUME NEW s \in Servers, L!DialCount(s) \/ L!DialRow(s) PROVE CallInv'
    <3>1. L!TypeOK' /\ DialsCounted'
      BY <2>1, <2>3, ServerTyped, DialLetThrough, DialsGoOn
    <3>2. \A c \in CallIds : OfCall(c)'
      BY <2>3, DialMoves
    <3> QED BY <3>1, <3>2 DEF CallInv
  <2>4. ASSUME NEW s \in Servers, L!CallbackWrite(s) \/ L!Activity(s) \/ L!Fails(s) PROVE CallInv'
    <3>1. L!TypeOK' /\ DialsCounted'
      BY <2>1, <2>4, ServerTyped, DialsGoOn
    <3>2. \A c \in CallIds : OfCall(c)'
      BY <2>4, CallbackWrites, EntryWritten, RequestFails
    <3> QED BY <3>1, <3>2 DEF CallInv
  <2>5. ASSUME NEW s \in Servers, NEW d \in CallIds, L!DialPlace(s, d) PROVE CallInv'
    <3>1. L!TypeOK' /\ DialsCounted'
      BY <2>1, <2>5, MessageTyped, DialPlaced
    <3>2. \A c \in CallIds : OfCall(c)'
      BY <2>5, DialMoves
    <3> QED BY <3>1, <3>2 DEF CallInv
  <2>6. ASSUME NEW s \in Servers, NEW d \in CallIds, L!LogCall(s, d) PROVE CallInv'
    <3>1. L!TypeOK' /\ DialsCounted'
      BY <2>1, <2>6, MessageTyped, DialsGoOn
    <3>2. \A c \in CallIds : OfCall(c)'
      BY <2>6, CallLogged
    <3> QED BY <3>1, <3>2 DEF CallInv
  <2>7. ASSUME NEW s \in Servers, NEW d \in CallIds, NEW m \in L!Messages, L!CallbackRead(s, d, m)
        PROVE  CallInv'
    <3>1. L!TypeOK' /\ DialsCounted'
      BY <2>1, <2>7, MessageTyped, DialsGoOn
    <3>2. \A c \in CallIds : OfCall(c)'
      BY <2>7, CallbackArrives
    <3> QED BY <3>1, <3>2 DEF CallInv
  <2> QED BY <2>2, <2>3, <2>4, <2>5, <2>6, <2>7 DEF L!Next
<1>4. CallInv /\ [ServicesNext]_vars => CallInv'
  BY <1>2, <1>3, CallMoves
<1> QED BY <1>1, <1>4, PTL DEF ServicesSpec

\* Within a minute Twilio places no more calls than the limit, one more for each request that
\* began beside another, and one more for each call whose row is missing.
THEOREM CallDialsBounded == ServicesSpec => []DialsBounded
<1>1. CallInv => L!DialsBounded
  <2> SUFFICES ASSUME CallInv PROVE L!DialsBounded
    OBVIOUS
  <2>1. /\ IsFiniteSet(placed) /\ IsFiniteSet(Dialing) /\ IsFiniteSet(unseen)
        /\ Cardinality(placed) + Cardinality(Dialing) <= MaxDials + beside + Cardinality(unseen)
    BY DEF CallInv, DialsCounted
  <2>2. /\ Cardinality(placed) \in Nat /\ Cardinality(Dialing) \in Nat
        /\ Cardinality(unseen) \in Nat /\ MaxDials \in Nat /\ beside \in Nat
    BY <2>1, FS_CardinalityType, CallFields DEF CallInv
  <2>3. /\ L!Cardinality(placed) = Cardinality(placed)
        /\ L!Cardinality(unseen) = Cardinality(unseen)
    BY Zenon DEF L!Cardinality, Cardinality
  <2> QED BY <2>1, <2>2, <2>3 DEF L!DialsBounded
<1>2. CallInv => DialsBounded
  BY <1>1 DEF DialsBounded
<1> QED BY <1>2, CallInvariant, PTL

\* Every call that says it was logged or completed has its entry, is having it written or has
\* lost it; an entry is of a call that is over and comes once, and once more for each mishap;
\* and a call all of whose callbacks came in turn says how it ended and how long it took.
THEOREM CallLeavesItsTrace == ServicesSpec => []CallLeavesTrace
<1>1. CallInv => L!CallLeavesTrace
  <2> SUFFICES ASSUME CallInv, NEW c \in CallIds
               PROVE  /\ row[c].status \in {"logged", "completed"} =>
                           timeline[c] > 0 \/ L!InHand(c) \/ c \in unwritten
                      /\ timeline[c] <= 1 + mishaps
                      /\ timeline[c] > 0 => line[c] \in {"none", "completed"}
                      /\ /\ line[c] \in L!Endings /\ c \notin astray /\ L!There(c) /\ ~L!InHand(c)
                         /\ wire \cap ({c} \X L!Messages) = {}
                         => /\ row[c].status = line[c]
                            /\ line[c] = "completed" =>
                                   row[c].duration \notin {"none", "recording"}
    BY DEF L!CallLeavesTrace
  <2>1. L!TypeOK /\ InTurn(c) /\ Traced(c) /\ EntriesCounted(c)
    BY DEF CallInv, OfCall
  <2>2. (\E s \in Servers : Writes(s, c)) => L!InHand(c)
    BY DEF Writes, L!InHand
  <2>3. row[c].status \in {"logged", "completed"} =>
          timeline[c] > 0 \/ L!InHand(c) \/ c \in unwritten
    BY <2>1, <2>2 DEF Traced
  <2>4. timeline[c] > 0 => line[c] \in {"none", "completed"}
    BY <2>1 DEF Traced
  <2>5. timeline[c] <= 1 + mishaps
    <3>1. /\ Cardinality(Completing(c)) \in Nat /\ EndOnTheWire(c) \in Nat /\ NotOver(c) \in Nat
          /\ timeline[c] \in Nat /\ mishaps \in Nat
      BY <2>1, FS_CardinalityType, CallFields DEF EntriesCounted, EndOnTheWire, NotOver
    <3> QED BY <2>1, <3>1 DEF EntriesCounted
  <2>6. ASSUME line[c] \in L!Endings, c \notin astray, L!There(c), ~L!InHand(c),
               wire \cap ({c} \X L!Messages) = {}
        PROVE  /\ row[c].status = line[c]
               /\ line[c] = "completed" => row[c].duration \notin {"none", "recording"}
    <3>1. <<c, line[c]>> \notin wire
      BY <2>6 DEF L!Messages
    <3>2. EndIsTold(c)
      BY <2>6, <3>1 DEF EndIsTold, Tells, L!InHand
    <3> QED BY <2>1, <2>6, <3>2 DEF InTurn, Lasting
  <2> QED BY <2>3, <2>4, <2>5, <2>6
<1>2. CallInv => CallLeavesTrace
  BY <1>1 DEF CallLeavesTrace
<1> QED BY <1>2, CallInvariant, PTL

--------------------------------------------------------------------------------
(* Client hierarchy *)

\* A set that has 0 and the successor of each number it has has them all
LEMMA NumberInduction ==
    ASSUME NEW F, 0 \in F, \A n \in Nat : n \in F => n + 1 \in F
    PROVE  \A n \in Nat : n \in F
<1> DEFINE Missing == {n \in Nat : n \notin F}
<1> SUFFICES ASSUME Missing # {} PROVE FALSE
  OBVIOUS
<1>1. PICK least \in Missing : \A other \in Missing : ~ (other < least)
  <2>1. Missing \subseteq Nat
    OBVIOUS
  <2> HIDE DEF Missing
  <2> QED BY <2>1, LeastOf
<1>2. least \in Nat /\ least # 0 /\ least \notin F
  OBVIOUS
<1>3. least - 1 \in Nat /\ least - 1 < least /\ (least - 1) + 1 = least
  BY <1>2
<1>4. least - 1 \in F
  BY <1>1, <1>3
<1> QED BY <1>2, <1>3, <1>4

\* One step up along a column
Up(column, x) == IF x = "none" THEN "none" ELSE column[x]

IsPath(g, column, c, n) ==
    g = [k \in 0 .. n |-> IF k = 0 THEN c ELSE Up(column, g[k - 1])]

LEMMA PathSteps ==
    ASSUME NEW g, NEW column, NEW c, NEW n \in Nat, IsPath(g, column, c, n)
    PROVE  g[0] = c /\ \A k \in 0 .. n : k # 0 => g[k] = Up(column, g[k - 1])
<1>1. \A k \in 0 .. n : g[k] = IF k = 0 THEN c ELSE Up(column, g[k - 1])
  BY DEF IsPath
<1>2. 0 \in 0 .. n
  OBVIOUS
<1> QED BY <1>1, <1>2

LEMMA PathExists ==
    ASSUME NEW column, NEW c
    PROVE  \A n \in Nat : \E g : IsPath(g, column, c, n)
<1> DEFINE F == {n \in Nat : \E g : IsPath(g, column, c, n)}
<1>1. 0 \in F
  <2> DEFINE g == [k \in 0 .. 0 |-> c]
  <2>1. \A k \in 0 .. 0 : k = 0
    OBVIOUS
  <2>2. [k \in 0 .. 0 |-> IF k = 0 THEN c ELSE Up(column, g[k - 1])] = g
    BY <2>1
  <2> HIDE DEF g
  <2> QED BY <2>2 DEF IsPath
<1>2. ASSUME NEW n \in Nat, n \in F PROVE n + 1 \in F
  <2>1. PICK g : IsPath(g, column, c, n)
    BY <1>2
  <2>2. g[0] = c /\ \A k \in 0 .. n : k # 0 => g[k] = Up(column, g[k - 1])
    BY <2>1, PathSteps
  <2> DEFINE h == [k \in 0 .. (n + 1) |-> IF k = n + 1 THEN Up(column, g[n]) ELSE g[k]]
             f == [k \in 0 .. (n + 1) |-> IF k = 0 THEN c ELSE Up(column, h[k - 1])]
  <2>3. ASSUME NEW k \in 0 .. (n + 1) PROVE h[k] = f[k]
    <3>1. CASE k = 0
      BY <2>2, <3>1
    <3>2. CASE k # 0 /\ k # n + 1
      <4>1. k - 1 \in 0 .. (n + 1) /\ k - 1 # n + 1 /\ k \in 0 .. n
        BY <3>2
      <4>2. h[k - 1] = g[k - 1] /\ h[k] = g[k]
        BY <3>2, <4>1
      <4>3. f[k] = Up(column, h[k - 1])
        BY <3>2
      <4> QED BY <2>2, <3>2, <4>1, <4>2, <4>3
    <3>3. CASE k = n + 1
      <4>1. k - 1 = n /\ n \in 0 .. (n + 1) /\ n # n + 1 /\ k # 0
        BY <3>3
      <4>2. h[n] = g[n] /\ h[k] = Up(column, g[n])
        BY <3>3, <4>1
      <4>3. f[k] = Up(column, h[n])
        BY <4>1
      <4> QED BY <4>2, <4>3
    <3> QED BY <3>1, <3>2, <3>3
  <2>4. h = f
    BY <2>3
  <2> HIDE DEF h
  <2>5. IsPath(h, column, c, n + 1)
    BY <2>4 DEF IsPath
  <2> QED BY <2>5
<1> HIDE DEF F
<1>3. \A n \in Nat : n \in F
  BY <1>1, <1>2, NumberInduction
<1> QED BY <1>3 DEF F

LEMMA PathsAgree ==
    ASSUME NEW column, NEW c, NEW n \in Nat, NEW m \in Nat, n <= m,
           NEW g, IsPath(g, column, c, n), NEW h, IsPath(h, column, c, m)
    PROVE  \A k \in 0 .. n : g[k] = h[k]
<1> DEFINE F == {k \in Nat : k \in 0 .. n => g[k] = h[k]}
<1>1. /\ g[0] = c /\ h[0] = c
      /\ \A k \in 0 .. n : k # 0 => g[k] = Up(column, g[k - 1]) /\ h[k] = Up(column, h[k - 1])
  <2>1. g[0] = c /\ \A k \in 0 .. n : k # 0 => g[k] = Up(column, g[k - 1])
    BY PathSteps
  <2>2. h[0] = c /\ \A k \in 0 .. m : k # 0 => h[k] = Up(column, h[k - 1])
    BY PathSteps
  <2> QED BY <2>1, <2>2
<1>2. 0 \in F
  BY <1>1
<1>3. ASSUME NEW k \in Nat, k \in F PROVE k + 1 \in F
  <2>1. k + 1 \in 0 .. n => k \in 0 .. n /\ (k + 1) - 1 = k /\ k + 1 # 0
    OBVIOUS
  <2> QED BY <1>1, <1>3, <2>1
<1> HIDE DEF F
<1>4. \A k \in Nat : k \in F
  BY <1>2, <1>3, NumberInduction
<1> QED BY <1>4 DEF F

\* What is reached in one step more is one step up
LEMMA ClimbSteps ==
    ASSUME NEW column, NEW c, NEW n \in Nat
    PROVE  /\ H!Climb(column, c, 0) = c
           /\ H!Climb(column, c, n + 1) = Up(column, H!Climb(column, c, n))
<1> DEFINE path(m) == CHOOSE g : IsPath(g, column, c, m)
<1>1. ASSUME NEW m \in Nat PROVE H!Climb(column, c, m) = path(m)[m] /\ IsPath(path(m), column, c, m)
  <2>1. H!Climb(column, c, m) = path(m)[m]
    BY DEF H!Climb, IsPath, Up
  <2>2. IsPath(path(m), column, c, m)
    BY PathExists
  <2> QED BY <2>1, <2>2
<1> HIDE DEF path
<1>2. H!Climb(column, c, 0) = c
  BY <1>1, PathSteps
<1>3. H!Climb(column, c, n + 1) = Up(column, path(n + 1)[n])
  <2>1. n + 1 \in Nat /\ n + 1 \in 0 .. (n + 1) /\ n + 1 # 0 /\ (n + 1) - 1 = n
    OBVIOUS
  <2>2. H!Climb(column, c, n + 1) = path(n + 1)[n + 1] /\ IsPath(path(n + 1), column, c, n + 1)
    BY <1>1, <2>1
  <2>3. \A k \in 0 .. (n + 1) : k # 0 => path(n + 1)[k] = Up(column, path(n + 1)[k - 1])
    BY <2>1, <2>2, PathSteps
  <2> QED BY <2>1, <2>2, <2>3
<1>4. path(n)[n] = path(n + 1)[n]
  <2>1. n + 1 \in Nat /\ n <= n + 1 /\ n \in 0 .. n
    OBVIOUS
  <2> QED BY <1>1, <2>1, PathsAgree
<1> QED BY <1>1, <1>2, <1>3, <1>4

Links == [Clients -> Clients \cup {"none"}]

RunsOut(column, c) == \E n \in Nat : H!Climb(column, c, n) = "none"

\* What is reached is a client or none, and there is nothing above none
LEMMA ClimbTyped ==
    ASSUME NEW column \in Links, NEW c \in Clients \cup {"none"}
    PROVE  \A n \in Nat : H!Climb(column, c, n) \in Clients \cup {"none"}
<1> DEFINE F == {n \in Nat : H!Climb(column, c, n) \in Clients \cup {"none"}}
<1>1. 0 \in F
  BY ClimbSteps
<1>2. ASSUME NEW n \in Nat, n \in F PROVE n + 1 \in F
  <2>1. H!Climb(column, c, n + 1) = Up(column, H!Climb(column, c, n))
    BY ClimbSteps
  <2>2. \A x \in Clients \cup {"none"} : Up(column, x) \in Clients \cup {"none"}
    BY DEF Up, Links
  <2> QED BY <1>2, <2>1, <2>2
<1> HIDE DEF F
<1>3. \A n \in Nat : n \in F
  BY <1>1, <1>2, NumberInduction
<1> QED BY <1>3 DEF F

LEMMA ClimbAdds ==
    ASSUME NEW column, NEW c, NEW m \in Nat
    PROVE  \A n \in Nat : H!Climb(column, c, m + n) = H!Climb(column, H!Climb(column, c, m), n)
<1> DEFINE d == H!Climb(column, c, m)
           F == {n \in Nat : H!Climb(column, c, m + n) = H!Climb(column, d, n)}
<1>1. 0 \in F
  <2>1. m + 0 = m
    OBVIOUS
  <2>2. H!Climb(column, d, 0) = d
    BY ClimbSteps
  <2> QED BY <2>1, <2>2
<1>2. ASSUME NEW n \in Nat, n \in F PROVE n + 1 \in F
  <2>1. m + n \in Nat /\ m + (n + 1) = (m + n) + 1
    OBVIOUS
  <2>2. H!Climb(column, c, (m + n) + 1) = Up(column, H!Climb(column, c, m + n))
    BY <2>1, ClimbSteps
  <2>3. H!Climb(column, d, n + 1) = Up(column, H!Climb(column, d, n))
    BY ClimbSteps
  <2> QED BY <1>2, <2>1, <2>2, <2>3
<1> HIDE DEF F
<1>3. \A n \in Nat : n \in F
  BY <1>1, <1>2, NumberInduction
<1> QED BY <1>3 DEF F

LEMMA NothingAboveNone ==
    ASSUME NEW column
    PROVE  \A n \in Nat : H!Climb(column, "none", n) = "none"
<1> DEFINE F == {n \in Nat : H!Climb(column, "none", n) = "none"}
<1>1. 0 \in F
  BY ClimbSteps
<1>2. ASSUME NEW n \in Nat, n \in F PROVE n + 1 \in F
  <2>1. H!Climb(column, "none", n + 1) = Up(column, H!Climb(column, "none", n))
    BY ClimbSteps
  <2> QED BY <1>2, <2>1 DEF Up
<1> HIDE DEF F
<1>3. \A n \in Nat : n \in F
  BY <1>1, <1>2, NumberInduction
<1> QED BY <1>3 DEF F

LEMMA NoneStays ==
    ASSUME NEW column, NEW c, NEW m \in Nat, H!Climb(column, c, m) = "none",
           NEW n \in Nat, m <= n
    PROVE  H!Climb(column, c, n) = "none"
<1>1. n - m \in Nat /\ m + (n - m) = n
  OBVIOUS
<1>2. H!Climb(column, c, m + (n - m)) = H!Climb(column, "none", n - m)
  BY <1>1, ClimbAdds
<1> QED BY <1>1, <1>2, NothingAboveNone

\* A client whose chain ends does not come back to itself
LEMMA NoReturn ==
    ASSUME NEW column, NEW x, x # "none", RunsOut(column, x), NEW d \in Nat, d # 0
    PROVE  H!Climb(column, x, d) # x
<1> SUFFICES ASSUME H!Climb(column, x, d) = x PROVE FALSE
  OBVIOUS
<1> DEFINE gone == {n \in Nat : H!Climb(column, x, n) = "none"}
<1>1. PICK m \in gone : \A other \in gone : ~ (other < m)
  <2>1. gone \subseteq Nat /\ gone # {}
    BY DEF RunsOut
  <2> HIDE DEF gone
  <2> QED BY <2>1, LeastOf
<1>2. CASE m <= d
  BY <1>2, NoneStays
<1>3. CASE d < m
  <2>1. m - d \in Nat /\ d + (m - d) = m /\ m - d < m
    BY <1>3
  <2>2. H!Climb(column, x, d + (m - d)) = H!Climb(column, x, m - d)
    BY <2>1, ClimbAdds
  <2>3. m - d \in gone
    BY <2>1, <2>2
  <2> QED BY <1>1, <2>1, <2>3
<1> QED BY <1>2, <1>3

\* So there are no more clients above one than there are clients
LEMMA EndsSoon ==
    ASSUME IsFiniteSet(Clients), "none" \notin Clients, NEW column \in Links,
           \A c \in Clients : RunsOut(column, c)
    PROVE  H!EndsWithin(column, Cardinality(Clients))
<1> DEFINE N == Cardinality(Clients)
<1>1. N \in Nat
  BY FS_CardinalityType
<1> SUFFICES ASSUME NEW c \in Clients, H!Climb(column, c, N) # "none" PROVE FALSE
  BY DEF H!EndsWithin
<1> HIDE DEF N
<1> DEFINE f == [k \in 0 .. N |-> H!Climb(column, c, k)]
<1>2. ASSUME NEW k \in 0 .. N PROVE f[k] \in Clients
  <2>1. k \in Nat /\ k <= N
    BY <1>1
  <2>2. H!Climb(column, c, k) # "none"
    BY <1>1, <2>1, NoneStays
  <2> QED BY <2>1, <2>2, ClimbTyped
<1>3. f \in [0 .. N -> Clients]
  BY <1>2
<1>4. IsFiniteSet(0 .. N) /\ Cardinality(0 .. N) = N + 1
  BY <1>1, FS_Interval
<1>5. PICK i \in 0 .. N, j \in 0 .. N : i # j /\ f[i] = f[j]
  <2> HIDE DEF f
  <2>1. Cardinality(Clients) < Cardinality(0 .. N)
    BY <1>1, <1>4 DEF N
  <2> QED BY <1>3, <1>4, <2>1, FS_PigeonHole
<1>6. ASSUME NEW a \in 0 .. N, NEW b \in 0 .. N, a < b, f[a] = f[b] PROVE FALSE
  <2> DEFINE x == H!Climb(column, c, a)
  <2>1. a \in Nat /\ b - a \in Nat /\ b - a # 0 /\ a + (b - a) = b
    BY <1>6
  <2>2. x \in Clients /\ H!Climb(column, c, b) = x
    BY <1>2, <1>6
  <2>3. H!Climb(column, c, a + (b - a)) = H!Climb(column, x, b - a)
    BY <2>1, ClimbAdds
  <2> HIDE DEF x
  <2>4. H!Climb(column, x, b - a) = x /\ x # "none" /\ RunsOut(column, x)
    BY <2>1, <2>2, <2>3
  <2> QED BY <2>1, <2>4, NoReturn
<1>7. i < j \/ j < i
  BY <1>5
<1> QED BY <1>5, <1>6, <1>7

\* A chain does not change if no row on it does
LEMMA SamePath ==
    ASSUME NEW column, NEW next, NEW c, NEW n \in Nat,
           \A i \in Nat : i < n =>
              H!Climb(column, c, i) = "none"
              \/ next[H!Climb(column, c, i)] = column[H!Climb(column, c, i)]
    PROVE  H!Climb(next, c, n) = H!Climb(column, c, n)
<1> DEFINE F == {k \in Nat : k <= n => H!Climb(next, c, k) = H!Climb(column, c, k)}
<1>1. 0 \in F
  BY ClimbSteps
<1>2. ASSUME NEW k \in Nat, k \in F PROVE k + 1 \in F
  <2> SUFFICES ASSUME k + 1 <= n PROVE H!Climb(next, c, k + 1) = H!Climb(column, c, k + 1)
    OBVIOUS
  <2>1. H!Climb(next, c, k) = H!Climb(column, c, k) /\ k < n
    BY <1>2
  <2>2. H!Climb(next, c, k + 1) = Up(next, H!Climb(next, c, k))
        /\ H!Climb(column, c, k + 1) = Up(column, H!Climb(column, c, k))
    BY ClimbSteps
  <2> QED BY <2>1, <2>2 DEF Up
<1> HIDE DEF F
<1>3. \A k \in Nat : k \in F
  BY <1>1, <1>2, NumberInduction
<1>4. n \in F
  BY <1>3
<1> QED BY <1>4 DEF F

\* One step up first, and the others from there
LEMMA ClimbFirst ==
    ASSUME NEW column, NEW c, c # "none", NEW n \in Nat
    PROVE  H!Climb(column, c, n + 1) = H!Climb(column, column[c], n)
<1>1. H!Climb(column, c, 0 + 1) = Up(column, H!Climb(column, c, 0)) /\ H!Climb(column, c, 0) = c
  BY ClimbSteps
<1>2. 0 + 1 = 1 /\ 1 \in Nat /\ 1 + n = n + 1
  OBVIOUS
<1>3. H!Climb(column, c, 1) = column[c]
  <2>1. H!Climb(column, c, 1) = Up(column, c)
    BY <1>1, <1>2
  <2> QED BY <2>1 DEF Up
<1>4. H!Climb(column, c, 1 + n) = H!Climb(column, H!Climb(column, c, 1), n)
  BY <1>2, ClimbAdds
<1>5. H!Climb(column, c, n + 1) = H!Climb(column, H!Climb(column, c, 1), n)
  BY <1>2, <1>4
<1> QED BY <1>3, <1>5

LEMMA EndsBelow ==
    ASSUME NEW column, NEW c, c # "none", RunsOut(column, column[c])
    PROVE  RunsOut(column, c)
<1>1. PICK n \in Nat : H!Climb(column, column[c], n) = "none"
  BY DEF RunsOut
<1>2. H!Climb(column, c, n + 1) = "none"
  BY <1>1, ClimbFirst
<1>3. n + 1 \in Nat
  OBVIOUS
<1> QED BY <1>2, <1>3 DEF RunsOut

\* Every chain ends if those of the rows that change do
LEMMA EndsStill ==
    ASSUME "none" \notin Clients, NEW column \in Links, NEW next \in Links, NEW X \in SUBSET Clients,
           \A c \in Clients \ X : next[c] = column[c],
           \A x \in X : RunsOut(next, x), \A c \in Clients : RunsOut(column, c)
    PROVE  \A c \in Clients : RunsOut(next, c)
<1> DEFINE F == {n \in Nat : \A c \in Clients : H!Climb(column, c, n) = "none" => RunsOut(next, c)}
<1>1. 0 \in F
  BY ClimbSteps
<1>2. ASSUME NEW n \in Nat, n \in F PROVE n + 1 \in F
  <2> SUFFICES ASSUME NEW c \in Clients, H!Climb(column, c, n + 1) = "none", c \notin X
               PROVE  RunsOut(next, c)
    OBVIOUS
  <2>1. c # "none"
    OBVIOUS
  <2>2. H!Climb(column, c, n + 1) = H!Climb(column, column[c], n)
    BY <2>1, ClimbFirst
  <2>4. H!Climb(column, column[c], n) = "none" /\ next[c] = column[c]
    BY <2>2
  <2>5. CASE column[c] = "none"
    <3>1. H!Climb(next, "none", 0) = "none"
      BY ClimbSteps
    <3>2. RunsOut(next, next[c])
      BY <2>4, <2>5, <3>1 DEF RunsOut
    <3> QED BY <2>1, <3>2, EndsBelow
  <2>6. CASE column[c] # "none"
    <3>1. column[c] \in Clients
      BY <2>6 DEF Links
    <3>2. RunsOut(next, next[c])
      BY <1>2, <2>4, <3>1
    <3> QED BY <2>1, <3>2, EndsBelow
  <2> QED BY <2>5, <2>6
<1> HIDE DEF F
<1>3. \A n \in Nat : n \in F
  BY <1>1, <1>2, NumberInduction
<1> QED BY <1>3 DEF F, RunsOut

\* Setting a parent that is not below the child leaves no chain without an end ...
LEMMA LinkedChainsEnd ==
    ASSUME "none" \notin Clients, NEW column \in Links, NEW child \in Clients, NEW under \in Clients,
           \A c \in Clients : RunsOut(column, c),
           \A n \in Nat : H!Climb(column, under, n) # child
    PROVE  \A n \in Nat : H!Climb([column EXCEPT ![child] = under], under, n) = H!Climb(column, under, n)
<1> DEFINE next == [column EXCEPT ![child] = under]
<1>1. ASSUME NEW n \in Nat PROVE H!Climb(next, under, n) = H!Climb(column, under, n)
  <2>1. ASSUME NEW i \in Nat, i < n
        PROVE  H!Climb(column, under, i) = "none"
               \/ next[H!Climb(column, under, i)] = column[H!Climb(column, under, i)]
    <3>1. H!Climb(column, under, i) \in Clients \cup {"none"} /\ H!Climb(column, under, i) # child
      BY ClimbTyped
    <3> QED BY <3>1 DEF Links
  <2> HIDE DEF next
  <2> QED BY <2>1, SamePath
<1> QED BY <1>1

LEMMA LinkKeepsRoots ==
    ASSUME "none" \notin Clients, NEW column \in Links, NEW child \in Clients, NEW under \in Clients,
           \A c \in Clients : RunsOut(column, c),
           \A n \in Nat : H!Climb(column, under, n) # child
    PROVE  \A c \in Clients : RunsOut([column EXCEPT ![child] = under], c)
<1> DEFINE next == [column EXCEPT ![child] = under]
<1>1. next \in Links /\ next[child] = under /\ \A c \in Clients \ {child} : next[c] = column[c]
  BY DEF Links
<1>2. \A n \in Nat : H!Climb(next, under, n) = H!Climb(column, under, n)
  BY LinkedChainsEnd
<1> HIDE DEF next
<1>3. RunsOut(next, under)
  BY <1>2 DEF RunsOut
<1>4. RunsOut(next, child)
  BY <1>1, <1>3, EndsBelow
<1>5. \A c \in Clients : RunsOut(next, c)
  <2> DEFINE X == {child}
  <2>1. X \in SUBSET Clients /\ \A x \in X : RunsOut(next, x)
    BY <1>4
  <2>2. \A c \in Clients \ X : next[c] = column[c]
    BY <1>1
  <2> HIDE DEF X
  <2> QED BY <1>1, <2>1, <2>2, EndsStill
<1> QED BY <1>5 DEF next

\* ... and none that is longer than what the child's and the new parent's add up to
LEMMA LinkKeepsDepth ==
    ASSUME "none" \notin Clients, NEW column \in Links, NEW child \in Clients, NEW under \in Clients,
           NEW depth \in Nat,
           \A c \in Clients : RunsOut(column, c),
           \A n \in Nat : H!Climb(column, under, n) # child,
           \A c \in Clients : H!Climb(column, c, depth + 1) = "none",
           \A d \in Clients : \A k \in Nat : H!Climb(column, d, k) = child =>
               \E j \in Nat : k + j <= depth /\ H!Climb(column, under, j) = "none"
    PROVE  \A c \in Clients : H!Climb([column EXCEPT ![child] = under], c, depth + 1) = "none"
<1> DEFINE next == [column EXCEPT ![child] = under]
<1>1. next \in Links /\ next[child] = under /\ \A c \in Clients \ {child} : next[c] = column[c]
  BY DEF Links
<1>2. \A n \in Nat : H!Climb(next, under, n) = H!Climb(column, under, n)
  BY LinkedChainsEnd
<1> HIDE DEF next
<1> SUFFICES ASSUME NEW c \in Clients PROVE H!Climb(next, c, depth + 1) = "none"
  BY DEF next
<1> DEFINE meets == {k \in Nat : H!Climb(column, c, k) = child}
<1>3. ASSUME NEW n \in Nat, \A i \in Nat : i < n => i \notin meets
      PROVE  H!Climb(next, c, n) = H!Climb(column, c, n)
  <2>1. ASSUME NEW i \in Nat, i < n
        PROVE  H!Climb(column, c, i) = "none"
               \/ next[H!Climb(column, c, i)] = column[H!Climb(column, c, i)]
    <3>1. H!Climb(column, c, i) \in Clients \cup {"none"} /\ H!Climb(column, c, i) # child
      BY <1>3, <2>1, ClimbTyped
    <3> QED BY <1>1, <3>1
  <2> HIDE DEF meets
  <2> QED BY <2>1, SamePath
<1>4. CASE meets = {}
  <2>1. depth + 1 \in Nat /\ \A i \in Nat : i < depth + 1 => i \notin meets
    BY <1>4
  <2>2. H!Climb(next, c, depth + 1) = H!Climb(column, c, depth + 1)
    BY <1>3, <2>1
  <2> QED BY <2>2
<1>5. CASE meets # {}
  <2>1. PICK k \in meets : \A other \in meets : ~ (other < k)
    <3>1. meets \subseteq Nat
      OBVIOUS
    <3> HIDE DEF meets
    <3> QED BY <1>5, <3>1, LeastOf
  <2>2. k \in Nat /\ H!Climb(column, c, k) = child
    OBVIOUS
  <2>3. H!Climb(next, c, k) = child
    BY <1>3, <2>1, <2>2
  <2>4. H!Climb(next, c, k + 1) = under
    <3>1. H!Climb(next, c, k + 1) = Up(next, H!Climb(next, c, k))
      BY <2>2, ClimbSteps
    <3> QED BY <1>1, <2>3, <3>1 DEF Up
  <2>5. PICK j \in Nat : k + j <= depth /\ H!Climb(column, under, j) = "none"
    BY <2>2
  <2>6. k + 1 \in Nat /\ (k + 1) + j \in Nat /\ (k + 1) + j <= depth + 1 /\ depth + 1 \in Nat
    BY <2>2, <2>5
  <2>7. H!Climb(next, c, (k + 1) + j) = H!Climb(next, under, j)
    BY <2>4, <2>6, ClimbAdds
  <2>8. H!Climb(next, c, (k + 1) + j) = "none"
    BY <1>2, <2>5, <2>7
  <2> QED BY <2>6, <2>8, NoneStays
<1> QED BY <1>4, <1>5

\* Where a parent was removed a chain ends, or goes on as before
LEMMA CutChains ==
    ASSUME "none" \notin Clients, NEW column \in Links, NEW x \in Clients, NEW c \in Clients
    PROVE  \A n \in Nat : H!Climb([column EXCEPT ![x] = "none"], c, n) \in {H!Climb(column, c, n), "none"}
<1> DEFINE next == [column EXCEPT ![x] = "none"]
           F == {n \in Nat : H!Climb(next, c, n) \in {H!Climb(column, c, n), "none"}}
<1>1. next \in Links /\ \A y \in Clients : next[y] \in {column[y], "none"}
  BY DEF Links
<1> HIDE DEF next
<1>2. 0 \in F
  BY ClimbSteps
<1>3. ASSUME NEW n \in Nat, n \in F PROVE n + 1 \in F
  <2>1. H!Climb(next, c, n + 1) = Up(next, H!Climb(next, c, n))
        /\ H!Climb(column, c, n + 1) = Up(column, H!Climb(column, c, n))
    BY ClimbSteps
  <2>2. H!Climb(column, c, n) \in Clients \cup {"none"}
    BY ClimbTyped
  <2> QED BY <1>1, <1>3, <2>1, <2>2 DEF Up
<1> HIDE DEF F
<1>4. \A n \in Nat : n \in F
  BY <1>2, <1>3, NumberInduction
<1> QED BY <1>4 DEF F, next

LEMMA CutKeepsRoots ==
    ASSUME "none" \notin Clients, NEW column \in Links, NEW x \in Clients,
           \A c \in Clients : RunsOut(column, c)
    PROVE  \A c \in Clients : RunsOut([column EXCEPT ![x] = "none"], c)
<1> SUFFICES ASSUME NEW c \in Clients PROVE RunsOut([column EXCEPT ![x] = "none"], c)
  OBVIOUS
<1>1. PICK n \in Nat : H!Climb(column, c, n) = "none"
  BY DEF RunsOut
<1>2. H!Climb([column EXCEPT ![x] = "none"], c, n) = "none"
  BY <1>1, CutChains
<1> QED BY <1>2 DEF RunsOut

\* The winner of a merge, cut loose if asked, takes children of the loser.  If none of them is
\* above it every chain has an end as before.
LEMMA MergeKeepsRoots ==
    ASSUME IsFiniteSet(Clients), "none" \notin Clients, NEW column \in Links,
           NEW winner \in Clients, NEW freed \in BOOLEAN, NEW kids \in SUBSET Clients,
           winner \notin kids, \A c \in Clients : RunsOut(column, c),
           \A n \in 1 .. Cardinality(Clients) : H!Climb(column, winner, n) \notin kids,
           NEW next,
           next = [c \in Clients |-> IF c = winner /\ freed THEN "none"
                                     ELSE IF c \in kids THEN winner ELSE column[c]]
    PROVE  \A c \in Clients : RunsOut(next, c)
<1> DEFINE X == kids \cup {winner}
<1>1. /\ next \in Links
      /\ \A c \in Clients \ X : next[c] = column[c]
      /\ \A c \in kids : next[c] = winner
      /\ next[winner] = IF freed THEN "none" ELSE column[winner]
  BY DEF Links
<1>2. \A n \in Nat : H!Climb(column, winner, n) \notin kids
  <2> SUFFICES ASSUME NEW n \in Nat PROVE H!Climb(column, winner, n) \notin kids
    OBVIOUS
  <2>1. CASE n = 0
    BY <2>1, ClimbSteps
  <2>2. CASE n \in 1 .. Cardinality(Clients)
    BY <2>2
  <2>3. CASE n # 0 /\ n \notin 1 .. Cardinality(Clients)
    <3> DEFINE N == Cardinality(Clients)
    <3>1. N \in Nat
      BY FS_CardinalityType
    <3>2. H!Climb(column, winner, N) = "none"
      BY EndsSoon DEF H!EndsWithin
    <3> HIDE DEF N
    <3>3. N <= n
      BY <2>3, <3>1 DEF N
    <3> QED BY <3>1, <3>2, <3>3, NoneStays
  <2> QED BY <2>1, <2>2, <2>3
<1>3. RunsOut(next, winner)
  <2>1. CASE freed
    <3>1. next[winner] = "none" /\ winner # "none"
      BY <1>1, <2>1
    <3>2. H!Climb(next, "none", 0) = "none"
      BY ClimbSteps
    <3>3. RunsOut(next, next[winner])
      BY <3>1, <3>2 DEF RunsOut
    <3> QED BY <3>1, <3>3, EndsBelow
  <2>2. CASE ~freed
    <3>1. PICK n \in Nat : H!Climb(column, winner, n) = "none"
      BY DEF RunsOut
    <3>2. ASSUME NEW i \in Nat, i < n
          PROVE  H!Climb(column, winner, i) = "none"
                 \/ next[H!Climb(column, winner, i)] = column[H!Climb(column, winner, i)]
      <4>1. H!Climb(column, winner, i) \in Clients \cup {"none"}
            /\ H!Climb(column, winner, i) \notin kids
        BY <1>2, ClimbTyped
      <4> QED BY <1>1, <2>2, <4>1
    <3>3. H!Climb(next, winner, n) = H!Climb(column, winner, n)
      BY <3>2, SamePath
    <3> QED BY <3>1, <3>3 DEF RunsOut
  <2> QED BY <2>1, <2>2
<1>4. ASSUME NEW x \in X PROVE RunsOut(next, x)
  <2>1. CASE x \in kids
    <3>1. next[x] = winner /\ x # "none"
      BY <1>1, <2>1
    <3> QED BY <1>3, <3>1, EndsBelow
  <2> QED BY <1>3, <2>1
<1>5. X \in SUBSET Clients
  OBVIOUS
<1> HIDE DEF X
<1> QED BY <1>1, <1>4, <1>5, EndsStill

LEMMA TreeFields ==
    ASSUME H!TypeOK
    PROVE  /\ parent \in Links /\ mergedInto \in Links /\ owner \in Clients
           /\ apart \in Nat /\ calls \in Nat /\ folded \in BOOLEAN /\ MaxDepth \in Nat
<1>1. {parent, mergedInto} \subseteq Links /\ owner \in Clients
  BY DEF H!TypeOK, Links
<1>2. apart \in 0 .. MaxApart /\ calls \in 0 .. MaxCalls /\ folded \in BOOLEAN
  BY DEF H!TypeOK
<1>3. {MaxApart, MaxCalls, MaxDepth} \subseteq Nat
  BY ServicesBounds
<1> QED BY <1>1, <1>2, <1>3

\* The check of setParent: the new parent is not below the child, and what is above it and
\* below the child leaves room for one level more
LEMMA LinkIsChecked ==
    ASSUME NEW child \in Clients, NEW under \in Clients, parent \in Links, child # under,
           \A c \in Clients : RunsOut(parent, c),
           MaxDepth \in Nat,
           child \notin H!Ancestors(under),
           H!Cardinality(H!Above(under)) + H!Below(child) + 1 <= MaxDepth
    PROVE  /\ \A n \in Nat : H!Climb(parent, under, n) # child
           /\ (\A c \in Clients : H!Climb(parent, c, MaxDepth + 1) = "none") =>
                 \A d \in Clients : \A k \in Nat : H!Climb(parent, d, k) = child =>
                     \E j \in Nat : k + j <= MaxDepth /\ H!Climb(parent, under, j) = "none"
<1> USE ClientsAreRows
<1>1. H!Cardinality(H!Above(under)) = Cardinality(H!Above(under))
  BY Zenon DEF H!Cardinality, Cardinality
<1> DEFINE seen == H!Above(under)
           high == Cardinality(seen)
           levels == {n \in 0 .. MaxDepth : \E d \in Clients : H!Climb(parent, d, n) = child}
           deep == H!Below(child)
<1>2. deep \in levels /\ \A k \in levels : k <= deep
  <2> DEFINE G == {MaxDepth - n : n \in levels}
  <2>1. G \subseteq Nat
    OBVIOUS
  <2>2. 0 \in levels
    BY ClimbSteps
  <2>3. PICK g \in G : \A other \in G : ~ (other < g)
    <3>1. G # {}
      BY <2>2
    <3> HIDE DEF G
    <3> QED BY <2>1, <3>1, LeastOf
  <2>4. PICK n \in levels : g = MaxDepth - n
    BY <2>3
  <2>5. ASSUME NEW k \in levels PROVE k <= n
    <3>1. ~ (MaxDepth - k < g)
      BY <2>3
    <3>2. n \in Nat /\ k \in Nat
      OBVIOUS
    <3> HIDE DEF levels, G
    <3> QED BY <2>4, <3>1, <3>2
  <2>6. deep = CHOOSE n_1 \in levels : \A k \in levels : k <= n_1
    BY DEF H!Below
  <2> HIDE DEF levels, deep
  <2> QED BY <2>4, <2>5, <2>6
<1>3. seen = {n \in 1 .. MaxDepth : H!Climb(parent, under, n) # "none"}
  <2>1. ASSUME NEW n \in 1 .. MaxDepth PROVE H!Climb(parent, under, n) # under
    <3>1. n \in Nat /\ n # 0 /\ under # "none"
      OBVIOUS
    <3> QED BY <3>1, NoReturn
  <2> QED BY <2>1 DEF H!Above
<1>4. IsFiniteSet(seen) /\ high \in Nat
  <2>1. IsFiniteSet(1 .. MaxDepth) /\ seen \subseteq 1 .. MaxDepth
    BY <1>3, FS_Interval
  <2> HIDE DEF seen
  <2> QED BY <2>1, FS_Subset, FS_CardinalityType
<1>5. high + deep + 1 <= MaxDepth /\ deep \in Nat
  BY <1>1, <1>2
<1>6. H!Climb(parent, under, high + 1) = "none"
  <2> SUFFICES ASSUME H!Climb(parent, under, high + 1) # "none" PROVE FALSE
    OBVIOUS
  <2>1. ASSUME NEW n \in 1 .. (high + 1) PROVE n \in seen
    <3> HIDE DEF high, deep, seen
    <3>1. n \in Nat /\ n <= high + 1 /\ high + 1 \in Nat /\ n \in 1 .. MaxDepth
      BY <1>4, <1>5
    <3>2. H!Climb(parent, under, n) # "none"
      BY <3>1, NoneStays
    <3> QED BY <1>3, <3>1, <3>2
  <2>2. 1 .. (high + 1) \subseteq seen
    BY <2>1
  <2> HIDE DEF seen
  <2>3. Cardinality(1 .. (high + 1)) <= high
    BY <1>4, <2>2, FS_Subset
  <2>4. Cardinality(1 .. (high + 1)) = high + 1
    <3> HIDE DEF high
    <3>1. 1 <= high + 1 /\ 1 \in Int /\ high + 1 \in Int
      BY <1>4
    <3>2. Cardinality(1 .. (high + 1)) = (high + 1) - 1 + 1
      BY <3>1, FS_Interval
    <3> QED BY <1>4, <3>2
  <2> HIDE DEF high
  <2> QED BY <1>4, <2>3, <2>4
<1>7. ASSUME NEW n \in Nat PROVE H!Climb(parent, under, n) # child
  <2>1. CASE n = 0
    BY <2>1, ClimbSteps
  <2>2. CASE n # 0 /\ n <= high
    <3>1. n \in 1 .. MaxDepth
      <4> HIDE DEF high, deep
      <4> QED BY <1>4, <1>5, <2>2
    <3>2. SUFFICES ASSUME H!Climb(parent, under, n) = child PROVE FALSE
      OBVIOUS
    <3>3. n \in H!Above(under)
      BY <1>3, <3>1, <3>2
    <3> QED BY <3>2, <3>3 DEF H!Ancestors
  <2>3. CASE ~ (n <= high)
    <3>1. high + 1 \in Nat /\ high + 1 <= n
      <4> HIDE DEF high
      <4> QED BY <1>4, <2>3
    <3> HIDE DEF high
    <3>2. H!Climb(parent, under, n) = "none"
      BY <1>6, <3>1, NoneStays
    <3> QED BY <3>2
  <2> QED BY <2>1, <2>2, <2>3
<1>8. ASSUME \A c \in Clients : H!Climb(parent, c, MaxDepth + 1) = "none",
             NEW d \in Clients, NEW k \in Nat, H!Climb(parent, d, k) = child
      PROVE  \E j \in Nat : k + j <= MaxDepth /\ H!Climb(parent, under, j) = "none"
  <2>1. k <= MaxDepth
    <3> SUFFICES ASSUME ~ (k <= MaxDepth) PROVE FALSE
      OBVIOUS
    <3>1. MaxDepth + 1 \in Nat /\ MaxDepth + 1 <= k
      OBVIOUS
    <3>2. H!Climb(parent, d, k) = "none"
      BY <1>8, <3>1, NoneStays
    <3> QED BY <1>8, <3>2
  <2>2. k \in levels
    BY <1>8, <2>1
  <2>3. k <= deep
    BY <1>2, <2>2
  <2> HIDE DEF high, deep, levels
  <2>4. high + 1 \in Nat /\ k + (high + 1) <= MaxDepth
    BY <1>4, <1>5, <2>3
  <2> QED BY <1>6, <2>4
<1> QED BY <1>7, <1>8

\* Calls are at work one at high time unless one began another another
Sole == apart = 0 => \A e, f \in Editors : editor[e] # H!Settled /\ editor[f] # H!Settled => e = f

\* What high merge read still holds, and what it took is what the loser had
MergeHolds(e) ==
    /\ editor[e].winner # editor[e].loser
    /\ mergedInto[editor[e].winner] = "none" /\ mergedInto[editor[e].loser] = "none"
    /\ editor[e].pc = "moved" =>
          /\ editor[e].winner \notin editor[e].kids
          /\ editor[e].took <=> owner = editor[e].loser

Survivor ==
    /\ \A c \in Clients : RunsOut(mergedInto, c)
    /\ mergedInto[owner] = "none"
    /\ \A e \in Editors : editor[e].pc \in {"merge", "moved"} => MergeHolds(e)

Shallow == \A c \in Clients : H!Climb(parent, c, MaxDepth + 1) = "none"

\* What setParent found out still holds when it writes
LinkHolds(e) ==
    /\ \A n \in Nat : H!Climb(parent, editor[e].under, n) # editor[e].child
    /\ (\A c \in Clients : mergedInto[c] = "none") =>
          \A d \in Clients : \A k \in Nat : H!Climb(parent, d, k) = editor[e].child =>
              \E j \in Nat : k + j <= MaxDepth /\ H!Climb(parent, editor[e].under, j) = "none"

Rooted ==
    /\ \A c \in Clients : RunsOut(parent, c)
    /\ (\A c \in Clients : mergedInto[c] = "none") => Shallow
    /\ \A e \in Editors : editor[e].pc = "link" => LinkHolds(e)

TreeInv == H!TypeOK /\ Sole /\ (apart = 0 => Survivor) /\ (apart = 0 /\ ~folded => Rooted)

LEMMA EditorTypes ==
    ASSUME H!TypeOK, NEW e \in Editors
    PROVE  /\ editor[e] = H!Settled \/ editor[e].pc \in {"link", "merge", "moved"}
           /\ editor[e].pc = "link" => editor[e].child \in Clients /\ editor[e].under \in Clients
           /\ editor[e].pc \in {"merge", "moved"} =>
                editor[e].winner \in Clients /\ editor[e].loser \in Clients /\ editor[e].freed \in BOOLEAN
           /\ editor[e].pc = "moved" => editor[e].kids \in SUBSET Clients /\ editor[e].took \in BOOLEAN
<1>1. editor[e] \in {H!Settled} \cup H!Pairs
           \cup [pc : {"merge"}, winner : Clients, loser : Clients, freed : BOOLEAN]
           \cup [pc : {"moved"}, winner : Clients, loser : Clients, freed : BOOLEAN,
                 kids : SUBSET Clients, took : BOOLEAN]
  BY DEF H!TypeOK
<1>2. H!Settled.pc = "idle"
  BY DEF H!Settled
<1> QED BY <1>1, <1>2 DEF H!Pairs

LEMMA TreeInit == H!Init => TreeInv
<1> SUFFICES ASSUME H!Init PROVE TreeInv
  OBVIOUS
<1>1. /\ parent = [c \in Clients |-> "none"] /\ mergedInto = [c \in Clients |-> "none"]
      /\ owner \in Clients /\ calls = 0 /\ apart = 0 /\ folded = FALSE
      /\ editor = [e \in Editors |-> H!Settled]
  BY DEF H!Init
<1>2. MaxCalls \in Nat /\ MaxApart \in Nat /\ MaxDepth \in Nat
  BY ServicesBounds
<1>3. H!TypeOK
  <2>1. editor \in [Editors -> {H!Settled}]
    BY <1>1
  <2>2. {parent, mergedInto} \subseteq [Clients -> Clients \cup {"none"}]
    BY <1>1
  <2>3. calls \in 0 .. MaxCalls /\ apart \in 0 .. MaxApart /\ folded \in BOOLEAN
    <3>1. 0 \in 0 .. MaxCalls /\ 0 \in 0 .. MaxApart
      BY <1>2
    <3> QED BY <1>1, <3>1
  <2> QED BY <1>1, <2>1, <2>2, <2>3 DEF H!TypeOK
<1>4. \A e \in Editors : editor[e] = H!Settled /\ editor[e].pc = "idle"
  BY <1>1 DEF H!Settled
<1>5. ASSUME NEW c \in Clients, NEW m \in Nat PROVE H!Climb([x \in Clients |-> "none"], c, m + 1) = "none"
  <2> DEFINE column == [x \in Clients |-> "none"]
  <2>1. column \in Links
    BY DEF Links
  <2>2. H!Climb(column, c, m) \in Clients \cup {"none"}
    BY <2>1, ClimbTyped
  <2>3. H!Climb(column, c, m + 1) = Up(column, H!Climb(column, c, m))
    BY ClimbSteps
  <2> QED BY <2>2, <2>3 DEF Up
<1>6. \A c \in Clients : RunsOut([x \in Clients |-> "none"], c)
  <2> SUFFICES ASSUME NEW c \in Clients PROVE RunsOut([x \in Clients |-> "none"], c)
    OBVIOUS
  <2>1. 0 \in Nat /\ 0 + 1 \in Nat
    OBVIOUS
  <2>2. H!Climb([x \in Clients |-> "none"], c, 0 + 1) = "none"
    BY <1>5, <2>1
  <2> QED BY <2>1, <2>2 DEF RunsOut
<1>7. Sole /\ Survivor
  BY <1>1, <1>4, <1>6 DEF Sole, Survivor
<1>8. Rooted
  <2>1. Shallow
    BY <1>1, <1>2, <1>5 DEF Shallow
  <2> QED BY <1>1, <1>4, <1>6, <2>1 DEF Rooted
<1> QED BY <1>3, <1>7, <1>8 DEF TreeInv

\* A call that begins when none is at work is alone
LEMMA BeginsAlone ==
    ASSUME H!TypeOK, NEW e \in Editors, NEW call, NEW rows, H!Begins(e, call, rows),
           call.pc = "link" => H!Free(e, rows), apart' = 0,
           rows # {}
    PROVE  \A f \in Editors \ {e} : editor[f] = H!Settled
<1> DEFINE another == \E f \in Editors \ {e} :
                         /\ editor[f] # H!Settled
                         /\ {editor[f].pc, call.pc} = {"link"} => H!Rows(f) \cap rows = {}
<1>1. apart' = IF another THEN apart + 1 ELSE apart
  BY DEF H!Begins
<1>2. apart \in Nat
  BY TreeFields
<1>3. ~another
  <2> HIDE DEF another
  <2> QED BY <1>1, <1>2
<1> SUFFICES ASSUME NEW f \in Editors \ {e}, editor[f] # H!Settled PROVE FALSE
  OBVIOUS
<1>4. {editor[f].pc, call.pc} = {"link"} => H!Rows(f) \cap rows = {}
  BY DEF H!Free
<1> QED BY <1>3, <1>4

EditorRecords == {H!Settled} \cup H!Pairs
           \cup [pc : {"merge"}, winner : Clients, loser : Clients, freed : BOOLEAN]
           \cup [pc : {"moved"}, winner : Clients, loser : Clients, freed : BOOLEAN,
                 kids : SUBSET Clients, took : BOOLEAN]

LEMMA BeginTypes ==
    ASSUME H!TypeOK, NEW e \in Editors, NEW call \in EditorRecords, NEW rows,
           H!Ready(e), H!Begins(e, call, rows)
    PROVE  /\ editor' \in [Editors -> EditorRecords]
           /\ calls' \in 0 .. MaxCalls /\ apart' \in 0 .. MaxApart
<1>1. editor \in [Editors -> EditorRecords] /\ calls \in 0 .. MaxCalls /\ apart \in 0 .. MaxApart
  BY DEF H!TypeOK, EditorRecords
<1>2. editor' = [editor EXCEPT ![e] = call] /\ calls' = calls + 1 /\ calls < MaxCalls
  BY DEF H!Begins, H!Ready
<1>3. apart' = apart \/ (apart' = apart + 1 /\ apart < MaxApart)
  <2> DEFINE another == \E f \in Editors \ {e} :
                         /\ editor[f] # H!Settled
                         /\ {editor[f].pc, call.pc} = {"link"} => H!Rows(f) \cap rows = {}
  <2>1. (another => apart < MaxApart) /\ apart' = IF another THEN apart + 1 ELSE apart
    BY DEF H!Begins
  <2> HIDE DEF another
  <2> QED BY <2>1
<1>4. MaxApart \in Nat /\ MaxCalls \in Nat
  BY ServicesBounds
<1>5. editor' \in [Editors -> EditorRecords]
  BY <1>1, <1>2
<1>6. calls' \in 0 .. MaxCalls
  BY <1>1, <1>2, <1>4
<1>7. apart' \in 0 .. MaxApart
  BY <1>1, <1>3, <1>4
<1> QED BY <1>5, <1>6, <1>7

LEMMA TreeTyped ==
    ASSUME H!TypeOK, H!Next PROVE H!TypeOK'
<1>1. parent \in Links /\ mergedInto \in Links /\ owner \in Clients /\ folded \in BOOLEAN
  BY TreeFields
<1>2. editor \in [Editors -> EditorRecords] /\ calls \in 0 .. MaxCalls /\ apart \in 0 .. MaxApart
  BY DEF H!TypeOK, EditorRecords
<1> DEFINE StaysTyped ==
           /\ parent' \in Links /\ mergedInto' \in Links /\ owner' \in Clients
           /\ folded' \in BOOLEAN /\ editor' \in [Editors -> EditorRecords]
           /\ calls' \in 0 .. MaxCalls /\ apart' \in 0 .. MaxApart
<1>3. SUFFICES StaysTyped
  BY DEF H!TypeOK, Links, EditorRecords
<1>4. PICK e \in Editors : \/ H!SetParentChecks(e) \/ H!SetParentWrites(e) \/ H!UnsetParent(e)
                           \/ H!MergeReads(e) \/ H!MergeMoves(e) \/ H!MergeCommits(e) \/ H!Fails(e)
  BY DEF H!Next
<1>5. H!Settled \in EditorRecords
  BY DEF EditorRecords
<1>6. editor[e].pc # "idle" => editor[e] # H!Settled
  BY DEF H!Settled
<1>7. ASSUME H!SetParentChecks(e) PROVE StaysTyped
  <2>1. PICK child \in Clients, under \in Clients :
          H!Begins(e, [pc |-> "link", child |-> child, under |-> under], {child, under})
    BY <1>7 DEF H!SetParentChecks
  <2>2. [pc |-> "link", child |-> child, under |-> under] \in EditorRecords
    BY DEF EditorRecords, H!Pairs
  <2>3. H!Ready(e) /\ UNCHANGED <<parent, mergedInto, owner, folded>>
    BY <1>7 DEF H!SetParentChecks
  <2>4. /\ editor' \in [Editors -> EditorRecords]
        /\ calls' \in 0 .. MaxCalls /\ apart' \in 0 .. MaxApart
    BY <2>1, <2>2, <2>3, BeginTypes
  <2> QED BY <1>1, <2>3, <2>4
<1>8. ASSUME H!SetParentWrites(e) PROVE StaysTyped
  <2>1. editor[e].child \in Clients /\ editor[e].under \in Clients
    BY <1>8, EditorTypes DEF H!SetParentWrites
  <2>2. parent' \in Links
    BY <1>1, <1>8, <2>1 DEF H!SetParentWrites, Links
  <2> QED BY <1>1, <1>2, <1>5, <1>8, <2>2 DEF H!SetParentWrites, H!Ends
<1>9. ASSUME H!UnsetParent(e) PROVE StaysTyped
  <2>1. parent' \in Links
    BY <1>1, <1>9 DEF H!UnsetParent, Links
  <2>2. calls' \in 0 .. MaxCalls
    <3>1. MaxCalls \in Nat
      BY ServicesBounds
    <3>2. calls' = calls + 1 /\ calls < MaxCalls
      BY <1>9 DEF H!UnsetParent, H!Ready
    <3> QED BY <1>2, <3>1, <3>2
  <2> QED BY <1>1, <1>2, <1>9, <2>1, <2>2 DEF H!UnsetParent
<1>10. ASSUME H!MergeReads(e) PROVE StaysTyped
  <2>1. PICK winner \in Clients, loser \in Clients :
          H!Begins(e, [pc |-> "merge", winner |-> winner, loser |-> loser,
                       freed |-> parent[winner] = loser], {winner, loser})
    BY <1>10 DEF H!MergeReads
  <2>2. [pc |-> "merge", winner |-> winner, loser |-> loser, freed |-> parent[winner] = loser]
          \in EditorRecords
    BY DEF EditorRecords
  <2>3. H!Ready(e) /\ UNCHANGED <<parent, mergedInto, owner, folded>>
    BY <1>10 DEF H!MergeReads
  <2>4. /\ editor' \in [Editors -> EditorRecords]
        /\ calls' \in 0 .. MaxCalls /\ apart' \in 0 .. MaxApart
    BY <2>1, <2>2, <2>3, BeginTypes
  <2> QED BY <1>1, <2>3, <2>4
<1>11. ASSUME H!MergeMoves(e) PROVE StaysTyped
  <2> DEFINE kids == {c \in Clients \ {editor[e].winner} : parent[c] = editor[e].loser}
             next == [pc |-> "moved", winner |-> editor[e].winner, loser |-> editor[e].loser,
                      freed |-> editor[e].freed, kids |-> kids, took |-> owner = editor[e].loser]
  <2>1. editor[e].winner \in Clients /\ editor[e].loser \in Clients /\ editor[e].freed \in BOOLEAN
    BY <1>11, EditorTypes DEF H!MergeMoves
  <2>2. next \in EditorRecords
    <3>1. kids \in SUBSET Clients /\ (owner = editor[e].loser) \in BOOLEAN
      OBVIOUS
    <3> HIDE DEF kids
    <3> QED BY <2>1, <3>1 DEF EditorRecords
  <2>3. editor' = [editor EXCEPT ![e] = next]
    BY <1>2, <1>11 DEF H!MergeMoves
  <2>4. editor' \in [Editors -> EditorRecords]
    <3> HIDE DEF next
    <3> QED BY <1>2, <2>2, <2>3
  <2> QED BY <1>1, <1>2, <1>11, <2>4 DEF H!MergeMoves
<1>12. ASSUME H!MergeCommits(e) PROVE StaysTyped
  <2>1. /\ editor[e].winner \in Clients /\ editor[e].loser \in Clients
        /\ editor[e].kids \in SUBSET Clients
    BY <1>12, EditorTypes DEF H!MergeCommits
  <2>2. parent' \in Links
    BY <1>1, <1>12, <2>1 DEF H!MergeCommits, Links
  <2>3. mergedInto' \in Links
    BY <1>1, <1>12, <2>1 DEF H!MergeCommits, Links
  <2>4. owner' \in Clients
    BY <1>1, <1>12, <2>1 DEF H!MergeCommits
  <2>5. folded' \in BOOLEAN
    BY <1>1, <1>12 DEF H!MergeCommits
  <2> QED BY <1>2, <1>5, <1>12, <2>2, <2>3, <2>4, <2>5 DEF H!MergeCommits, H!Ends
<1>13. ASSUME H!Fails(e) PROVE StaysTyped
  BY <1>1, <1>2, <1>5, <1>13 DEF H!Fails, H!Ends
<1> QED BY <1>4, <1>7, <1>8, <1>9, <1>10, <1>11, <1>12, <1>13

\* One that moves while the others rest is still alone
LEMMA AloneStays ==
    ASSUME H!TypeOK, NEW e \in Editors, NEW next, editor' = [editor EXCEPT ![e] = next],
           \A f \in Editors \ {e} : editor[f] = H!Settled
    PROVE  /\ Sole' /\ editor'[e] = next
           /\ \A f \in Editors \ {e} : editor'[f] = H!Settled /\ editor'[f].pc = "idle"
<1>1. editor'[e] = next /\ \A f \in Editors \ {e} : editor'[f] = editor[f]
  BY DEF H!TypeOK
<1>2. H!Settled.pc = "idle"
  BY DEF H!Settled
<1>3. \A f \in Editors \ {e} : editor'[f] = H!Settled
  BY <1>1
<1>4. Sole'
  BY <1>3 DEF Sole
<1> QED BY <1>1, <1>2, <1>3, <1>4

LEMMA OthersRest ==
    ASSUME H!TypeOK, Sole, apart = 0, NEW e \in Editors, editor[e].pc # "idle"
    PROVE  \A f \in Editors \ {e} : editor[f] = H!Settled
BY DEF Sole, H!Settled

\* While calls are counted apart nothing is said of the tree
LEMMA ApartCounts ==
    ASSUME H!TypeOK, NEW e \in Editors, NEW call, NEW rows, H!Begins(e, call, rows)
    PROVE  apart' = 0 => apart = 0
<1>1. apart' = apart \/ apart' = apart + 1
  BY DEF H!Begins
<1> QED BY <1>1, TreeFields

LEMMA NotApart ==
    ASSUME H!TypeOK', Sole', apart' = 0 => Survivor', apart' = 0 /\ ~folded' => Rooted'
    PROVE  TreeInv'
BY DEF TreeInv

LEMMA ParentChecked ==
    ASSUME TreeInv, H!TypeOK', NEW e \in Editors, H!SetParentChecks(e)
    PROVE  TreeInv'
<1>1. PICK child \in Clients, under \in Clients :
        /\ child # under /\ H!Free(e, {child, under}) /\ child \notin H!Ancestors(under)
        /\ H!Cardinality(H!Above(under)) + H!Below(child) + 1 <= MaxDepth
        /\ H!Begins(e, [pc |-> "link", child |-> child, under |-> under], {child, under})
  BY DEF H!SetParentChecks
<1> DEFINE call == [pc |-> "link", child |-> child, under |-> under]
<1>2. /\ UNCHANGED <<parent, mergedInto, owner, folded>>
      /\ editor' = [editor EXCEPT ![e] = call]
  BY <1>1 DEF H!SetParentChecks, H!Begins
<1>3. H!TypeOK /\ parent \in Links /\ MaxDepth \in Nat
  BY TreeFields DEF TreeInv
<1>4. apart' = 0 => apart = 0
  BY <1>1, <1>3, ApartCounts
<1>5. ASSUME apart' = 0
      PROVE  /\ Sole' /\ editor'[e] = call
             /\ \A f \in Editors \ {e} : editor'[f] = H!Settled /\ editor'[f].pc = "idle"
  <2>1. \A f \in Editors \ {e} : editor[f] = H!Settled
    <3>1. call.pc = "link" => H!Free(e, {child, under})
      BY <1>1
    <3>2. {child, under} # {}
      OBVIOUS
    <3> HIDE DEF call
    <3>3. H!Begins(e, call, {child, under})
      BY <1>1 DEF call
    <3> QED BY <1>3, <1>5, <3>1, <3>2, <3>3, BeginsAlone
  <2> HIDE DEF call
  <2> QED BY <1>2, <1>3, <2>1, AloneStays
<1>6. Sole'
  BY <1>5 DEF Sole
<1>7. apart' = 0 => Survivor'
  <2> SUFFICES ASSUME apart' = 0 PROVE Survivor'
    OBVIOUS
  <2>1. Survivor
    BY <1>4 DEF TreeInv
  <2>2. \A f \in Editors : editor'[f].pc \notin {"merge", "moved"}
    BY <1>5
  <2> QED BY <1>2, <2>1, <2>2 DEF Survivor
<1>8. apart' = 0 /\ ~folded' => Rooted'
  <2> SUFFICES ASSUME apart' = 0, ~folded' PROVE Rooted'
    OBVIOUS
  <2>1. Rooted
    BY <1>2, <1>4 DEF TreeInv
  <2>2. /\ \A n \in Nat : H!Climb(parent, under, n) # child
        /\ Shallow =>
             \A d \in Clients : \A k \in Nat : H!Climb(parent, d, k) = child =>
                 \E j \in Nat : k + j <= MaxDepth /\ H!Climb(parent, under, j) = "none"
    <3>1. \A c \in Clients : RunsOut(parent, c)
      BY <2>1 DEF Rooted
    <3> QED BY <1>1, <1>3, <3>1, LinkIsChecked DEF Shallow
  <2>3. \A f \in Editors : editor'[f].pc = "link" => f = e
    BY <1>5
  <2>4. editor'[e].under = under /\ editor'[e].child = child
    BY <1>5
  <2>5. LinkHolds(e)'
    BY <1>2, <2>1, <2>2, <2>4 DEF LinkHolds, Rooted
  <2>6. (\A c \in Clients : RunsOut(parent', c)) /\ ((\A c \in Clients : mergedInto'[c] = "none") => Shallow')
    BY <1>2, <2>1 DEF Rooted, Shallow
  <2> QED BY <2>3, <2>5, <2>6 DEF Rooted
<1> QED BY <1>6, <1>7, <1>8, NotApart

LEMMA ParentWritten ==
    ASSUME TreeInv, H!TypeOK', NEW e \in Editors, H!SetParentWrites(e)
    PROVE  TreeInv'
<1> DEFINE child == editor[e].child
           under == editor[e].under
<1>1. /\ parent' = [parent EXCEPT ![child] = under] /\ editor[e].pc = "link"
      /\ editor' = [editor EXCEPT ![e] = H!Settled]
      /\ UNCHANGED <<mergedInto, owner, calls, apart, folded>>
  BY DEF H!SetParentWrites, H!Ends
<1>2. H!TypeOK /\ parent \in Links /\ MaxDepth \in Nat /\ child \in Clients /\ under \in Clients
  BY <1>1, TreeFields, EditorTypes DEF TreeInv
<1>3. ASSUME apart' = 0 PROVE Sole' /\ \A f \in Editors : editor'[f].pc = "idle"
  <2>1. \A f \in Editors \ {e} : editor[f] = H!Settled
    BY <1>1, <1>3, OthersRest DEF TreeInv
  <2>2. H!Settled.pc = "idle"
    BY DEF H!Settled
  <2> QED BY <1>1, <1>2, <2>1, <2>2, AloneStays
<1>4. Sole'
  BY <1>3 DEF Sole
<1>5. apart' = 0 => Survivor'
  <2> SUFFICES ASSUME apart' = 0 PROVE Survivor'
    OBVIOUS
  <2>1. Survivor
    BY <1>1 DEF TreeInv
  <2>2. \A f \in Editors : editor'[f].pc \notin {"merge", "moved"}
    BY <1>3
  <2> QED BY <1>1, <2>1, <2>2 DEF Survivor
<1>6. apart' = 0 /\ ~folded' => Rooted'
  <2> SUFFICES ASSUME apart' = 0, ~folded' PROVE Rooted'
    OBVIOUS
  <2>1. Rooted
    BY <1>1 DEF TreeInv
  <2>2. LinkHolds(e)
    BY <1>1, <2>1 DEF Rooted
  <2>3. /\ \A n \in Nat : H!Climb(parent, under, n) # child
        /\ (\A c \in Clients : mergedInto[c] = "none") =>
             \A d \in Clients : \A k \in Nat : H!Climb(parent, d, k) = child =>
                 \E j \in Nat : k + j <= MaxDepth /\ H!Climb(parent, under, j) = "none"
    BY <2>2 DEF LinkHolds
  <2>4. \A c \in Clients : RunsOut(parent, c)
    BY <2>1 DEF Rooted
  <2> HIDE DEF child, under
  <2>5. \A c \in Clients : RunsOut(parent', c)
    BY <1>1, <1>2, <2>3, <2>4, LinkKeepsRoots, ClientsAreRows
  <2>6. (\A c \in Clients : mergedInto'[c] = "none") => Shallow'
    <3> SUFFICES ASSUME \A c \in Clients : mergedInto'[c] = "none" PROVE Shallow'
      OBVIOUS
    <3>1. \A c \in Clients : mergedInto[c] = "none"
      BY <1>1
    <3>2. \A c \in Clients : H!Climb(parent, c, MaxDepth + 1) = "none"
      BY <2>1, <3>1 DEF Rooted, Shallow
    <3>3. \A c \in Clients : H!Climb([parent EXCEPT ![child] = under], c, MaxDepth + 1) = "none"
      BY <1>2, <2>3, <2>4, <3>1, <3>2, LinkKeepsDepth, ClientsAreRows
    <3> QED BY <1>1, <3>3 DEF Shallow
  <2> QED BY <1>3, <2>5, <2>6 DEF Rooted
<1> QED BY <1>4, <1>5, <1>6, NotApart

LEMMA ParentUnset ==
    ASSUME TreeInv, H!TypeOK', NEW e \in Editors, H!UnsetParent(e)
    PROVE  TreeInv'
<1>1. PICK x \in Clients : parent' = [parent EXCEPT ![x] = "none"]
  BY DEF H!UnsetParent
<1>2. UNCHANGED <<mergedInto, owner, editor, apart, folded>>
  BY DEF H!UnsetParent
<1>3. H!TypeOK /\ parent \in Links /\ MaxDepth \in Nat
  BY TreeFields DEF TreeInv
<1>4. Sole'
  BY <1>2 DEF TreeInv, Sole
<1>5. apart' = 0 => Survivor'
  BY <1>2 DEF TreeInv, Survivor, MergeHolds
<1>6. apart' = 0 /\ ~folded' => Rooted'
  <2> SUFFICES ASSUME apart' = 0, ~folded' PROVE Rooted'
    OBVIOUS
  <2>1. Rooted
    BY <1>2 DEF TreeInv
  <2>2. \A c \in Clients : RunsOut(parent, c)
    BY <2>1 DEF Rooted
  <2>3. \A c \in Clients : RunsOut(parent', c)
    BY <1>1, <1>3, <2>2, CutKeepsRoots, ClientsAreRows
  <2>4. \A c \in Clients : \A n \in Nat : H!Climb(parent', c, n) \in {H!Climb(parent, c, n), "none"}
    BY <1>1, <1>3, CutChains, ClientsAreRows
  <2>5. (\A c \in Clients : mergedInto'[c] = "none") => Shallow'
    <3>1. MaxDepth + 1 \in Nat
      BY <1>3
    <3> QED BY <1>2, <2>1, <2>4, <3>1 DEF Rooted, Shallow
  <2>6. ASSUME NEW f \in Editors, editor'[f].pc = "link" PROVE LinkHolds(f)'
    <3> DEFINE child == editor[f].child
               under == editor[f].under
    <3>1. LinkHolds(f) /\ child \in Clients /\ under \in Clients
      BY <1>2, <1>3, <2>1, <2>6, EditorTypes DEF Rooted
    <3>2. child # "none"
      BY <3>1, ClientsAreRows
    <3>3. \A n \in Nat : H!Climb(parent', under, n) # child
      BY <2>4, <3>1, <3>2 DEF LinkHolds
    <3>4. ASSUME \A c \in Clients : mergedInto[c] = "none", NEW d \in Clients, NEW k \in Nat,
                 H!Climb(parent', d, k) = child
          PROVE  \E j \in Nat : k + j <= MaxDepth /\ H!Climb(parent', under, j) = "none"
      <4>1. H!Climb(parent, d, k) = child
        BY <2>4, <3>2, <3>4
      <4>2. PICK j \in Nat : k + j <= MaxDepth /\ H!Climb(parent, under, j) = "none"
        BY <3>1, <3>4, <4>1 DEF LinkHolds
      <4>3. H!Climb(parent', under, j) = "none"
        BY <2>4, <3>1, <4>2
      <4> QED BY <4>2, <4>3
    <3> QED BY <1>2, <3>3, <3>4 DEF LinkHolds
  <2> QED BY <2>3, <2>5, <2>6 DEF Rooted
<1> QED BY <1>4, <1>5, <1>6, NotApart

LEMMA MergeRead ==
    ASSUME TreeInv, H!TypeOK', NEW e \in Editors, H!MergeReads(e)
    PROVE  TreeInv'
<1>1. PICK winner \in Clients, loser \in Clients :
        /\ winner # loser /\ H!Mergeable(winner, loser)
        /\ H!Begins(e, [pc |-> "merge", winner |-> winner, loser |-> loser,
                        freed |-> parent[winner] = loser], {winner, loser})
  BY DEF H!MergeReads
<1> DEFINE call == [pc |-> "merge", winner |-> winner, loser |-> loser,
                    freed |-> parent[winner] = loser]
<1>2. /\ UNCHANGED <<parent, mergedInto, owner, folded>>
      /\ editor' = [editor EXCEPT ![e] = call]
  BY <1>1 DEF H!MergeReads, H!Begins
<1>3. H!TypeOK
  BY DEF TreeInv
<1>4. apart' = 0 => apart = 0
  BY <1>1, <1>3, ApartCounts
<1>5. ASSUME apart' = 0
      PROVE  /\ Sole' /\ editor'[e] = call
             /\ \A f \in Editors \ {e} : editor'[f] = H!Settled /\ editor'[f].pc = "idle"
  <2>1. \A f \in Editors \ {e} : editor[f] = H!Settled
    <3>1. call.pc = "link" => H!Free(e, {winner, loser})
      OBVIOUS
    <3>2. {winner, loser} # {}
      OBVIOUS
    <3> HIDE DEF call
    <3>3. H!Begins(e, call, {winner, loser})
      BY <1>1 DEF call
    <3> QED BY <1>3, <1>5, <3>1, <3>2, <3>3, BeginsAlone
  <2> HIDE DEF call
  <2> QED BY <1>2, <1>3, <2>1, AloneStays
<1>6. Sole'
  BY <1>5 DEF Sole
<1>7. apart' = 0 => Survivor'
  <2> SUFFICES ASSUME apart' = 0 PROVE Survivor'
    OBVIOUS
  <2>1. Survivor
    BY <1>4 DEF TreeInv
  <2>2. \A f \in Editors : editor'[f].pc \in {"merge", "moved"} => f = e
    BY <1>5
  <2>3. /\ editor'[e].winner = winner /\ editor'[e].loser = loser /\ editor'[e].pc = "merge"
    BY <1>5
  <2>4. mergedInto[winner] = "none" /\ mergedInto[loser] = "none"
    BY <1>1 DEF H!Mergeable
  <2>5. MergeHolds(e)'
    BY <1>1, <1>2, <2>3, <2>4 DEF MergeHolds
  <2> QED BY <1>2, <2>1, <2>2, <2>5 DEF Survivor
<1>8. apart' = 0 /\ ~folded' => Rooted'
  <2> SUFFICES ASSUME apart' = 0, ~folded' PROVE Rooted'
    OBVIOUS
  <2>1. Rooted
    BY <1>2, <1>4 DEF TreeInv
  <2>2. \A f \in Editors : editor'[f].pc # "link"
    BY <1>5
  <2> QED BY <1>2, <2>1, <2>2 DEF Rooted, Shallow
<1> QED BY <1>6, <1>7, <1>8, NotApart

LEMMA MergeMoved ==
    ASSUME TreeInv, H!TypeOK', NEW e \in Editors, H!MergeMoves(e)
    PROVE  TreeInv'
<1> DEFINE winner == editor[e].winner
           loser  == editor[e].loser
           kids   == {c \in Clients \ {winner} : parent[c] = loser}
           call == [pc |-> "moved", winner |-> winner, loser |-> loser, freed |-> editor[e].freed,
                    kids |-> kids, took |-> owner = loser]
<1>1. H!TypeOK
  BY DEF TreeInv
<1>2. /\ UNCHANGED <<parent, mergedInto, owner, calls, apart, folded>>
      /\ editor[e].pc = "merge" /\ editor' = [editor EXCEPT ![e] = call]
  BY <1>1 DEF H!MergeMoves, H!TypeOK
<1>3. ASSUME apart' = 0
      PROVE  /\ Sole' /\ editor'[e] = call
             /\ \A f \in Editors \ {e} : editor'[f] = H!Settled /\ editor'[f].pc = "idle"
  <2>1. \A f \in Editors \ {e} : editor[f] = H!Settled
    BY <1>1, <1>2, <1>3, OthersRest DEF TreeInv
  <2> HIDE DEF call
  <2> QED BY <1>1, <1>2, <2>1, AloneStays
<1>4. Sole'
  BY <1>3 DEF Sole
<1>5. apart' = 0 => Survivor'
  <2> SUFFICES ASSUME apart' = 0 PROVE Survivor'
    OBVIOUS
  <2>1. Survivor
    BY <1>2 DEF TreeInv
  <2>2. \A f \in Editors : editor'[f].pc \in {"merge", "moved"} => f = e
    BY <1>3
  <2>3. /\ winner # loser /\ mergedInto[winner] = "none" /\ mergedInto[loser] = "none"
    BY <1>2, <2>1 DEF Survivor, MergeHolds
  <2>4. winner \notin kids
    OBVIOUS
  <2> HIDE DEF kids
  <2>5. /\ editor'[e].winner = winner /\ editor'[e].loser = loser /\ editor'[e].kids = kids
        /\ editor'[e].took = (owner = loser)
    BY <1>3
  <2>6. MergeHolds(e)'
    <3> HIDE DEF winner, loser
    <3> QED BY <1>2, <2>3, <2>4, <2>5 DEF MergeHolds
  <2> QED BY <1>2, <2>1, <2>2, <2>6 DEF Survivor
<1>6. apart' = 0 /\ ~folded' => Rooted'
  <2> SUFFICES ASSUME apart' = 0, ~folded' PROVE Rooted'
    OBVIOUS
  <2>1. Rooted
    BY <1>2 DEF TreeInv
  <2>2. \A f \in Editors : editor'[f].pc # "link"
    BY <1>3
  <2> QED BY <1>2, <2>1, <2>2 DEF Rooted, Shallow
<1> QED BY <1>4, <1>5, <1>6, NotApart

LEMMA MergeCommitted ==
    ASSUME TreeInv, H!TypeOK', NEW e \in Editors, H!MergeCommits(e)
    PROVE  TreeInv'
<1> DEFINE winner == editor[e].winner
           loser  == editor[e].loser
           kids   == editor[e].kids
           freed  == editor[e].freed
<1>1. /\ H!TypeOK /\ parent \in Links /\ mergedInto \in Links /\ owner \in Clients
      /\ folded \in BOOLEAN
  BY TreeFields DEF TreeInv
<1>2. /\ editor[e].pc = "moved" /\ editor' = [editor EXCEPT ![e] = H!Settled]
      /\ parent' = [c \in Clients |-> IF c = winner /\ freed THEN "none"
                                      ELSE IF c \in kids THEN winner ELSE parent[c]]
      /\ owner' = (IF editor[e].took THEN winner ELSE owner)
      /\ mergedInto' = [mergedInto EXCEPT ![loser] = winner]
      /\ UNCHANGED <<calls, apart>>
  BY DEF H!MergeCommits, H!Ends
<1>3. folded' = (folded \/ \E n \in 1 .. H!Cardinality(Clients) : H!Climb(parent, winner, n) \in kids)
  BY DEF H!MergeCommits
<1>4. /\ winner \in Clients /\ loser \in Clients /\ kids \in SUBSET Clients /\ freed \in BOOLEAN
      /\ editor[e].took \in BOOLEAN
  BY <1>1, <1>2, EditorTypes
<1>5. ASSUME apart' = 0 PROVE Sole' /\ \A f \in Editors : editor'[f].pc = "idle"
  <2>1. \A f \in Editors \ {e} : editor[f] = H!Settled
    BY <1>1, <1>2, <1>5, OthersRest DEF TreeInv
  <2>2. H!Settled.pc = "idle"
    BY DEF H!Settled
  <2> QED BY <1>1, <1>2, <2>1, <2>2, AloneStays
<1>6. Sole'
  BY <1>5 DEF Sole
<1>7. ASSUME apart' = 0
      PROVE  /\ winner # loser /\ mergedInto[winner] = "none" /\ mergedInto[loser] = "none"
             /\ winner \notin kids /\ (editor[e].took <=> owner = loser)
             /\ Survivor
  BY <1>2, <1>7 DEF TreeInv, Survivor, MergeHolds
<1> HIDE DEF winner, loser, kids, freed
<1>8. apart' = 0 => Survivor'
  <2> SUFFICES ASSUME apart' = 0 PROVE Survivor'
    OBVIOUS
  <2>1. \A c \in Clients : RunsOut(mergedInto, c)
    BY <1>7 DEF Survivor
  <2>2. /\ mergedInto' \in Links /\ mergedInto'[winner] = "none" /\ mergedInto'[loser] = winner
        /\ \A c \in Clients \ {loser} : mergedInto'[c] = mergedInto[c]
    BY <1>1, <1>2, <1>4, <1>7 DEF Links
  <2>3. RunsOut(mergedInto', winner)
    <3>1. RunsOut(mergedInto', "none")
      <4>1. 0 \in Nat /\ H!Climb(mergedInto', "none", 0) = "none"
        BY ClimbSteps
      <4> QED BY <4>1 DEF RunsOut
    <3> QED BY <1>4, <2>2, <3>1, EndsBelow, ClientsAreRows
  <2>4. RunsOut(mergedInto', loser)
    BY <1>4, <2>2, <2>3, EndsBelow, ClientsAreRows
  <2>5. \A c \in Clients : RunsOut(mergedInto', c)
    <3> DEFINE X == {loser}
    <3>1. X \in SUBSET Clients /\ \A x \in X : RunsOut(mergedInto', x)
      BY <1>4, <2>4
    <3>2. \A c \in Clients \ X : mergedInto'[c] = mergedInto[c]
      BY <2>2
    <3> HIDE DEF X
    <3> QED BY <1>1, <2>1, <2>2, <3>1, <3>2, EndsStill, ClientsAreRows
  <2>6. mergedInto'[owner'] = "none"
    <3>1. CASE editor[e].took
      BY <1>2, <2>2, <3>1
    <3>2. CASE ~editor[e].took
      <4>1. owner' = owner /\ owner # loser /\ mergedInto[owner] = "none"
        BY <1>2, <1>7, <3>2 DEF Survivor
      <4> QED BY <1>1, <2>2, <4>1
    <3> QED BY <3>1, <3>2
  <2> QED BY <1>5, <2>5, <2>6 DEF Survivor
<1>9. apart' = 0 /\ ~folded' => Rooted'
  <2> SUFFICES ASSUME apart' = 0, ~folded' PROVE Rooted'
    OBVIOUS
  <2>1. H!Cardinality(Clients) = Cardinality(Clients)
    BY Zenon DEF H!Cardinality, Cardinality
  <2>2. ~folded /\ \A n \in 1 .. Cardinality(Clients) : H!Climb(parent, winner, n) \notin kids
    BY <1>1, <1>3, <2>1
  <2>3. \A c \in Clients : RunsOut(parent, c)
    BY <1>2, <2>2 DEF TreeInv, Rooted
  <2>4. \A c \in Clients : RunsOut(parent', c)
    BY <1>1, <1>2, <1>4, <1>7, <2>2, <2>3, MergeKeepsRoots, ClientsAreRows
  <2>5. ~ \A c \in Clients : mergedInto'[c] = "none"
    <3>1. mergedInto'[loser] = winner /\ winner # "none"
      BY <1>1, <1>2, <1>4, ClientsAreRows DEF Links
    <3> QED BY <1>4, <3>1
  <2> QED BY <1>5, <2>4, <2>5 DEF Rooted
<1> QED BY <1>6, <1>8, <1>9, NotApart

LEMMA CallFailed ==
    ASSUME TreeInv, H!TypeOK', NEW e \in Editors, H!Fails(e)
    PROVE  TreeInv'
<1>1. /\ UNCHANGED <<parent, mergedInto, owner, calls, apart, folded>>
      /\ editor' = [editor EXCEPT ![e] = H!Settled]
  BY DEF H!Fails, H!Ends
<1>2. \A f \in Editors : editor'[f] = editor[f] \/ (editor'[f] = H!Settled /\ editor'[f].pc = "idle")
  BY <1>1 DEF TreeInv, H!TypeOK, H!Settled
<1>3. Sole'
  BY <1>1, <1>2 DEF TreeInv, Sole
<1>4. apart' = 0 => Survivor'
  <2> SUFFICES ASSUME apart' = 0 PROVE Survivor'
    OBVIOUS
  <2>1. Survivor
    BY <1>1 DEF TreeInv
  <2>2. ASSUME NEW f \in Editors, editor'[f].pc \in {"merge", "moved"} PROVE MergeHolds(f)'
    <3>1. editor'[f] = editor[f]
      BY <1>2, <2>2
    <3> QED BY <1>1, <2>1, <2>2, <3>1 DEF Survivor, MergeHolds
  <2> QED BY <1>1, <2>1, <2>2 DEF Survivor
<1>5. apart' = 0 /\ ~folded' => Rooted'
  <2> SUFFICES ASSUME apart' = 0, ~folded' PROVE Rooted'
    OBVIOUS
  <2>1. Rooted
    BY <1>1 DEF TreeInv
  <2>2. ASSUME NEW f \in Editors, editor'[f].pc = "link" PROVE LinkHolds(f)'
    <3>1. editor'[f] = editor[f]
      BY <1>2, <2>2
    <3> QED BY <1>1, <2>1, <2>2, <3>1 DEF Rooted, LinkHolds
  <2> QED BY <1>1, <2>1, <2>2 DEF Rooted, Shallow
<1> QED BY <1>3, <1>4, <1>5, NotApart

LEMMA TreeInvariant == ServicesSpec => []TreeInv
<1>1. ServicesInit => TreeInv
  BY TreeInit DEF ServicesInit
<1>2. ASSUME TreeInv, [ServicesNext]_vars PROVE TreeInv'
  <2>1. CASE UNCHANGED treeRows
    BY <1>2, <2>1 DEF treeRows, TreeInv, H!TypeOK, Sole, Survivor, MergeHolds, Rooted, Shallow, LinkHolds
  <2>2. CASE H!Next
    <3>2. H!TypeOK'
      BY <1>2, <2>2, TreeTyped DEF TreeInv
    <3>3. PICK e \in Editors :
            \/ H!SetParentChecks(e) \/ H!SetParentWrites(e) \/ H!UnsetParent(e)
            \/ H!MergeReads(e) \/ H!MergeMoves(e) \/ H!MergeCommits(e) \/ H!Fails(e)
      BY <2>2 DEF H!Next
    <3> QED BY <1>2, <3>2, <3>3, ParentChecked, ParentWritten, ParentUnset, MergeRead,
               MergeMoved, MergeCommitted, CallFailed
  <2> QED BY <1>2, <2>1, <2>2, TreeMoves
<1> QED BY <1>1, <1>2, PTL DEF ServicesSpec

\* setParent() locks both rows and checks inside its transaction: no client is its own
\* ancestor, and until a merge none is deeper than MAX_DEPTH, unless calls overlapped that
\* wait for no row of each other or a client was merged into one further below it.
THEOREM TreeKeepsRoots == ServicesSpec => []TreeHasRoots
<1>1. TreeInv => H!TreeHasRoots
  <2> SUFFICES ASSUME TreeInv, apart = 0, ~folded
               PROVE  /\ H!EndsWithin(parent, H!Cardinality(Clients))
                      /\ H!EndsWithin(mergedInto, 1) => H!EndsWithin(parent, MaxDepth + 1)
    BY DEF H!TreeHasRoots
  <2>1. H!Cardinality(Clients) = Cardinality(Clients)
    BY Zenon DEF H!Cardinality, Cardinality
  <2>2. parent \in Links /\ mergedInto \in Links
    BY TreeFields DEF TreeInv
  <2>3. Rooted
    BY DEF TreeInv
  <2>4. H!EndsWithin(parent, Cardinality(Clients))
    BY <2>2, <2>3, EndsSoon, ClientsAreRows DEF Rooted
  <2>5. ASSUME H!EndsWithin(mergedInto, 1), NEW c \in Clients PROVE mergedInto[c] = "none"
    <3>1. H!Climb(mergedInto, c, 0 + 1) = H!Climb(mergedInto, mergedInto[c], 0) /\ 0 + 1 = 1
      BY ClimbFirst, ClientsAreRows
    <3>2. H!Climb(mergedInto, mergedInto[c], 0) = mergedInto[c]
      BY ClimbSteps
    <3> QED BY <2>5, <3>1, <3>2 DEF H!EndsWithin
  <2>6. H!EndsWithin(mergedInto, 1) => H!EndsWithin(parent, MaxDepth + 1)
    BY <2>3, <2>5 DEF Rooted, Shallow, H!EndsWithin
  <2> QED BY <2>1, <2>4, <2>6
<1>2. TreeInv => TreeHasRoots
  BY <1>1 DEF TreeHasRoots
<1> QED BY <1>2, TreeInvariant, PTL

\* Following mergedIntoId from a merged client comes to one that was not merged, and that is
\* where its invoice is, unless the merge overlapped another call.
THEOREM MergeHasSurvivor == ServicesSpec => []MergedHasSurvivor
<1>1. TreeInv => H!MergedHasSurvivor
  <2> SUFFICES ASSUME TreeInv, apart = 0
               PROVE  /\ H!EndsWithin(mergedInto, H!Cardinality(Clients))
                      /\ mergedInto[owner] = "none"
    BY DEF H!MergedHasSurvivor
  <2>1. H!Cardinality(Clients) = Cardinality(Clients)
    BY Zenon DEF H!Cardinality, Cardinality
  <2>2. mergedInto \in Links
    BY TreeFields DEF TreeInv
  <2>3. Survivor
    BY DEF TreeInv
  <2>4. H!EndsWithin(mergedInto, Cardinality(Clients))
    BY <2>2, <2>3, EndsSoon, ClientsAreRows DEF Survivor
  <2> QED BY <2>1, <2>3, <2>4 DEF Survivor
<1>2. TreeInv => MergedHasSurvivor
  BY <1>1 DEF MergedHasSurvivor
<1> QED BY <1>2, TreeInvariant, PTL

--------------------------------------------------------------------------------
(* All the services *)

\* The rows, jobs and requests of every service keep their form, whichever runs.
THEOREM ServicesTyped == ServicesSpec => []ServicesTypeOK
<1> DEFINE Sent   == DunningInv /\ CampaignInv /\ SequenceInv
           Billed == BillingInv /\ CyclesInv /\ DraftingInv
           Signed == QuoteInv /\ SignatureInv /\ BookingInv
           Kept   == StockInv /\ InboxInv /\ CallInv /\ OrderInv /\ TreeInv
<1>1. Sent => TypeOK /\ C!TypeOK /\ S!TypeOK
  BY DEF DunningInv, CampaignInv, SequenceInv
<1>2. Billed => B!TypeOK /\ R!TypeOK /\ E!TypeOK
  BY DEF BillingInv, CyclesInv, DraftingInv, DraftsKnow
<1>3. Signed => Q!TypeOK /\ P!TypeOK /\ A!TypeOK
  BY DEF QuoteInv, SignatureInv, BookingInv
<1>4. Kept => T!TypeOK /\ M!TypeOK /\ L!TypeOK /\ W!TypeOK /\ H!TypeOK
  BY DEF StockInv, InboxInv, CallInv, OrderInv, TreeInv
<1>5. ServicesSpec => []Sent
  BY ServicesRunDunning, DunningInvariant, CampaignInvariant, SequenceInvariant, PTL
<1>6. ServicesSpec => []Billed
  BY BillingInvariant, CyclesInvariant, DraftingInvariant, PTL
<1>7. ServicesSpec => []Signed
  BY QuoteInvariant, SignatureInvariant, BookingInvariant, PTL
<1>8. ServicesSpec => []Kept
  BY StockInvariant, InboxInvariant, CallInvariant, OrderInvariant, TreeInvariant, PTL
<1> HIDE DEF Sent, Billed, Signed, Kept
<1>9. Sent /\ Billed /\ Signed /\ Kept => ServicesTypeOK
  BY <1>1, <1>2, <1>3, <1>4 DEF ServicesTypeOK
<1> QED BY <1>5, <1>6, <1>7, <1>8, <1>9, PTL
================================================================================
