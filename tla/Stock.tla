---------------------------------- MODULE Stock ----------------------------------
(***************************************************************************)
(* One product's stock and its movements: products/products.service.ts.    *)
(*                                                                         *)
(* adjustStock reads the balance, refuses one that would go negative, and  *)
(* writes balance and movement in the same transaction.  Transactions      *)
(* read what others have committed, so two adjustments may read the same   *)
(* balance.  A sent invoice takes its lines off, one after the other.      *)
(***************************************************************************)
EXTENDS Integers

CONSTANTS Hands,        \* adjustments in progress
          MaxQuantity,  \* bound on quantities and on the balance
          MaxMoves,     \* bound on movements
          MaxConflicts  \* bound on adjustments that begin beside another

VARIABLES
    product,   \* life, tracked (trackInventory), quantity (stockQuantity)
    moves,     \* stock_movements: how many, and their total
    hand,      \* what each adjustment holds
    base,      \* history: what create() and update() put there beside the movements
    forced,    \* history: a correction or an edit may have gone below zero
    conflicts  \* history: balances read or edited between another's read and write

stockVars == <<product, moves, hand, base, forced, conflicts>>

Quantities == -MaxQuantity .. MaxQuantity
Empty      == [pc |-> "idle"]

Init ==
    /\ product = [life |-> "none", tracked |-> FALSE, quantity |-> 0]
    /\ moves = [count |-> 0, total |-> 0]
    /\ hand = [h \in Hands |-> Empty]
    /\ base = 0 /\ forced = FALSE /\ conflicts = 0

\* The balance is touched between the read and the write of one of these adjustments
Beside(others) ==
    IF \E g \in others : hand[g].pc = "write"
      THEN conflicts < MaxConflicts /\ conflicts' = conflicts + 1
      ELSE UNCHANGED conflicts

--------------------------------------------------------------------------------
(* The product *)

Create ==
    /\ product.life = "none"
    /\ \E q \in Quantities, t \in BOOLEAN :
         /\ product' = [life |-> "there", tracked |-> t, quantity |-> q]
         /\ base' = q /\ forced' = (q < 0)
    /\ UNCHANGED <<moves, hand, conflicts>>

\* update() of other fields leaves the quantity alone
SetTracked ==
    /\ product.life = "there"
    /\ product' = [product EXCEPT !.tracked = ~@]
    /\ UNCHANGED <<moves, hand, base, forced, conflicts>>

\* update() with a quantity; it writes no movement
SetQuantity ==
    /\ product.life = "there"
    /\ \E q \in Quantities :
         /\ product' = [product EXCEPT !.quantity = q]
         /\ base' = q - moves.total
         /\ forced' = (forced \/ q < 0)
    /\ Beside(Hands)
    /\ UNCHANGED <<moves, hand>>

\* The movements go with the product
Delete ==
    /\ product.life = "there"
    /\ product' = [product EXCEPT !.life = "deleted"]
    /\ moves' = [count |-> 0, total |-> 0]
    /\ UNCHANGED <<hand, base, forced, conflicts>>

--------------------------------------------------------------------------------
(* adjustStock, called by people and, line by line, by onInvoiceSent *)

Goes(h, call) == hand' = [hand EXCEPT ![h] = call]

AdjustStock(h) ==
    /\ hand[h] = Empty
    /\ \E why \in {"manual", "correction"} :
         Goes(h, [pc |-> "line", why |-> why, lines |-> 1])
    /\ UNCHANGED <<product, moves, base, forced, conflicts>>

OnInvoiceSent(h) ==
    /\ hand[h] = Empty
    /\ \E n \in 1 .. 2 : Goes(h, [pc |-> "line", why |-> "invoice_sent", lines |-> n])
    /\ UNCHANGED <<product, moves, base, forced, conflicts>>

Deltas(why) ==
    IF why = "invoice_sent" THEN {d \in Quantities : d < 0} ELSE Quantities \ {0}

\* "Stock would go negative. Use reason 'correction' to force."
Allowed(balance, why) == balance >= 0 \/ why = "correction"

Read(h) ==
    /\ hand[h].pc = "line" /\ product.life = "there" /\ product.tracked
    /\ \E d \in Deltas(hand[h].why) :
         /\ product.quantity + d \in Quantities
         /\ Allowed(product.quantity + d, hand[h].why)
         /\ Goes(h, [pc |-> "write", why |-> hand[h].why, lines |-> hand[h].lines,
                     delta |-> d, balance |-> product.quantity + d])
    /\ Beside(Hands \ {h})
    /\ UNCHANGED <<product, moves, base, forced>>

NextLine(h) ==
    Goes(h, IF hand[h].lines = 1 THEN Empty
            ELSE [pc |-> "line", why |-> hand[h].why, lines |-> hand[h].lines - 1])

\* Mutant: the balance is kept at zero, and the movement says otherwise
BalanceAtLeastZero(h) == IF hand[h].balance < 0 THEN 0 ELSE hand[h].balance

\* nextBalance
BalanceAfter(h) == hand[h].balance

\* The balance and its movement, together
Write(h) ==
    /\ hand[h].pc = "write" /\ product.life = "there" /\ moves.count < MaxMoves
    /\ product' = [product EXCEPT !.quantity = BalanceAfter(h)]
    /\ moves' = [count |-> moves.count + 1, total |-> moves.total + hand[h].delta]
    /\ forced' = (forced \/ hand[h].why = "correction")
    /\ NextLine(h)
    /\ UNCHANGED <<base, conflicts>>

\* Refused, not tracked, gone, or a failing query: an invoice goes on with its next line
Skip(h) ==
    /\ hand[h] # Empty
    /\ NextLine(h)
    /\ UNCHANGED <<product, moves, base, forced, conflicts>>

--------------------------------------------------------------------------------
Next ==
    \/ Create \/ SetTracked \/ SetQuantity \/ Delete
    \/ \E h \in Hands : AdjustStock(h) \/ OnInvoiceSent(h) \/ Read(h) \/ Write(h) \/ Skip(h)

Spec == Init /\ [][Next]_stockVars

--------------------------------------------------------------------------------
(* Properties *)

Whys == {"manual", "correction", "invoice_sent"}

TypeOK ==
    /\ product \in [life : {"none", "there", "deleted"}, tracked : BOOLEAN,
                    quantity : Quantities]
    /\ moves \in [count : 0 .. MaxMoves, total : Int]
    /\ hand \in [Hands -> {Empty} \cup
                          [pc : {"line"}, why : Whys, lines : 1 .. 2] \cup
                          [pc : {"write"}, why : Whys, lines : 1 .. 2,
                           delta : Quantities, balance : Quantities]]
    /\ base \in Int /\ forced \in BOOLEAN /\ conflicts \in 0 .. MaxConflicts

\* The movements explain the balance: as long as no two adjustments read the same one, it
\* is what people entered plus the sum of the movements; and whatever overlaps, it is
\* never below zero unless somebody forced it there.
BalanceExplained ==
    product.life = "there" =>
        /\ conflicts = 0 => product.quantity = base + moves.total
        /\ ~forced => product.quantity >= 0

================================================================================
