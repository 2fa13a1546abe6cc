-------------------------------- MODULE Drafting --------------------------------
(***************************************************************************)
(* Billable expenses and the invoices they are put on: billExpenses,       *)
(* merge, duplicate, delete and the statuses in                            *)
(* invoices/invoices.service.ts.                                           *)
(*                                                                         *)
(* The status of the invoice is checked in one transaction; in the next,   *)
(* the expenses are read as not yet invoiced, the lines are added and the  *)
(* expenses marked.  Transactions read what others have committed, so a    *)
(* read and the writes after it are two steps, and what a write depends on *)
(* may be gone by then.                                                    *)
(***************************************************************************)
EXTENDS Integers, FiniteSets, FiniteSetsExt

CONSTANTS Clerks,       \* requests in progress
          Invoices, Expenses,
          MaxOverlaps   \* bound on requests that begin beside another, and copies

VARIABLES
    status,    \* Invoices -> "none" | "draft" | "open" (sent to paid) | "cancelled" |
               \* "revived" (open again) | "deleted"
    lines,     \* Invoices -> Expenses -> how many lines bill the expense
    invoiced,  \* expenses with the flag
    clerk,     \* what each request has read
    crossed    \* history: how many requests began beside another or copied an invoice

draftingVars == <<status, lines, invoiced, clerk, crossed>>

Vacant  == [pc |-> "idle"]
NoLines == [e \in Expenses |-> 0]

LinesFor(e, S) == MapThenSumSet(LAMBDA i : lines[i][e], S)

Init ==
    /\ status = [i \in Invoices |-> "none"]
    /\ lines = [i \in Invoices |-> NoLines]
    /\ invoiced = {}
    /\ clerk = [c \in Clerks |-> Vacant]
    /\ crossed = 0

Beside == \E d \in Clerks : clerk[d] # Vacant

Begins(c, call, counts) ==
    /\ clerk[c] = Vacant
    /\ counts => crossed < MaxOverlaps
    /\ crossed' = IF counts THEN crossed + 1 ELSE crossed
    /\ clerk' = [clerk EXCEPT ![c] = call]

Ends(c) == clerk' = [clerk EXCEPT ![c] = Vacant]

--------------------------------------------------------------------------------
(* The life of an invoice *)

Create(i) ==
    /\ status[i] = "none"
    /\ status' = [status EXCEPT ![i] = "draft"]
    /\ UNCHANGED <<lines, invoiced, clerk, crossed>>

\* One that was cancelled, by a merge perhaps, is not asked for
Opened(s) == IF s \in {"cancelled", "revived"} THEN "revived" ELSE "open"

\* markPaid, and what payments, refunds and credit notes make of it (see Settlement)
Pay(i) ==
    /\ status[i] \notin {"none", "deleted"}
    /\ status' = [status EXCEPT ![i] = Opened(@)]
    /\ UNCHANGED <<lines, invoiced, clerk, crossed>>

\* send, updateStatus, and over many invoices bulkUpdateStatus and getOverdue
SetRead(c) ==
    /\ \E over \in SUBSET {i \in Invoices : status[i] \in {"draft", "open", "revived"}} \ {{}},
          to \in {"open", "cancelled"} :
         Begins(c, [pc |-> "set", over |-> over, to |-> to], Beside)
    /\ UNCHANGED <<status, lines, invoiced>>

\* Whatever they are by now
SetWrite(c) ==
    /\ clerk[c].pc = "set"
    /\ status' = [i \in Invoices |->
                    IF i \notin clerk[c].over \/ status[i] = "deleted" THEN status[i]
                    ELSE IF clerk[c].to = "cancelled" THEN "cancelled" ELSE Opened(status[i])]
    /\ Ends(c)
    /\ UNCHANGED <<lines, invoiced, crossed>>

DeleteRead(c, i) ==
    /\ status[i] = "draft"
    /\ Begins(c, [pc |-> "delete", on |-> i], Beside)
    /\ UNCHANGED <<status, lines, invoiced>>

\* The lines go; its expenses stay marked.  A second deletion finds no row and fails.
DeleteWrite(c) ==
    /\ clerk[c].pc = "delete"
    /\ IF status[clerk[c].on] = "deleted" THEN UNCHANGED <<status, lines>>
       ELSE /\ status' = [status EXCEPT ![clerk[c].on] = "deleted"]
            /\ lines' = [lines EXCEPT ![clerk[c].on] = NoLines]
    /\ Ends(c)
    /\ UNCHANGED <<invoiced, crossed>>

--------------------------------------------------------------------------------
(* billExpenses *)

BillRead(c, i) ==
    /\ status[i] = "draft"
    /\ \E asked \in SUBSET Expenses \ {{}} :
         Begins(c, [pc |-> "find", on |-> i, asked |-> asked], Beside)
    /\ UNCHANGED <<status, lines, invoiced>>

\* Mutant: the flag is not asked for
EligibleAll(asked) == asked

Eligible(asked) == asked \ invoiced

BillFind(c) ==
    LET found == Eligible(clerk[c].asked) IN
    /\ clerk[c].pc = "find"
    /\ clerk' = [clerk EXCEPT ![c] = IF found = {} THEN Vacant
                                     ELSE [pc |-> "bill", on |-> @.on, found |-> found]]
    /\ UNCHANGED <<status, lines, invoiced, crossed>>

\* One line each; the flag and the totals.  On an invoice deleted meanwhile the foreign
\* key of the lines fails.
BillWrite(c) ==
    LET i == clerk[c].on IN
    /\ clerk[c].pc = "bill"
    /\ IF status[i] = "deleted" THEN UNCHANGED <<lines, invoiced>>
       ELSE /\ lines' = [lines EXCEPT ![i] =
                          [e \in Expenses |-> IF e \in clerk[c].found THEN @[e] + 1 ELSE @[e]]]
            /\ invoiced' = invoiced \cup clerk[c].found
    /\ Ends(c)
    /\ UNCHANGED <<status, crossed>>

--------------------------------------------------------------------------------
(* merge, duplicate *)

\* All of them drafts, with their lines
MergeRead(c) ==
    /\ \E from \in SUBSET {i \in Invoices : status[i] = "draft"} :
         /\ Cardinality(from) > 1
         /\ Begins(c, [pc |-> "merge", from |-> from,
                       union |-> [e \in Expenses |-> LinesFor(e, from)]], Beside)
    /\ UNCHANGED <<status, lines, invoiced>>

\* duplicate, and the runs of a recurring invoice, copy the lines of any one: a merge that
\* has no source to cancel
CopyRead(c, i) ==
    /\ status[i] \notin {"none", "deleted"}
    /\ Begins(c, [pc |-> "merge", from |-> {}, union |-> lines[i]], TRUE)
    /\ UNCHANGED <<status, lines, invoiced>>

\* The new draft, and the sources cancelled whatever they are by now
Merged(c, i) ==
    [j \in Invoices |-> IF j = i THEN "draft"
                        ELSE IF j \in clerk[c].from THEN "cancelled" ELSE status[j]]

MergeWrite(c) ==
    /\ clerk[c].pc = "merge"
    /\ IF \E j \in clerk[c].from : status[j] = "deleted" THEN UNCHANGED <<status, lines>>
       ELSE \E i \in Invoices :
              /\ status[i] = "none"
              /\ status' = Merged(c, i)
              /\ lines' = [lines EXCEPT ![i] = clerk[c].union]
    /\ Ends(c)
    /\ UNCHANGED <<invoiced, crossed>>

\* A failing query rolls the transaction back
Fails(c) ==
    /\ clerk[c] # Vacant
    /\ Ends(c)
    /\ UNCHANGED <<status, lines, invoiced, crossed>>

--------------------------------------------------------------------------------
Next ==
    \/ \E i \in Invoices : Create(i) \/ Pay(i)
    \/ \E c \in Clerks, i \in Invoices : DeleteRead(c, i) \/ BillRead(c, i) \/ CopyRead(c, i)
    \/ \E c \in Clerks : \/ SetRead(c) \/ SetWrite(c) \/ DeleteWrite(c) \/ BillFind(c)
                         \/ BillWrite(c) \/ MergeRead(c) \/ MergeWrite(c) \/ Fails(c)

Spec == Init /\ [][Next]_draftingVars

--------------------------------------------------------------------------------
(* Properties *)

ClerkType ==
    {Vacant} \cup [pc : {"set"}, over : SUBSET Invoices, to : {"open", "cancelled"}]
             \cup [pc : {"delete"}, on : Invoices]
             \cup [pc : {"find"}, on : Invoices, asked : SUBSET Expenses]
             \cup [pc : {"bill"}, on : Invoices, found : SUBSET Expenses]
             \cup [pc : {"merge"}, from : SUBSET Invoices, union : [Expenses -> Nat]]

TypeOK ==
    /\ status \in [Invoices -> {"none", "draft", "open", "cancelled", "revived", "deleted"}]
    /\ lines \in [Invoices -> [Expenses -> Nat]]
    /\ invoiced \subseteq Expenses
    /\ clerk \in [Clerks -> ClerkType]
    /\ crossed \in 0 .. MaxOverlaps

Revived == {i \in Invoices : status[i] = "revived"}
Live    == {i \in Invoices : status[i] \in {"draft", "open"}} \cup Revived

\* A client pays for an expense once: however often it is asked for, and into whatever
\* drafts its draft is merged, the live invoices hold one line for it.  A request that began
\* beside another may double it (billed by both, merged into two drafts), so may a copy, and
\* a cancelled invoice that is paid after all bills it once more.
ExpenseBilledOnce ==
    \A e \in Expenses : LinesFor(e, Live) <= (1 + Cardinality(Revived)) * 2 ^ crossed

================================================================================
