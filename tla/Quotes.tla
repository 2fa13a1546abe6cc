---------------------------------- MODULE Quotes ----------------------------------
(***************************************************************************)
(* One quote, from draft to invoice: cpq/quotes.service.ts.                *)
(*                                                                         *)
(* Every operation reads the quote in one transaction, checks it, and      *)
(* writes in the next without a condition on what it read.  Line items     *)
(* are a version number: each update() of them makes a new one.  The       *)
(* invoice is a draft at first, and when one is deleted the foreign key    *)
(* sets the quote's pointer to it back to null.                            *)
(***************************************************************************)
EXTENDS Integers

CONSTANTS Agents,       \* requests in progress
          MaxVersions,  \* bound on updates of the lines
          MaxCrossings  \* bound on requests that begin beside another

VARIABLES
    quote,     \* status, version of the lines, and convertedInvoiceId: the version of the
               \* lines of that invoice, 0 for null
    agent,     \* what each request has read
    spare,     \* how many invoices made of the quote it does not point to
    sentAs,    \* history: the version the client was last sent, 0 if none
    crossings  \* history: requests that began beside another

quoteVars == <<quote, agent, spare, sentAs, crossings>>

Versions == 1 .. MaxVersions
NotThere == [status |-> "none", version |-> 1, invoice |-> 0]
Free     == [pc |-> "idle"]

Init ==
    /\ quote = NotThere
    /\ agent = [a \in Agents |-> Free]
    /\ spare = 0 /\ sentAs = 0 /\ crossings = 0

\* ALLOWED_TRANSITIONS; nothing in the code sets expired
Allowed(from) ==
    CASE from = "draft" -> {"sent"}
      [] from = "sent"  -> {"accepted", "rejected", "expired"}
      [] OTHER          -> {}

--------------------------------------------------------------------------------
Begins(a, call) ==
    LET beside == \E b \in Agents : agent[b] # Free IN
    /\ agent[a] = Free
    /\ beside => crossings < MaxCrossings
    /\ crossings' = IF beside THEN crossings + 1 ELSE crossings
    /\ agent' = [agent EXCEPT ![a] = call]

Ends(a) == agent' = [agent EXCEPT ![a] = Free]

Create ==
    /\ quote.status = "none"
    /\ quote' = [quote EXCEPT !.status = "draft"]
    /\ UNCHANGED <<agent, spare, sentAs, crossings>>

\* update() and remove() are for drafts
EditRead(a) ==
    /\ quote.status = "draft"
    /\ \E pc \in {"update", "remove"} : Begins(a, [pc |-> pc])
    /\ UNCHANGED <<quote, spare, sentAs>>

UpdateWrite(a) ==
    /\ agent[a].pc = "update"
    /\ IF quote.status = "deleted" THEN UNCHANGED quote
       ELSE /\ quote.version < MaxVersions
            /\ quote' = [quote EXCEPT !.version = @ + 1]
    /\ Ends(a)
    /\ UNCHANGED <<spare, sentAs, crossings>>

RemoveWrite(a) ==
    /\ agent[a].pc = "remove"
    /\ quote' = [quote EXCEPT !.status = "deleted"]
    /\ Ends(a)
    /\ UNCHANGED <<spare, sentAs, crossings>>

\* send(), markAccepted() and markRejected()
MoveRead(a) ==
    /\ \E to \in Allowed(quote.status) \ {"expired"} :
         Begins(a, [pc |-> "move", to |-> to])
    /\ UNCHANGED <<quote, spare, sentAs>>

MoveWrite(a) ==
    LET to == agent[a].to IN
    /\ agent[a].pc = "move"
    /\ IF quote.status = "deleted" THEN UNCHANGED <<quote, sentAs>>
       ELSE /\ quote' = [quote EXCEPT !.status = to]
            /\ sentAs' = IF to = "sent" THEN quote.version ELSE sentAs
    /\ Ends(a)
    /\ UNCHANGED <<spare, crossings>>

\* Mutant: whether it was converted before is not asked
ConvertibleAgain == quote.status = "accepted"

Convertible == quote.status = "accepted" /\ quote.invoice = 0

ConvertRead(a) ==
    /\ Convertible
    /\ Begins(a, [pc |-> "convert", version |-> quote.version])
    /\ UNCHANGED <<quote, spare, sentAs>>

\* The invoice, of the lines that were read, and the pointer to it
ConvertWrite(a) ==
    LET v == agent[a].version IN
    /\ agent[a].pc = "convert"
    /\ IF quote.status = "deleted" THEN UNCHANGED <<quote, spare>>
       ELSE /\ quote' = [quote EXCEPT !.invoice = v]
            /\ spare' = IF quote.invoice = 0 THEN spare ELSE spare + 1
    /\ Ends(a)
    /\ UNCHANGED <<sentAs, crossings>>

\* Somebody deletes an invoice that is still a draft: the one the quote points to, so that
\* it may be converted again, or another
InvoiceDeleted ==
    /\ \/ quote.invoice # 0 /\ quote' = [quote EXCEPT !.invoice = 0] /\ UNCHANGED spare
       \/ spare > 0 /\ spare' = spare - 1 /\ UNCHANGED quote
    /\ UNCHANGED <<agent, sentAs, crossings>>

\* A failing query: the transaction is rolled back
Fails(a) ==
    /\ agent[a] # Free
    /\ Ends(a)
    /\ UNCHANGED <<quote, spare, sentAs, crossings>>

--------------------------------------------------------------------------------
Next ==
    \/ Create \/ InvoiceDeleted
    \/ \E a \in Agents : \/ EditRead(a) \/ UpdateWrite(a) \/ RemoveWrite(a)
                         \/ MoveRead(a) \/ MoveWrite(a)
                         \/ ConvertRead(a) \/ ConvertWrite(a) \/ Fails(a)

Spec == Init /\ [][Next]_quoteVars

--------------------------------------------------------------------------------
(* Properties *)

AgentType ==
    {Free} \cup [pc : {"update", "remove"}]
           \cup [pc : {"move"}, to : {"sent", "accepted", "rejected"}]
           \cup [pc : {"convert"}, version : Versions]

TypeOK ==
    /\ quote \in [status : {"none", "draft", "sent", "accepted", "rejected", "deleted"},
                  version : Versions, invoice : Versions \cup {0}]
    /\ agent \in [Agents -> AgentType]
    /\ spare \in Nat
    /\ sentAs \in Versions \cup {0} /\ crossings \in 0 .. MaxCrossings

\* What the client is invoiced is what the client was sent, once: "Idempotent: refuses if
\* convertedInvoiceId is already set".  However often requests are made one after the other,
\* and drafts deleted and made anew between them, a quote has one invoice at a time, and one
\* more at most for each request that began beside another.  While none does, the lines do
\* not change once the quote is sent, a decided quote stays decided, and only an accepted
\* quote is invoiced.
InvoicedAsSent ==
    /\ spare <= crossings
    /\ crossings = 0 =>
         /\ quote.invoice # 0 => quote.status = "accepted" /\ quote.invoice = sentAs
         /\ quote.status \notin {"none", "draft", "deleted"} => sentAs = quote.version

================================================================================
