------------------------------- MODULE WorkOrders -------------------------------
(***************************************************************************)
(* One work order and its history: field-service/work-orders.service.ts.   *)
(*                                                                         *)
(* Each operation reads the order in one transaction and checks its        *)
(* status; the next transaction writes status and history row together,    *)
(* without a condition on what was read.  The update locks the order's row *)
(* before the history row is inserted, so the history has the order of the *)
(* commits.  Line items and window are a version number.                   *)
(***************************************************************************)
EXTENDS Integers, FiniteSets, Sequences

CONSTANTS Dispatchers,  \* requests in progress
          MaxEdits,     \* bound on versions
          MaxHistory,   \* bound on history rows
          MaxClashes    \* bound on requests that begin beside another

VARIABLES
    order,       \* status and version
    history,     \* work_order_status_history: a sequence of from and to
    dispatcher,  \* what each request has read
    closedWith,  \* history: the version when the order was completed or cancelled, or 0
    clashes      \* history: requests that began beside another

orderVars == <<order, history, dispatcher, closedWith, clashes>>

Statuses == {"draft", "scheduled", "in_progress", "completed", "cancelled"}
Terminal == {"completed", "cancelled"}
NoOrder  == [status |-> "none", version |-> 1]
Off      == [pc |-> "idle"]

Init ==
    /\ order = NoOrder /\ history = <<>>
    /\ dispatcher = [d \in Dispatchers |-> Off]
    /\ closedWith = 0 /\ clashes = 0

\* Mutant: a completed order may still be cancelled
AllowedReopened(from) ==
    CASE from = "draft"       -> {"scheduled", "cancelled"}
      [] from = "scheduled"   -> {"in_progress", "cancelled"}
      [] from = "in_progress" -> {"completed", "cancelled"}
      [] from = "completed"   -> {"cancelled"}
      [] OTHER                -> {}

\* ALLOWED_TRANSITIONS
Allowed(from) ==
    CASE from = "draft"       -> {"scheduled", "cancelled"}
      [] from = "scheduled"   -> {"in_progress", "cancelled"}
      [] from = "in_progress" -> {"completed", "cancelled"}
      [] OTHER                -> {}

--------------------------------------------------------------------------------
There == order.status \in Statuses

Begins(d, call) ==
    LET beside == \E e \in Dispatchers : dispatcher[e] # Off IN
    /\ dispatcher[d] = Off
    /\ beside => clashes < MaxClashes
    /\ clashes' = IF beside THEN clashes + 1 ELSE clashes
    /\ dispatcher' = [dispatcher EXCEPT ![d] = call]

Ends(d) == dispatcher' = [dispatcher EXCEPT ![d] = Off]

Step(from, to) == [from |-> from, to |-> to]

\* The order as a draft, and the first row of its history
Create ==
    /\ order.status = "none"
    /\ order' = [order EXCEPT !.status = "draft"]
    /\ history' = <<Step("none", "draft")>>
    /\ UNCHANGED <<dispatcher, closedWith, clashes>>

\* update() refuses completed and cancelled orders
UpdateRead(d) ==
    /\ There /\ order.status \notin Terminal
    /\ Begins(d, [pc |-> "update"])
    /\ UNCHANGED <<order, history, closedWith>>

UpdateWrite(d) ==
    /\ dispatcher[d].pc = "update"
    /\ IF There THEN /\ order.version < MaxEdits
                     /\ order' = [order EXCEPT !.version = @ + 1]
       ELSE UNCHANGED order
    /\ Ends(d)
    /\ UNCHANGED <<history, closedWith, clashes>>

\* remove() is for drafts; the history goes with the order
RemoveRead(d) ==
    /\ order.status = "draft"
    /\ Begins(d, [pc |-> "remove"])
    /\ UNCHANGED <<order, history, closedWith>>

RemoveWrite(d) ==
    /\ dispatcher[d].pc = "remove"
    /\ order' = [order EXCEPT !.status = "deleted"]
    /\ history' = <<>>
    /\ Ends(d)
    /\ UNCHANGED <<closedWith, clashes>>

\* schedule(), start(), complete() and cancel(); a scheduled order may be scheduled again
MoveRead(d) ==
    /\ \E to \in Allowed(order.status) \cup ({order.status} \cap {"scheduled"}) :
         Begins(d, [pc |-> "move", step |-> Step(order.status, to)])
    /\ UNCHANGED <<order, history, closedWith>>

\* The history row has the status that was read as its origin.  schedule() brings a window,
\* complete() may bring the final lines.
MoveWrite(d) ==
    LET step == dispatcher[d].step IN
    /\ dispatcher[d].pc = "move"
    /\ IF There
         THEN /\ Len(history) < MaxHistory
              /\ \E version \in {order.version, order.version + 1} :
                   /\ step.to \in {"in_progress", "cancelled"} => version = order.version
                   /\ version <= MaxEdits
                   /\ order' = [status |-> step.to, version |-> version]
              /\ history' = Append(history, step)
              /\ closedWith' = IF step.to \in Terminal THEN order'.version ELSE closedWith
         ELSE UNCHANGED <<order, history, closedWith>>
    /\ Ends(d)
    /\ UNCHANGED clashes

\* A failing query: the transaction is rolled back
Fails(d) ==
    /\ dispatcher[d] # Off
    /\ Ends(d)
    /\ UNCHANGED <<order, history, closedWith, clashes>>

--------------------------------------------------------------------------------
Next ==
    \/ Create
    \/ \E d \in Dispatchers : \/ UpdateRead(d) \/ UpdateWrite(d)
                              \/ RemoveRead(d) \/ RemoveWrite(d)
                              \/ MoveRead(d) \/ MoveWrite(d) \/ Fails(d)

Spec == Init /\ [][Next]_orderVars

--------------------------------------------------------------------------------
(* Properties *)

Steps == [from : Statuses \cup {"none"}, to : Statuses]

TypeOK ==
    /\ order \in [status : Statuses \cup {"none", "deleted"}, version : 1 .. MaxEdits]
    /\ history \in Seq(Steps) /\ Len(history) <= MaxHistory
    /\ dispatcher \in [Dispatchers -> {Off} \cup [pc : {"update", "remove"}]
                                           \cup [pc : {"move"}, step : Steps]]
    /\ closedWith \in 0 .. MaxEdits /\ clashes \in 0 .. MaxClashes

\* "The audit log can never drift": whatever requests overlap, the history ends at the
\* order's status.  Each row starts where the one before it ended, but for one break for
\* each request that began beside another; and as long as none does, no move leads out of
\* a closed order, and its lines stay what they were ("terminal states are immutable").
HistoryNeverDrifts ==
    LET breaks == {n \in 2 .. Len(history) : history[n].from # history[n - 1].to} IN
    /\ There => history # <<>> /\ history[Len(history)].to = order.status
    /\ ~There => history = <<>>
    /\ Cardinality(breaks) <= clashes
    /\ clashes = 0 =>
         /\ \A n \in 1 .. Len(history) - 1 : history[n].to \notin Terminal
         /\ order.status \in Terminal => closedWith = order.version

================================================================================
