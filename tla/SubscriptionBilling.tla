-------------------------- MODULE SubscriptionBilling --------------------------
(***************************************************************************)
(* One client subscription and the cron that bills it:                     *)
(* subscriptions/subscriptions.service.ts and its scheduler.               *)
(*                                                                         *)
(* Time is counted in billing intervals.  Each tick drafts the invoice in  *)
(* one transaction and moves nextInvoiceAt in another, from the date it    *)
(* read, and nothing keeps two ticks apart.                                *)
(***************************************************************************)
EXTENDS Integers

CONSTANTS Ticks,        \* ticks in progress at one time, of one server or several
          Horizon,      \* bound on the clock
          MaxRedates,   \* bound on edits of nextInvoiceAt
          MaxHalfDone,  \* bound on invoices whose advance fails
          MaxOverlaps   \* bound on ticks that find another one at the row

VARIABLES
    subscription,  \* client_subscriptions: status, next (nextInvoiceAt)
    now,
    biller,        \* what each tick has read of the row
    billed,        \* history: invoices drafted for each date
    since,         \* history: the first date
    redates, halfDone, overlaps    \* history: how often each happened

subscriptionVars == <<subscription, now, biller, billed, since, redates, halfDone, overlaps>>

Dates    == 0 .. Horizon
Never    == -1                       \* nextInvoiceAt is null
Absent   == [status |-> "none", next |-> Never]
Resting  == [pc |-> "idle"]
Statuses == {"active", "paused", "cancelled"}

Init ==
    /\ subscription = Absent /\ now = 0 /\ since = 0
    /\ biller = [t \in Ticks |-> Resting]
    /\ billed = [d \in Dates |-> 0]
    /\ redates = 0 /\ halfDone = 0 /\ overlaps = 0

PassTime ==
    /\ now < Horizon
    /\ now' = now + 1
    /\ UNCHANGED <<subscription, biller, billed, since, redates, halfDone, overlaps>>

--------------------------------------------------------------------------------
(* The API *)

\* The date given, or one interval from now
Create ==
    /\ subscription = Absent
    /\ \E d \in Dates : /\ subscription' = [status |-> "active", next |-> d]
                        /\ since' = d
    /\ UNCHANGED <<now, biller, billed, redates, halfDone, overlaps>>

\* update(), pause() and resume(): any status over any other, and any date
Update ==
    /\ subscription # Absent
    /\ \E s \in Statuses, d \in Dates \cup {Never, subscription.next} :
         /\ d # subscription.next => redates < MaxRedates
         /\ redates' = IF d # subscription.next THEN redates + 1 ELSE redates
         /\ subscription' = [status |-> s, next |-> d]
    /\ UNCHANGED <<now, biller, billed, since, halfDone, overlaps>>

Cancel ==
    /\ subscription # Absent
    /\ subscription' = [subscription EXCEPT !.status = "cancelled"]
    /\ UNCHANGED <<now, biller, billed, since, redates, halfDone, overlaps>>

--------------------------------------------------------------------------------
(* runDueBilling *)

Busy == {t \in Ticks : biller[t] # Resting}

Due == subscription.next \in 0 .. now

\* All due rows are read at once; a paused or cancelled one is passed over
Scan(t) ==
    /\ biller[t] = Resting
    /\ Due /\ subscription.status \notin {"paused", "cancelled"}
    /\ Busy # {} => overlaps < MaxOverlaps
    /\ overlaps' = IF Busy # {} THEN overlaps + 1 ELSE overlaps
    /\ biller' = [biller EXCEPT ![t] = [pc |-> "generate", at |-> subscription.next]]
    /\ UNCHANGED <<subscription, now, billed, since, redates, halfDone>>

Generate(t) ==
    /\ biller[t].pc = "generate"
    /\ billed' = [billed EXCEPT ![biller[t].at] = @ + 1]
    /\ biller' = [biller EXCEPT ![t].pc = "advance"]
    /\ UNCHANGED <<subscription, now, since, redates, halfDone, overlaps>>

\* Caught and logged: the row stays due.  The process may also stop here.
GenerateFails(t) ==
    /\ biller[t].pc = "generate"
    /\ biller' = [biller EXCEPT ![t] = Resting]
    /\ UNCHANGED <<subscription, now, billed, since, redates, halfDone, overlaps>>

\* Mutant: an interval from today, as the processor of recurring invoices has it
NextFromNow(at) == now + 1

\* One interval after the date that was billed
NextAt(at) == at + 1

Advance(t) ==
    /\ biller[t].pc = "advance" /\ NextAt(biller[t].at) <= Horizon
    /\ subscription' = [subscription EXCEPT !.next = NextAt(biller[t].at)]
    /\ biller' = [biller EXCEPT ![t] = Resting]
    /\ UNCHANGED <<now, billed, since, redates, halfDone, overlaps>>

\* The update fails, or the process stops before it
AdvanceFails(t) ==
    /\ biller[t].pc = "advance" /\ halfDone < MaxHalfDone
    /\ halfDone' = halfDone + 1
    /\ biller' = [biller EXCEPT ![t] = Resting]
    /\ UNCHANGED <<subscription, now, billed, since, redates, overlaps>>

--------------------------------------------------------------------------------
Next ==
    \/ PassTime \/ Create \/ Update \/ Cancel
    \/ \E t \in Ticks : \/ Scan(t) \/ Generate(t) \/ GenerateFails(t)
                        \/ Advance(t) \/ AdvanceFails(t)

Spec == Init /\ [][Next]_subscriptionVars

--------------------------------------------------------------------------------
(* Properties *)

TypeOK ==
    /\ subscription \in {Absent} \cup [status : Statuses, next : Dates \cup {Never}]
    /\ now \in Dates /\ since \in Dates
    /\ biller \in [Ticks -> {Resting} \cup [pc : {"generate", "advance"}, at : Dates]]
    /\ billed \in [Dates -> Nat]
    /\ redates \in 0 .. MaxRedates /\ halfDone \in 0 .. MaxHalfDone
    /\ overlaps \in 0 .. MaxOverlaps

\* Each period is billed, and once.  A date is invoiced once, and once more only for each
\* tick that overlapped another, each invoice whose advance failed and each edit of the
\* date: neither a late tick, nor pausing and resuming, nor a failed draft bills a customer
\* twice.  While nobody edits the date, every date before nextInvoiceAt has its invoice:
\* ticks that come late, overlap, fail or stop half way leave no period unbilled.
PeriodsBilledOnce ==
    /\ \A d \in Dates : billed[d] <= 1 + overlaps + halfDone + redates
    /\ redates = 0 => \A d \in since .. (subscription.next - 1) : billed[d] > 0

================================================================================
