-------------------------------- MODULE Dunning --------------------------------
(***************************************************************************)
(* Payment reminders: dunning/dunning.service.ts, its scheduler and its    *)
(* queue processor.                                                        *)
(*                                                                         *)
(* A pass over the open invoices sends one email for each invoice and rule *)
(* that is due.  Passes of the queue and of "Run now" overlap; a row of    *)
(* dunning_logs, unique per invoice and rule and committed before the      *)
(* email is queued, is the claim that keeps them apart.                    *)
(***************************************************************************)
EXTENDS Integers, FiniteSets

CONSTANTS Passes,    \* calls of runForOrg in progress at one time
          Invoices,
          Rules,
          MaxLost    \* bound: claims that are given up before their email

VARIABLES
    dunning,  \* dunning_settings.enabled
    rule,     \* Rules -> "none" | "active" | "inactive" | "deleted"
    open,     \* the invoices that are unpaid, partial or overdue
    logs,     \* dunning_logs: pairs of invoice and rule
    mails,    \* history: how often the email of a pair was queued
    tick,     \* the BullMQ job dunning-run:<org>: "none" | "waiting" | "active" | "kept"
    pass,     \* what each pass holds
    lost      \* history: pairs whose pass failed or died between claim and email

dunningVars == <<dunning, rule, open, logs, mails, tick, pass, lost>>

Pairs == Invoices \X Rules
Idle  == [pc |-> "idle"]

Init ==
    /\ dunning = FALSE /\ tick = "none"
    /\ rule = [r \in Rules |-> "none"]
    /\ open = {} /\ logs = {} /\ lost = {}
    /\ mails = [p \in Pairs |-> 0]
    /\ pass = [w \in Passes |-> Idle]

--------------------------------------------------------------------------------
(* Settings and rules; one transaction each *)

UpdateSettings ==
    /\ dunning' = ~dunning
    /\ UNCHANGED <<rule, open, logs, mails, tick, pass, lost>>

CreateRule(r) ==
    /\ rule[r] = "none"
    /\ \E s \in {"active", "inactive"} : rule' = [rule EXCEPT ![r] = s]
    /\ UNCHANGED <<dunning, open, logs, mails, tick, pass, lost>>

UpdateRule(r) ==
    /\ rule[r] \in {"active", "inactive"}
    /\ \E s \in {"active", "inactive"} : rule' = [rule EXCEPT ![r] = s]
    /\ UNCHANGED <<dunning, open, logs, mails, tick, pass, lost>>

\* The foreign key takes the rule's claims along
DeleteRule(r) ==
    /\ rule[r] \in {"active", "inactive"}
    /\ rule' = [rule EXCEPT ![r] = "deleted"]
    /\ logs' = {p \in logs : p[2] # r}
    /\ UNCHANGED <<dunning, open, mails, tick, pass, lost>>

\* Payments, refunds, the overdue sweeps and cancellations, see Settlement
InvoiceMoves(i) ==
    /\ open' = IF i \in open THEN open \ {i} ELSE open \cup {i}
    /\ UNCHANGED <<dunning, rule, logs, mails, tick, pass, lost>>

--------------------------------------------------------------------------------
(* runForOrg, begun by "Run now" or by the job *)

Hold(w, p) == pass' = [pass EXCEPT ![w] = p]

\* A pass of the queue ends: its job is finished and keeps its id
Ends(w) ==
    /\ Hold(w, Idle)
    /\ tick' = IF pass[w].job THEN "kept" ELSE tick

\* Settings and active rules
Begin(w, job) ==
    LET active == {r \in Rules : rule[r] = "active"} IN
    /\ pass[w] = Idle
    /\ job => tick = "waiting"
    /\ IF dunning /\ active # {}
         THEN /\ Hold(w, [pc |-> "rules", job |-> job, rules |-> active])
              /\ tick' = IF job THEN "active" ELSE tick
         ELSE /\ UNCHANGED pass
              /\ tick' = IF job THEN "kept" ELSE tick
    /\ UNCHANGED <<dunning, rule, open, logs, mails, lost>>

\* The open invoices, of which some are due by some rule and have a recipient
ReadInvoices(w) ==
    /\ pass[w].pc = "rules"
    /\ \E due \in SUBSET (open \X pass[w].rules) :
         Hold(w, [pc |-> "loop", job |-> pass[w].job, todo |-> due])
    /\ UNCHANGED <<dunning, rule, open, logs, mails, tick, lost>>

\* Mutant: no unique key on (invoiceId, ruleId)
ClaimableOften(p) == rule[p[2]] # "deleted"

\* The unique key, and the foreign key on the rule
Claimable(p) == p \notin logs /\ rule[p[2]] # "deleted"

Claim(w, p) ==
    /\ pass[w].pc = "loop" /\ p \in pass[w].todo
    /\ Claimable(p)
    /\ logs' = logs \cup {p}
    /\ Hold(w, [pc |-> "claimed", job |-> pass[w].job, pair |-> p,
                todo |-> pass[w].todo \ {p}])
    /\ UNCHANGED <<dunning, rule, open, mails, tick, lost>>

\* P2002, a deleted rule, or a failing insert: on to the next
ClaimFails(w, p) ==
    /\ pass[w].pc = "loop" /\ p \in pass[w].todo
    /\ Hold(w, [pass[w] EXCEPT !.todo = @ \ {p}])
    /\ UNCHANGED <<dunning, rule, open, logs, mails, tick, lost>>

Proceed(w) == Hold(w, [pc |-> "loop", job |-> pass[w].job, todo |-> pass[w].todo])

QueueMail(w) ==
    /\ pass[w].pc = "claimed"
    /\ mails' = [mails EXCEPT ![pass[w].pair] = @ + 1]
    /\ Proceed(w)
    /\ UNCHANGED <<dunning, rule, open, logs, tick, lost>>

\* Mutant: the claim of an email that was not accepted is withdrawn
LogsAfterFailureWithdrawn(p) == logs \ {p}

\* "We intentionally do NOT delete the claimed log row"
LogsAfterFailure(p) == logs

\* queue() throws, and Redis may or may not have accepted the job before
QueueFails(w) ==
    LET p == pass[w].pair IN
    /\ pass[w].pc = "claimed" /\ Cardinality(lost) < MaxLost
    /\ \/ mails' = [mails EXCEPT ![p] = @ + 1] /\ UNCHANGED lost
       \/ lost' = lost \cup {p} /\ UNCHANGED mails
    /\ logs' = LogsAfterFailure(p)
    /\ Proceed(w)
    /\ UNCHANGED <<dunning, rule, open, tick>>

Finish(w) ==
    /\ pass[w].pc = "loop" /\ pass[w].todo = {}
    /\ Ends(w)
    /\ UNCHANGED <<dunning, rule, open, logs, mails, lost>>

\* A failing query: run() throws, the processor logs it and completes the job
Throws(w) ==
    /\ pass[w].pc = "rules"
    /\ Ends(w)
    /\ UNCHANGED <<dunning, rule, open, logs, mails, lost>>

\* The process dies; a job it held is stalled and run again
Crash(w) ==
    /\ pass[w] # Idle
    /\ pass[w].pc = "claimed" => Cardinality(lost) < MaxLost
    /\ lost' = IF pass[w].pc = "claimed" THEN lost \cup {pass[w].pair} ELSE lost
    /\ Hold(w, Idle)
    /\ tick' = IF pass[w].job THEN "waiting" ELSE tick
    /\ UNCHANGED <<dunning, rule, open, logs, mails>>

--------------------------------------------------------------------------------
(* The cron, and BullMQ *)

\* Ignored while BullMQ knows the id, be the job waiting, running or done
Cron ==
    /\ dunning /\ tick = "none"
    /\ tick' = "waiting"
    /\ UNCHANGED <<dunning, rule, open, logs, mails, pass, lost>>

\* Other organizations' runs push the finished job out
Evict ==
    /\ tick = "kept"
    /\ tick' = "none"
    /\ UNCHANGED <<dunning, rule, open, logs, mails, pass, lost>>

--------------------------------------------------------------------------------
Next ==
    \/ UpdateSettings \/ Cron \/ Evict
    \/ \E r \in Rules : CreateRule(r) \/ UpdateRule(r) \/ DeleteRule(r)
    \/ \E i \in Invoices : InvoiceMoves(i)
    \/ \E w \in Passes : \E job \in BOOLEAN : Begin(w, job)
    \/ \E w \in Passes : \E p \in Pairs : Claim(w, p) \/ ClaimFails(w, p)
    \/ \E w \in Passes : \/ ReadInvoices(w) \/ QueueMail(w) \/ QueueFails(w)
                         \/ Finish(w) \/ Throws(w) \/ Crash(w)

Spec == Init /\ [][Next]_dunningVars

--------------------------------------------------------------------------------
(* Properties *)

PassType ==
    {Idle} \cup [pc : {"rules"}, job : BOOLEAN, rules : SUBSET Rules]
           \cup [pc : {"loop"}, job : BOOLEAN, todo : SUBSET Pairs]
           \cup [pc : {"claimed"}, job : BOOLEAN, pair : Pairs, todo : SUBSET Pairs]

TypeOK ==
    /\ dunning \in BOOLEAN
    /\ rule \in [Rules -> {"none", "active", "inactive", "deleted"}]
    /\ open \subseteq Invoices /\ logs \subseteq Pairs /\ lost \subseteq Pairs
    /\ mails \in [Pairs -> Nat]
    /\ tick \in {"none", "waiting", "active", "kept"}
    /\ pass \in [Passes -> PassType]

\* "The hard guarantee that a given (invoice, rule) reminder fires AT MOST ONCE", over
\* overlapping passes, jobs run again, failing queues, rules edited or deleted under a
\* pass and invoices that close and open again.
ReminderOnce == \A p \in Pairs : mails[p] <= 1

\* A claim is worth its email: unless its rule was deleted, a claimed pair was mailed,
\* is about to be, or is one of those a failure cost ("at worst, one missed reminder").
ClaimIsMailed ==
    \A p \in Pairs :
        /\ p \in logs =>
             \/ mails[p] = 1 \/ p \in lost
             \/ \E w \in Passes : pass[w].pc = "claimed" /\ pass[w].pair = p
        /\ mails[p] > 0 => p \in logs \/ rule[p[2]] = "deleted"

--------------------------------------------------------------------------------
(* Passes and their claims implement OnceOnly *)

InHand == {pass[w].pair : w \in {v \in Passes : pass[v].pc = "claimed"}}

Once == INSTANCE OnceOnly WITH
          Items  <- Pairs,
          may    <- {p \in Pairs : p \notin logs /\ rule[p[2]] # "deleted"},
          inHand <- InHand,
          sent   <- mails

\* Every step of settings, rules, invoices, passes, jobs and failures is a claim, an
\* email, a lost claim or a deleted rule of OnceOnly, or changes nothing there: no pair
\* is ever claimed a second time, not even once its claim is gone with its rule.
FiresAtMostOnce == Once!Spec

================================================================================
