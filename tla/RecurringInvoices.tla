--------------------------- MODULE RecurringInvoices ---------------------------
(***************************************************************************)
(* A recurring invoice and the drafts made of it:                          *)
(* invoices/recurring-invoices.processor.ts, its scheduler, and            *)
(* runRecurringNow and stopRecurring of invoices/invoices.service.ts.      *)
(*                                                                         *)
(* The source is read before the transaction that drafts the next invoice  *)
(* and counts the cycle, so the count written is the one that was read     *)
(* plus one.                                                               *)
(***************************************************************************)
EXTENDS Integers

CONSTANTS Workers,     \* runs in progress: jobs of several servers, "run now" requests
          MaxCap,      \* bound on totalCycles
          MaxDrafts,   \* bound on the drafts
          MaxChecks    \* bound on the jobs waiting

VARIABLES
    source,    \* the recurring invoice
    drafts,    \* history: invoices with recurringFromInvoiceId = source
    checks,    \* jobs "check" that wait; each has an id of its own
    run,       \* what each run has read
    raced,     \* history: a cycle was counted on a count that had moved
    recapped   \* history: totalCycles was edited after the first draft

recurringVars == <<source, drafts, checks, run, raced, recapped>>

NoCap  == MaxCap + 1       \* totalCycles is null
Caps   == 0 .. NoCap
Absent == [there |-> FALSE]
Resting == [pc |-> "idle"]

Init ==
    /\ source = Absent /\ drafts = 0 /\ checks = 0
    /\ run = [w \in Workers |-> Resting]
    /\ raced = FALSE /\ recapped = FALSE

--------------------------------------------------------------------------------
(* The invoice *)

\* Nothing sets nextRecurringDate here
Create ==
    /\ source = Absent
    /\ \E r \in BOOLEAN, c \in Caps :
         source' = [there |-> TRUE, status |-> "draft", recurring |-> r, cap |-> c,
                    due |-> "never", completed |-> 0]
    /\ UNCHANGED <<drafts, checks, run, raced, recapped>>

\* update() of a draft.  Check and write are two transactions; what a sending in between
\* does to the edit is Settlement's, here nothing depends on it
Update ==
    /\ source.there /\ source.status = "draft"
    /\ \E r \in BOOLEAN, c \in Caps :
         /\ source' = [source EXCEPT !.recurring = r, !.cap = c]
         /\ recapped' = (recapped \/ c # source.cap)
    /\ UNCHANGED <<drafts, checks, run, raced>>

\* Sending, payments and cancellation, see Settlement
StatusMoves ==
    /\ source.there
    /\ \E s \in {"open", "cancelled"} : source' = [source EXCEPT !.status = s]
    /\ UNCHANGED <<drafts, checks, run, raced, recapped>>

StopRecurring ==
    /\ source.there
    /\ source' = [source EXCEPT !.recurring = FALSE]
    /\ UNCHANGED <<drafts, checks, run, raced, recapped>>

BecomesDue ==
    /\ source.there /\ source.due = "later"
    /\ source' = [source EXCEPT !.due = "now"]
    /\ UNCHANGED <<drafts, checks, run, raced, recapped>>

--------------------------------------------------------------------------------
(* The next occurrence *)

Held(by) == [pc |-> "held", by |-> by, cap |-> source.cap, completed |-> source.completed]

\* runRecurringNow: due or not, cancelled or not
RunNowRead(w) ==
    /\ run[w] = Resting /\ source.there /\ source.recurring
    /\ run' = [run EXCEPT ![w] = Held("user")]
    /\ UNCHANGED <<source, drafts, checks, raced, recapped>>

\* The cron
ScheduleCheck ==
    /\ checks < MaxChecks
    /\ checks' = checks + 1
    /\ UNCHANGED <<source, drafts, run, raced, recapped>>

Due == source.there /\ source.recurring /\ source.due = "now" /\ source.status # "cancelled"

\* process() takes a job and reads the due invoices at once; a failing query leaves the
\* job to its retries
Process(w) ==
    /\ run[w] = Resting /\ checks > 0
    /\ checks' = checks - 1
    /\ run' = IF Due THEN [run EXCEPT ![w] = Held("job")] ELSE run
    /\ UNCHANGED <<source, drafts, raced, recapped>>

Release(w) == run' = [run EXCEPT ![w] = Resting]

Capped(w) == run[w].cap # NoCap /\ run[w].completed >= run[w].cap

\* The limit is reached: no further recurrence
Disable(w) ==
    /\ run[w].pc = "held" /\ Capped(w)
    /\ source' = [source EXCEPT !.recurring = FALSE]
    /\ Release(w)
    /\ UNCHANGED <<drafts, checks, raced, recapped>>

\* Mutant: the count is left alone
CountedNot(w) == source.completed

Counted(w) == run[w].completed + 1

\* The draft, the next date and the count in one transaction
Commit(w) ==
    /\ ~Capped(w) /\ drafts < MaxDrafts
    /\ drafts' = drafts + 1
    /\ source' = [source EXCEPT !.due = "later", !.completed = Counted(w)]
    /\ raced' = (raced \/ run[w].completed # source.completed)

Generate(w) ==
    /\ run[w].pc = "held" /\ Commit(w)
    /\ Release(w)
    /\ UNCHANGED <<checks, recapped>>

\* The transaction fails: nothing is written, the job is complete
GenerateFails(w) ==
    /\ run[w].pc = "held"
    /\ Release(w)
    /\ UNCHANGED <<source, drafts, checks, raced, recapped>>

\* The process dies, before the transaction or after it; a job is stalled and run again
Crash(w) ==
    /\ run[w].pc = "held"
    /\ Commit(w) \/ UNCHANGED <<source, drafts, raced>>
    /\ checks' = IF run[w].by = "job" THEN checks + 1 ELSE checks
    /\ checks' <= MaxChecks
    /\ Release(w)
    /\ UNCHANGED recapped

--------------------------------------------------------------------------------
Next ==
    \/ Create \/ Update \/ StatusMoves \/ StopRecurring \/ BecomesDue \/ ScheduleCheck
    \/ \E w \in Workers : \/ RunNowRead(w) \/ Process(w) \/ Disable(w)
                          \/ Generate(w) \/ GenerateFails(w) \/ Crash(w)

Spec == Init /\ [][Next]_recurringVars

--------------------------------------------------------------------------------
(* Properties *)

SourceType ==
    {Absent} \cup
    [there : {TRUE}, status : {"draft", "open", "cancelled"}, recurring : BOOLEAN,
     cap : Caps, due : {"never", "later", "now"}, completed : 0 .. MaxDrafts]

TypeOK ==
    /\ source \in SourceType
    /\ drafts \in 0 .. MaxDrafts /\ checks \in 0 .. MaxChecks
    /\ run \in [Workers -> {Resting} \cup
                           [pc : {"held"}, by : {"user", "job"}, cap : Caps,
                            completed : 0 .. MaxDrafts]]
    /\ raced \in BOOLEAN /\ recapped \in BOOLEAN

\* totalCyclesCompleted is the number of drafts made of the source, through failures and
\* jobs run again after a crash; runs that read the same count lose cycles, never add any.
\* So "totalCycles" bounds the drafts, but for such runs and a limit edited later.
CyclesCounted ==
    source.there =>
        /\ source.completed <= drafts
        /\ ~raced => source.completed = drafts
        /\ ~raced /\ ~recapped /\ source.cap # NoCap => drafts <= source.cap

================================================================================
