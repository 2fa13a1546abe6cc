---------------------------- MODULE WebhookDelivery ----------------------------
(***************************************************************************)
(* Outgoing public webhooks: public-api/webhook-dispatcher.service.ts,     *)
(* webhook-delivery.processor.ts, webhook-retry.scheduler.ts and           *)
(* webhooks.service.ts.                                                    *)
(*                                                                         *)
(* A business event makes one delivery row per subscribed webhook; a       *)
(* BullMQ queue carries jobs that name a row; a pool of workers POSTs and  *)
(* writes the outcome back; a cron sweeps rows that are due.  Every await  *)
(* of the code is a step of its own here, so all of these interleave.      *)
(*                                                                         *)
(* Time is abstract: a row's nextAttemptAt is "none" (NULL), "now" (in the *)
(* past) or "later".  The queue's clock is Redis's and the row's is the    *)
(* database client's, so a delayed job may fire on either side of its row. *)
(***************************************************************************)
EXTENDS Naturals, FiniteSets

CONSTANTS Hooks,         \* public_webhooks rows of the organization
          Events,        \* business events, each emitted once
          Workers,       \* slots of the worker pool (concurrency: 8)
          MaxAttempts,   \* MAX_ATTEMPTS
          MaxRedeliver,  \* bound: redeliver() calls per row
          Faults,        \* kinds of fault a run allows
          MaxFaults      \* bound: faults in a behaviour

FaultKinds == {"crash", "flush", "throw", "add", "evict"}

ASSUME AttemptsAssumption == MaxAttempts \in Nat \ {0}
ASSUME BoundsAssumption == MaxRedeliver \in Nat /\ MaxFaults \in Nat
ASSUME FaultsAssumption == Faults \subseteq FaultKinds

Rows == Events \X Hooks

\* The custom job ids: deliver:<row>, deliver:<row>:<n>, redeliver:<row>:<ts>
FirstId(r)        == <<"deliver", r, 0>>
AttemptId(r, n)   == <<"deliver", r, n>>
RedeliverId(r, k) == <<"redeliver", r, k>>

JobIds == ({"deliver"} \X Rows \X (0 .. MaxAttempts))
            \cup ({"redeliver"} \X Rows \X (1 .. MaxRedeliver))

NoJob == <<"none">>

Outcomes == {"none", "ok", "retry", "permanent",
             "deleted", "inactive", "undecryptable"}

VARIABLES
    hook,      \* Hooks -> "new" (not created yet) | "active" | "paused" | "deleted"
    unreadable,\* webhooks whose secret ENCRYPTION_KEY does not decrypt
    rows,      \* public_webhook_deliveries
    jobs,      \* JobIds -> where BullMQ holds the job; "kept" is removeOnComplete
    stalled,   \* jobs BullMQ has already taken back once from a dead worker
    worker,    \* what each slot has read and where it stands
    emit,      \* Events -> progress of emit()
    sweep,     \* Rows -> attempt number the running sweep will enqueue, 0: none
    redeliver, \* Rows -> calls of redeliver() so far, one of them perhaps unfinished
    tries,     \* history: requests sent, or given up at decryption, per row
    faults     \* faults so far

vars == <<hook, unreadable, rows, jobs, stalled, worker, emit, sweep,
          redeliver, tries, faults>>

NoRow == [there |-> FALSE, succeeded |-> FALSE, attemptCount |-> 0,
          next |-> "none", last |-> "none"]
NewRow == [NoRow EXCEPT !.there = TRUE, !.next = "now"]

Idle == [pc |-> "idle", job |-> NoJob, attempt |-> 0, outcome |-> "none"]

Init ==
    /\ hook = [h \in Hooks |-> "new"]
    /\ unreadable \in SUBSET Hooks
    /\ rows = [r \in Rows |-> NoRow]
    /\ jobs = [j \in JobIds |-> "absent"]
    /\ stalled = {}
    /\ worker = [w \in Workers |-> Idle]
    /\ emit = [e \in Events |-> [pc |-> "idle", todo |-> {}, row |-> {}]]
    /\ sweep = [r \in Rows |-> 0]
    /\ redeliver = [r \in Rows |-> [calls |-> 0, adding |-> FALSE]]
    /\ tries = [r \in Rows |-> 0]
    /\ faults = 0

Fault(kind) == kind \in Faults /\ faults < MaxFaults /\ faults' = faults + 1

\* Mutant: the ids of finished jobs are not remembered
AddForgetful(j, where) ==
    jobs' = IF jobs[j] \in {"absent", "kept"} THEN [jobs EXCEPT ![j] = where] ELSE jobs

\* queue.add with a custom id: ignored while BullMQ still holds that id
Add(j, where) ==
    jobs' = IF jobs[j] = "absent" THEN [jobs EXCEPT ![j] = where] ELSE jobs

--------------------------------------------------------------------------------
(* emit(orgId, event, payload) *)

\* The active webhooks are read first, and then worked through one by one
EmitRead(e) ==
    LET subs == {h \in Hooks : hook[h] = "active"} IN
    /\ emit[e].pc = "idle"
    /\ emit' = [emit EXCEPT ![e] =
                  [pc |-> IF subs = {} THEN "done" ELSE "create",
                   todo |-> subs, row |-> {}]]
    /\ UNCHANGED <<hook, unreadable, rows, jobs, stalled, worker, sweep, redeliver,
                   tries, faults>>

\* INSERT; a webhook deleted meanwhile fails the foreign key and ends the loop
EmitCreate(e, h) ==
    /\ emit[e].pc = "create" /\ h \in emit[e].todo
    /\ IF hook[h] = "deleted"
       THEN /\ emit' = [emit EXCEPT ![e].pc = "done"]
            /\ UNCHANGED rows
       ELSE /\ rows' = [rows EXCEPT ![<<e, h>>] = NewRow]
            /\ emit' = [emit EXCEPT ![e] =
                          [pc |-> "add", todo |-> @.todo \ {h}, row |-> {<<e, h>>}]]
    /\ UNCHANGED <<hook, unreadable, jobs, stalled, worker, sweep, redeliver, tries,
                   faults>>

AfterAdd(todo) == IF todo = {} THEN "done" ELSE "create"

EmitAdd(e, r) ==
    /\ emit[e].pc = "add" /\ r \in emit[e].row
    /\ Add(FirstId(r), "waiting")
    /\ emit' = [emit EXCEPT ![e] = [pc |-> AfterAdd(@.todo), todo |-> @.todo, row |-> {}]]
    /\ UNCHANGED <<hook, unreadable, rows, stalled, worker, sweep, redeliver, tries,
                   faults>>

\* queue.add rejects: the catch swallows it, and with it the rest of the loop
EmitAddFails(e) ==
    /\ emit[e].pc = "add"
    /\ Fault("add")
    /\ emit' = [emit EXCEPT ![e] = [pc |-> "done", todo |-> @.todo, row |-> {}]]
    /\ UNCHANGED <<hook, unreadable, rows, jobs, stalled, worker, sweep, redeliver,
                   tries>>

--------------------------------------------------------------------------------
(* process(job) *)

RowOf(w) == worker[w].job[2]

\* The job leaves the active list and its id stays with the finished ones, unless
\* a flush took it (and perhaps another job of that id is waiting by now)
Finish(w) ==
    /\ worker' = [worker EXCEPT ![w] = Idle]
    /\ jobs' = [jobs EXCEPT ![worker[w].job] = IF @ = "active" THEN "kept" ELSE @]

Take(w, j) ==
    /\ worker[w].pc = "idle" /\ jobs[j] = "waiting"
    /\ jobs' = [jobs EXCEPT ![j] = "active"]
    /\ worker' = [worker EXCEPT ![w] = [Idle EXCEPT !.pc = "row", !.job = j]]
    /\ UNCHANGED <<hook, unreadable, rows, stalled, emit, sweep, redeliver, tries,
                   faults>>

\* Mutant: succeeded is not looked at
DeliverableAlways(r) == rows[r].there

Deliverable(r) == rows[r].there /\ ~rows[r].succeeded

\* The row's succeeded and attemptCount are read here and never looked at again
ReadRow(w) ==
    LET r == RowOf(w) IN
    /\ worker[w].pc = "row"
    /\ IF Deliverable(r)
       THEN /\ worker' = [worker EXCEPT ![w].pc = "hook",
                                        ![w].attempt = rows[r].attemptCount + 1]
            /\ UNCHANGED jobs
       ELSE Finish(w)
    /\ UNCHANGED <<hook, unreadable, rows, stalled, emit, sweep, redeliver, tries,
                   faults>>

\* Deleted, inactive, or active; of an active one the secret may not decrypt
ReadHook(w) ==
    LET h == RowOf(w)[2] IN
    /\ worker[w].pc = "hook"
    /\ \/ /\ hook[h] = "deleted"
          /\ worker' = [worker EXCEPT ![w].pc = "write", ![w].outcome = "deleted"]
          /\ UNCHANGED tries
       \/ /\ hook[h] = "paused"
          /\ worker' = [worker EXCEPT ![w].pc = "write", ![w].outcome = "inactive"]
          /\ UNCHANGED tries
       \/ /\ hook[h] = "active" /\ h \in unreadable
          /\ worker' = [worker EXCEPT ![w].pc = "write", ![w].outcome = "undecryptable"]
          /\ tries' = [tries EXCEPT ![RowOf(w)] = @ + 1]
       \/ /\ hook[h] = "active" /\ h \notin unreadable
          /\ worker' = [worker EXCEPT ![w].pc = "post"]
          /\ UNCHANGED tries
    /\ UNCHANGED <<hook, unreadable, rows, jobs, stalled, emit, sweep, redeliver,
                   faults>>

\* 2xx; 408, 429, 5xx or a network error; any other status
Post(w) ==
    /\ worker[w].pc = "post"
    /\ \E o \in {"ok", "retry", "permanent"} :
         worker' = [worker EXCEPT ![w].pc = "write", ![w].outcome = o]
    /\ tries' = [tries EXCEPT ![RowOf(w)] = @ + 1]
    /\ UNCHANGED <<hook, unreadable, rows, jobs, stalled, emit, sweep, redeliver,
                   faults>>

\* Mutant: gives up one attempt early
RetriesOneLess(attempt, outcome) == outcome = "retry" /\ attempt + 1 < MaxAttempts

Retries(attempt, outcome) == outcome = "retry" /\ attempt < MaxAttempts

\* Mutant: only a retry touches nextAttemptAt
UpdatedStillScheduled(row, attempt, outcome) ==
    [row EXCEPT
       !.succeeded    = IF outcome = "inactive" THEN @ ELSE outcome = "ok",
       !.attemptCount = IF outcome \in {"inactive", "deleted"} THEN @ ELSE attempt,
       !.next         = IF outcome = "retry" THEN "later" ELSE @,
       !.last         = outcome]

\* Mutant: a paused webhook burns an attempt
UpdatedBurning(row, attempt, outcome) ==
    [row EXCEPT
       !.succeeded    = IF outcome = "inactive" THEN @ ELSE outcome = "ok",
       !.attemptCount = attempt,
       !.next         = IF Retries(attempt, outcome) THEN "later" ELSE "none",
       !.last         = outcome]

\* The row after the update each outcome makes
Updated(row, attempt, outcome) ==
    [row EXCEPT
       !.succeeded    = IF outcome = "inactive" THEN @ ELSE outcome = "ok",
       !.attemptCount = IF outcome \in {"inactive", "deleted"} THEN @ ELSE attempt,
       !.next         = IF Retries(attempt, outcome) THEN "later" ELSE "none",
       !.last         = outcome]

\* A row deleted with its webhook makes the update, and so the job, fail
Write(w) ==
    LET r == RowOf(w)
        a == worker[w].attempt
        o == worker[w].outcome IN
    /\ worker[w].pc = "write"
    /\ IF rows[r].there
       THEN /\ rows' = [rows EXCEPT ![r] = Updated(@, a, o)]
            /\ worker' = [worker EXCEPT ![w].pc = IF Retries(a, o) THEN "add" ELSE "end"]
            /\ UNCHANGED jobs
       ELSE Finish(w) /\ UNCHANGED rows
    /\ UNCHANGED <<hook, unreadable, stalled, emit, sweep, redeliver, tries, faults>>

\* The delayed job of the next attempt, after the row is committed
AddRetry(w) ==
    LET j == AttemptId(RowOf(w), worker[w].attempt + 1) IN
    /\ worker[w].pc = "add"
    /\ Add(j, "delayed")
    /\ worker' = [worker EXCEPT ![w].pc = "end"]
    /\ UNCHANGED <<hook, unreadable, rows, stalled, emit, sweep, redeliver, tries,
                   faults>>

Return(w) ==
    /\ worker[w].pc = "end"
    /\ Finish(w)
    /\ UNCHANGED <<hook, unreadable, rows, stalled, emit, sweep, redeliver, tries,
                   faults>>

--------------------------------------------------------------------------------
(* sweep(), every minute *)

\* Mutant: the sweep forgets MAX_ATTEMPTS
DueUnbounded(r) == rows[r].there /\ ~rows[r].succeeded /\ rows[r].next = "now"

\* Mutant: the sweep gives up one attempt early
DueOneLess(r) == DueUnbounded(r) /\ rows[r].attemptCount + 1 < MaxAttempts

Due(r) == /\ rows[r].there /\ ~rows[r].succeeded
          /\ rows[r].next = "now" /\ rows[r].attemptCount < MaxAttempts

SweepRead ==
    /\ \A r \in Rows : sweep[r] = 0
    /\ \E r \in Rows : Due(r)
    /\ sweep' = [r \in Rows |-> IF Due(r) THEN rows[r].attemptCount + 1 ELSE 0]
    /\ UNCHANGED <<hook, unreadable, rows, jobs, stalled, worker, emit, redeliver,
                   tries, faults>>

SweepAdd(r) ==
    /\ sweep[r] > 0
    /\ Add(AttemptId(r, sweep[r]), "waiting")
    /\ sweep' = [sweep EXCEPT ![r] = 0]
    /\ UNCHANGED <<hook, unreadable, rows, stalled, worker, emit, redeliver, tries,
                   faults>>

SweepAddFails ==
    /\ \E r \in Rows : sweep[r] > 0
    /\ Fault("add")
    /\ sweep' = [r \in Rows |-> 0]
    /\ UNCHANGED <<hook, unreadable, rows, jobs, stalled, worker, emit, redeliver,
                   tries>>

--------------------------------------------------------------------------------
(* The admin's API: create(), update({active}), rotateSecret(), remove(), redeliver() *)

Create(h) ==
    /\ hook[h] = "new"
    /\ \E active \in {"active", "paused"} : hook' = [hook EXCEPT ![h] = active]
    /\ UNCHANGED <<unreadable, rows, jobs, stalled, worker, emit, sweep, redeliver,
                   tries,
                   faults>>

SetActive(h) ==
    /\ hook[h] \in {"active", "paused"}
    /\ hook' = [hook EXCEPT ![h] = IF @ = "active" THEN "paused" ELSE "active"]
    /\ UNCHANGED <<unreadable, rows, jobs, stalled, worker, emit, sweep, redeliver,
                   tries,
                   faults>>

RotateSecret(h) ==
    /\ hook[h] \in {"active", "paused"}
    /\ unreadable' = unreadable \ {h}
    /\ UNCHANGED <<hook, rows, jobs, stalled, worker, emit, sweep, redeliver, tries,
                   faults>>

\* onDelete: Cascade takes the delivery rows with it
Remove(h) ==
    /\ hook[h] \in {"active", "paused"}
    /\ hook' = [hook EXCEPT ![h] = "deleted"]
    /\ rows' = [r \in Rows |-> IF r[2] = h THEN NoRow ELSE rows[r]]
    /\ UNCHANGED <<unreadable, jobs, stalled, worker, emit, sweep, redeliver, tries,
                   faults>>

RedeliverWrite(r) ==
    /\ rows[r].there
    /\ redeliver[r].calls < MaxRedeliver /\ ~redeliver[r].adding
    /\ rows' = [rows EXCEPT ![r].succeeded = FALSE, ![r].next = "now"]
    /\ redeliver' = [redeliver EXCEPT ![r] = [calls |-> @.calls + 1, adding |-> TRUE]]
    /\ UNCHANGED <<hook, unreadable, jobs, stalled, worker, emit, sweep, tries, faults>>

RedeliverAdd(r) ==
    /\ redeliver[r].adding
    /\ Add(RedeliverId(r, redeliver[r].calls), "waiting")
    /\ redeliver' = [redeliver EXCEPT ![r].adding = FALSE]
    /\ UNCHANGED <<hook, unreadable, rows, stalled, worker, emit, sweep, tries, faults>>

RedeliverAddFails(r) ==
    /\ redeliver[r].adding
    /\ Fault("add")
    /\ redeliver' = [redeliver EXCEPT ![r].adding = FALSE]
    /\ UNCHANGED <<hook, unreadable, rows, jobs, stalled, worker, emit, sweep, tries>>

--------------------------------------------------------------------------------
(* Time, and what goes wrong outside the code *)

BecomesDue(r) ==
    /\ rows[r].next = "later"
    /\ rows' = [rows EXCEPT ![r].next = "now"]
    /\ UNCHANGED <<hook, unreadable, jobs, stalled, worker, emit, sweep, redeliver,
                   tries, faults>>

DelayEnds(j) ==
    /\ jobs[j] = "delayed"
    /\ jobs' = [jobs EXCEPT ![j] = "waiting"]
    /\ UNCHANGED <<hook, unreadable, rows, stalled, worker, emit, sweep, redeliver,
                   tries, faults>>

\* A worker dies: BullMQ gives a stalled job back once, and the next time fails it
Crash(w) ==
    LET j == worker[w].job IN
    /\ worker[w].pc /= "idle"
    /\ Fault("crash")
    /\ worker' = [worker EXCEPT ![w] = Idle]
    /\ jobs' = [jobs EXCEPT ![j] =
                  CASE @ /= "active"  -> @
                    [] j \in stalled  -> "kept"
                    [] OTHER          -> "waiting"]
    /\ stalled' = stalled \cup {j}
    /\ UNCHANGED <<hook, unreadable, rows, emit, sweep, redeliver, tries>>

\* A query or queue.add of process() rejects: the job fails, its id is kept too
Throws(w) ==
    /\ worker[w].pc \in {"row", "hook", "write", "add"}
    /\ Fault("throw")
    /\ Finish(w)
    /\ UNCHANGED <<hook, unreadable, rows, stalled, emit, sweep, redeliver, tries>>

\* Redis loses everything it holds
Flush ==
    /\ Fault("flush")
    /\ jobs' = [j \in JobIds |-> "absent"]
    /\ stalled' = {}
    /\ UNCHANGED <<hook, unreadable, rows, worker, emit, sweep, redeliver, tries>>

\* A thousand later jobs have finished: removeOnComplete forgets this one
Evict(j) ==
    /\ jobs[j] = "kept"
    /\ Fault("evict")
    /\ jobs' = [jobs EXCEPT ![j] = "absent"]
    /\ UNCHANGED <<hook, unreadable, rows, stalled, worker, emit, sweep, redeliver,
                   tries>>

--------------------------------------------------------------------------------

Dispatcher == \E e \in Events :
    \/ EmitRead(e) \/ EmitAddFails(e)
    \/ \E h \in Hooks : EmitCreate(e, h)
    \/ \E r \in Rows : EmitAdd(e, r)

Processor == \E w \in Workers :
    \/ \E j \in JobIds : Take(w, j)
    \/ ReadRow(w) \/ ReadHook(w) \/ Post(w) \/ Write(w) \/ AddRetry(w) \/ Return(w)

RetryScheduler == SweepRead \/ SweepAddFails \/ \E r \in Rows : SweepAdd(r)

Admin ==
    \/ \E h \in Hooks : Create(h) \/ SetActive(h) \/ RotateSecret(h) \/ Remove(h)
    \/ \E r \in Rows : RedeliverWrite(r) \/ RedeliverAdd(r) \/ RedeliverAddFails(r)

Clock == \/ \E r \in Rows : BecomesDue(r)
         \/ \E j \in JobIds : DelayEnds(j)

Environment ==
    \/ Flush
    \/ \E w \in Workers : Crash(w) \/ Throws(w)
    \/ \E j \in JobIds : Evict(j)

Next == Dispatcher \/ Processor \/ RetryScheduler \/ Admin \/ Clock \/ Environment

Spec == Init /\ [][Next]_vars

--------------------------------------------------------------------------------
(* Properties *)

RowType == [there : BOOLEAN, succeeded : BOOLEAN, attemptCount : Nat,
            next : {"none", "now", "later"}, last : Outcomes]

WorkerType == [pc : {"idle", "row", "hook", "post", "write", "add", "end"},
               job : JobIds \cup {NoJob}, attempt : Nat, outcome : Outcomes]

EmitType == [pc : {"idle", "create", "add", "done"},
             todo : SUBSET Hooks, row : SUBSET Rows]

RedeliverType == [calls : 0 .. MaxRedeliver, adding : BOOLEAN]

\* The shape of the state; a busy worker holds a real job id.
TypeOK ==
    /\ hook \in [Hooks -> {"new", "active", "paused", "deleted"}]
    /\ unreadable \subseteq Hooks
    /\ rows \in [Rows -> RowType]
    /\ jobs \in [JobIds -> {"absent", "delayed", "waiting", "active", "kept"}]
    /\ stalled \subseteq JobIds
    /\ worker \in [Workers -> WorkerType]
    /\ \A w \in Workers : worker[w].pc /= "idle" => worker[w].job \in JobIds
    /\ emit \in [Events -> EmitType]
    /\ sweep \in [Rows -> 0 .. MaxAttempts]
    /\ redeliver \in [Rows -> RedeliverType]
    /\ tries \in [Rows -> Nat]
    /\ faults \in 0 .. MaxFaults

\* A row whose schedule is NULL is one that delivery has finished with, and the
\* row says why: it succeeded, the consumer refused it, the webhook was paused or
\* its secret unreadable, or the attempts are used up.  No race of workers, sweep,
\* redeliver, crash and lost update may leave a failed delivery that is still to be
\* retried without a nextAttemptAt (the row is "the source of truth for retry").
OwedRowIsScheduled ==
    \A r \in Rows :
        /\ rows[r].there
        /\ rows[r].next = "none"
        /\ ~rows[r].succeeded
        => \/ rows[r].last \in {"permanent", "inactive", "undecryptable"}
           \/ rows[r].attemptCount >= MaxAttempts

\* A delivered row is never due: nothing that is marked succeeded is on the schedule.
DeliveredIsUnscheduled ==
    \A r \in Rows : rows[r].succeeded => rows[r].next = "none"

\* attemptCount never counts an attempt nobody made, however the updates of
\* overlapping workers overwrite one another.
AttemptsWereMade ==
    \A r \in Rows : rows[r].attemptCount <= tries[r]

\* What the three above rest on: a deleted webhook has no rows, and what a worker has
\* read is good for what it is about to write.
DeletedHasNoRows ==
    \A r \in Rows : hook[r[2]] = "deleted" => ~rows[r].there

ReadsHold(w) ==
    /\ worker[w].pc \in {"hook", "post"}
         => worker[w].attempt <= tries[RowOf(w)] + 1
    /\ worker[w].pc = "write"
         => /\ worker[w].outcome /= "none"
            /\ worker[w].outcome = "deleted" => hook[RowOf(w)[2]] = "deleted"
            /\ worker[w].outcome \notin {"deleted", "inactive"}
                 => worker[w].attempt <= tries[RowOf(w)]

WorkerReads == \A w \in Workers : ReadsHold(w)

DeliveryInv == /\ TypeOK
               /\ DeletedHasNoRows
               /\ WorkerReads
               /\ OwedRowIsScheduled
               /\ DeliveredIsUnscheduled
               /\ AttemptsWereMade

--------------------------------------------------------------------------------
(* Liveness *)

\* A slot keeps working on its job, BullMQ hands out every waiting job, clocks
\* advance, the cron fires and a call of redeliver() returns.  Nothing is assumed of
\* faults or of the admin.
Fairness ==
    /\ \A w \in Workers :
         WF_vars(\/ ReadRow(w) \/ ReadHook(w) \/ Post(w) \/ Write(w)
                 \/ AddRetry(w) \/ Return(w))
    /\ \A j \in JobIds : WF_vars(\E w \in Workers : Take(w, j)) /\ WF_vars(DelayEnds(j))
    /\ \A r \in Rows :
         WF_vars(SweepAdd(r)) /\ WF_vars(BecomesDue(r)) /\ WF_vars(RedeliverAdd(r))
    /\ WF_vars(SweepRead)

FairSpec == Spec /\ Fairness

\* Every delivery on the schedule leaves it again: delivered, refused, frozen,
\* deleted or out of attempts.
EveryDeliverySettles ==
    \A r \in Rows : rows[r].next /= "none" ~> rows[r].next = "none"

\* A delivery that succeeded is taken back to undelivered by redeliver() alone
\* (or deleted with its webhook), never by another job of the same row.
SuccessIsFinal ==
    [][\A r \in Rows :
         rows[r].succeeded /\ rows'[r].there /\ ~rows'[r].succeeded
           => redeliver'[r].calls > redeliver[r].calls]_vars

\* While Redis keeps the job ids, no chain of retries, sweeps and lost updates sends a
\* delivery more than MAX_ATTEMPTS + 1 times (the dispatcher's bare id runs beside the
\* sweep's numbered ones), once more per redeliver(), and once more per job that a dead
\* worker left half done.
RequestsBounded ==
    \A r \in Rows : tries[r] <= MaxAttempts + 1 + redeliver[r].calls + faults

================================================================================
