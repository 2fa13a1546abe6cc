# A verification project for saas-crm

saas-crm is a multi-tenant CRM: a NestJS API (`src/apps/api`) over PostgreSQL
(Prisma), Redis with BullMQ queues, and a Next.js front end. Nearly every rule
that can be broken by timing lives in the API's service classes, where a method
reads some rows, awaits something, decides, and writes.

This directory holds TLA+ models of those services, TLC configurations that
check them on small instances, and TLAPS proofs of the results that matter most.

| files | what they are |
|---|---|
| `WebhookDelivery`, `Settlement`, `Approvals` | the three large specifications, each with its `MC...` instance and its `...Proofs` |
| `Dunning`, `Campaigns`, `DripSequence` | what the queues send: reminders, mailings, drip sequences |
| `SubscriptionBilling`, `RecurringInvoices`, `Drafting` | how invoices come to be: billed, repeated, made of expenses, merged |
| `Quotes`, `Proposals` | from offer to signature and invoice |
| `Booking`, `Stock`, `Inbox` | appointments, balances, inbound mail |
| `Calls`, `WorkOrders`, `Hierarchy` | telephony and its call log, field service, the tree of clients and its merges |
| `OnceOnly` | what dunning's claim rows promise; `Dunning` implements it |
| `MCServices`, `Services.cfg` | the fourteen modules between `Dunning` and `Hierarchy` as one instance for TLC |
| `OutreachProofs`, `BillingProofs`, `OffersProofs`, `FieldProofs` | proofs about the fourteen services as `MCServices` composes them, the refinement of `OnceOnly` among them |
| `SumLemmas` | induction over a finite set and what a sum over one is, for the proofs that count or add |
| `PROJECT.json` | components, runs, mutants, code map, findings, hazards, theorems |

    tlc -workers 2 -config Services.cfg MCServices.tla
    tlapm SettlementProofs.tla

Definitions named `...Stale`, `...Anyone`, `AddForgetful` and so on, each under a
comment that starts with "Mutant:", are deliberately wrong versions of the
definition that follows them. No specification uses them; substituting one shows
that a property would notice that bug.

# 1. Inventory

## 1.1 How the parts run and interact

* **HTTP handlers.** Several Node processes may serve requests; every `await`
  lets another request in. There is no lock between requests except what
  PostgreSQL gives.
* **PostgreSQL, READ COMMITTED.** `PrismaService.withOrganization` opens one
  interactive transaction and sets the tenant. Many services use one such
  transaction to read and a second one to write; nothing ties the two together.
  Row locks, foreign keys and unique keys are the only mutual exclusion, and
  almost no update names the status it expects.
* **Queues.** BullMQ jobs over Redis: webhooks, emails, sequences, dunning,
  campaigns, recurring invoices, inbox polling. Some producers give jobs an id,
  which BullMQ does not take again while it remembers it (also among finished jobs,
  by `removeOnComplete` and `removeOnFail`). Redis and PostgreSQL share no
  transaction.
* **Crons.** `@Cron` methods in every API process: webhook sweep, due
  subscriptions, payment reminders, dunning, mail polling.
* **Events.** An in-process `EventEmitter`: `invoice.sent`, `payment.created`
  and the like reach stock, search, automations, notifications, webhooks. They
  are fire-and-forget, emitted sometimes inside a transaction, mostly after it.

## 1.2 Components

**Public webhook delivery** (`modules/public-api`) - *modelled.*
State: webhooks (active, secret), delivery rows (`succeeded`, `attemptCount`,
`nextAttemptAt`, last error), BullMQ jobs. Operations: `emit`, the job
processor, the sweep each minute, create/update/rotate/remove/redeliver.
Hard: two clocks, two stores, several workers on one row, crashes, a lost Redis.
Correct when: a delivery still owed has a schedule;
a success is never undone; attempts are counted; every delivery ends.

**Invoice settlement** (`modules/payments`, `modules/credit-notes`, the status
of an invoice in `modules/invoices`) - *modelled.*
State: invoices (status, total), payments (refunds are negative rows;
`refundedAmount` on the original), credit notes (`appliedTotal`, status).
Operations: payments by hand, by gateway and in batches, refund, delete; status
changes by hand, in bulk, by `send`, `markPaid`, `getOverdue` and the reminder
cron; notes created, voided, applied whole or in part.
Hard: read, then write in another transaction; sums over rows another
transaction is inserting; a list read before a slow loop over it.
Correct when: nothing is refunded, drawn or booked twice; statuses agree with
the ledger; settled things stay settled.

**Invoices: life of a row** - *partly.* Everything that moves the status or the
total is in Settlement; merging, duplicates and the lines of expenses are in Drafting, the
recurring fields in RecurringInvoices. Numbers are not modelled.

**Approvals** (`modules/approvals`) - *modelled.*
State: processes with ordered steps, requests (status, current step), decisions
unique per request and step. Operations: create/edit/remove a process; create,
decide, cancel a request. Hard: two approvers at once, a cancellation against a
decision, a chain replaced under the requests that walk it.
Correct when: an approval has every approver behind it, in order; decisions and
request tell the same story; a closed request stays closed.

**Dunning** (`modules/dunning`) - *modelled.*
State: settings, rules, claim rows unique per invoice and rule, the job
`dunning-run:<org>`. Operations: settings and rules, the cron, the pass over
the open invoices, by the job or by "Run now". Hard: overlapping passes, a queue
that throws after it accepted, a rule deleted with its claims under a pass.
Correct when: a reminder goes out at most once, and is lost only to a failure.

**Campaigns** (`modules/campaigns`) - *modelled.*
State: status with a send claim, recipient rows, the job `campaign:<id>`.
Operations: create, update, remove, send, unsubscribe, the sending loop.
Hard: the claim, its roll-back and the loop against edits and each other.
Correct when: one email per recipient, and no campaign stays in `sending`.

**Email sequences** (`modules/sequences`) - *modelled.*
State: sequence, steps by position, enrollments, executions, one job per
enrollment and position. Operations: the life of a sequence, its steps,
enrolment, the scheduler, the step engine. Hard: an email that does not belong
to the transaction that records it; jobs that come late.
Correct when: each position is executed once, in order.

**Recurring billing** (`modules/subscriptions`, the recurring fields of
`modules/invoices`) - *modelled.*
State: next date, cycles, limit. Operations: the billing cron and its API; the
recurring job, "run now", stop. Hard: ticks that overlap, invoice and date
committed apart, counts written from an earlier read.
Correct when: a period is billed once and none is skipped; the count is true.

**Drafting** (expenses billed, invoices merged and duplicated, numbering) - *partly.*
State: invoices with their lines, the flag `invoiced` of an expense. Hard: the
check and the write are two transactions, and a merge leaves its sources cancelled, with
their lines, where a payment brings them back. Correct when: a client pays for an
expense once.

**Quotes** (`modules/cpq`) - *modelled.* State: status, lines, the invoice made
of it, until somebody deletes that. Correct when: it has one invoice at a time, as it was
sent.

**Proposals and signatures** (`modules/proposals`, `modules/signatures`) - *partly.*
State: status and `signedAt` of the document, signature rows with revocations.
Hard: rows and document are written one after the other, without a transaction.
Correct when: a signed document has a signature that holds.

**Booking pages and appointments** (`modules/booking`, `modules/appointments`) -
*partly.* State: appointments pending or scheduled, the page's staff member.
Correct when: confirmed appointments of one person do not overlap.

**Products and stock** (`modules/products`) - *modelled.* State: a balance and
its movements. Correct when: the movements explain the balance.

**Inbound mail** (`modules/inbox`) - *partly.* State: a high-water UID, rows
unique by message id, the job `inbox-imap:<org>`. Correct when: no message is
passed over or announced twice, and mail that arrives is fetched.

**Calls** (`modules/calls`) - *modelled.*
State: rows of the call log, the timeline, calls under way at Twilio and its
callbacks. Hard: the row is inserted after the call was placed; callbacks come
more than once and in any order. Correct when: no minute has more dials than the
limit; a call ends in its last state and leaves one entry in the timeline.

**Work orders** (`modules/field-service`) - *modelled.*
State: status, lines, window, status history. Hard: every move checks in one
transaction and writes in the next. Correct when: the history tells how the order
came to its status, and a closed order stays as it is.

**Client hierarchy and merging of duplicates** (`modules/account-hierarchy`,
`modules/dedup`) - *partly.* State: `parentClientId` and `mergedIntoId` of each client,
the records that point at it. Hard: the cycle check reads a chain of rows and locks two
of them; a merge locks nothing that it reads. Correct when: every client has a root,
no deeper than the cap, and a merged client leads to one that is not merged and has its
records.

The rest is not modelled; `PROJECT.json` has the reason for each.

**Estimates and contracts**. One status per row, and the conversion of an
estimate. **Leads, scoring, forms**. Shaped like quotes, with an external model.

**Opportunities and forecasts**. A stage and its history. Correct when: the
history ends at the stage.

**Calendar sync**. Conflict rule over three clocks and two remote APIs.

**Sessions and two-factor login** (`auth`). State: refresh tokens, recovery codes.
Correct when: a token or a code serves once.

**Outgoing email**. A queue in front of SMTP.

**Legacy webhooks, automations, push, notifications**; **event bus listeners and
search index**. Listeners without rules of their own, behind the event bus.

**Record sharing and territories**. Two more trees: managers, with the checks of the client
hierarchy, and territories, with the checks and without the locks.

**Bulk import**. Rows created one after another.

**Tickets, tasks, projects and other CRUD**. One statement per operation.

**Tax, currencies, FX**; **platform administration, plans, GDPR, backups**; **web
application, add-on, migration scripts**. Arithmetic, reports, presentation.

# 2. Plan

Ordered by how much an error would cost and how little a test would find it.

| | module | what it composes | main properties |
|---|---|---|---|
| done | WebhookDelivery | rows, BullMQ, workers, sweep, admin | schedule, success, attempts, liveness |
| done | Settlement | payments, invoices, credit notes | bounds, ledger and status |
| done | Approvals | processes, requests, decisions | audit, every approver, no skipped step |
| done | Dunning, refining OnceOnly | rules, claims, passes, one job | each reminder once |
| done | Campaigns, DripSequence | rows, jobs, loops, people | one email each, no campaign stuck, steps in order |
| done | SubscriptionBilling, RecurringInvoices | ticks, jobs, requests | one invoice per period, true counts |
| done | Drafting, Quotes, Proposals | check in one transaction, write in the next | billed once, converted once, signature and document agree |
| done | Booking, Stock, Inbox | pages and appointments; balance and movements; mailbox and job | no overlap; balance explained; mail taken once |
| done | Calls | dials, callbacks in any order, and the row they look for | dials limited, a call ends in its last state |
| done | WorkOrders | moves, edits, history | the history never drifts |
| done | Hierarchy | re-parenting, merges, row locks | every client has a root, every merged one a survivor |
| next | opportunities | stage and history, as in WorkOrders | the history ends at the stage |
| then | contracts, estimates, leads | the shapes of Proposals and Quotes | converted once |
| then | the account of a mailbox replaced under its mark; tickets polled | Inbox | no message passed over |

A theorem still worth proving: a Purse (an amount drawn in parts, never beyond the whole) is what
Settlement's notes and refunds implement while requests come one at a time.

# 3. Public webhook delivery

## 3.1 Model and code

| action | code |
|---|---|
| `EmitRead`, `EmitCreate`, `EmitAdd`, `EmitAddFails` | `webhook-dispatcher.service.ts` `emit()`: the subscribers; per webhook the INSERT and `queue.add`; the one catch around the loop |
| `Take`, `ReadRow`, `ReadHook`, `Post`, `Write`, `AddRetry`, `Return` | `webhook-delivery.processor.ts` `process()`, one action per await |
| `SweepRead`, `SweepAdd`, `SweepAddFails` | `webhook-retry.scheduler.ts` `sweep()` |
| `Create`, `SetActive`, `RotateSecret`, `Remove` | `webhooks.service.ts` |
| `RedeliverWrite`, `RedeliverAdd`, `RedeliverAddFails` | `redeliver()`: the reset of the row, then the job |
| `BecomesDue`, `DelayEnds` | the two clocks, independent of each other |
| `Add`, `Finish`, `Crash`, `Throws`, `Flush`, `Evict` | BullMQ and Redis (external) |

A row's schedule is `none`, `now` or `later`. A worker carries what it read
(`attempt`, `outcome`), so its write is as stale as the code's. Job ids are
modelled as the code builds them: the dispatcher's `deliver:<id>` differs from
the sweep's and the processor's `deliver:<id>:<n>`, and so two jobs can hold one
row. `queue.add` with an id BullMQ still holds does nothing.

BullMQ is modelled from how the code uses it: a job taken from a dead worker is run
again once and fails the second time; finished and failed jobs keep their ids
until a later thousand push them out. The lock file pins 5.73.5, and the models
assume that version takes the ids the code composes. The library checks custom ids,
and there are releases that refuse some with a colon; under such a release the adds
of `deliver:<id>`, `dunning-run:<org>`, `campaign:<id>` and `inbox-imap:<org>` would
throw instead, which the models have as failing adds, but then as the only outcome.

Left out: URLs, payloads, signing, event names, response bodies, and the
batch of 200 rows per sweep (the instances have fewer rows than a batch).

## 3.2 Runs

| run | instance | shows |
|---|---|---|
| `webhook_races` | 1 row, 2 workers, 2 attempts, 1 redelivery; 529k states | no interleaving schedules a delivered delivery, counts an attempt nobody made or exceeds the requests the ids allow |
| `webhook_faults` | 1 worker, 2 attempts, 1 redelivery, any one fault; 709k | the schedule survives a crash, a flush, a failing query, a failing add and a forgotten id; with one job at a time a success is final |
| `webhook_live` | 1 worker, 2 attempts, one flush or crash; 57k | every delivery ends |
| `webhook_undone` | 2 workers; a violation | a failing worker overwrites another's success |

Bounds. Rows of different deliveries touch only through the emit loop, so one
row is enough. Two attempts give a first,
a last and a delayed job between them; the row's counter is compared with
`MaxAttempts` on both sides of the boundary. The dispatcher's job and the sweep's
are what can meet on a row, so two workers meet. `MaxRedeliver` and `MaxFaults`
bound what people and machines do to a behaviour. Events are emitted once and ids
are not recycled, so a system at rest is not an error and deadlock is not checked.

## 3.3 Fairness

`webhook_live` assumes that a worker goes on with its job, that a waiting job is
eventually taken and a delay ends, that clocks advance, that the cron fires and
goes through its list, and that a started `redeliver()` returns. The process pool,
BullMQ's blocking fetch, Redis timers and `@Cron(EVERY_MINUTE)` give these. Nothing
is assumed of faults, of the admin or of new events. The run has one worker: with
two, a lost update of `attemptCount` leaves the row at a count whose job id is
already taken, and the sweep cannot get past it.

## 3.4 What one learns about the code

* A delivery's first attempt may be made twice, by the bare id and by `:1`. The
  total stays within `MAX_ATTEMPTS + 1`, plus one for each redelivery and each
  fault (`RequestsBounded`).
* `webhook_undone`: the retry update is unconditional, so the comments
  "Already succeeded ... No-op" and "without worrying about double-delivery" hold only
  while jobs of one row do not overlap.
* The row's `nextAttemptAt` is called the authoritative schedule, yet the sweep derives
  the job id from `attemptCount`; a failed job that keeps that id blocks every later
  sweep. This is why `webhook_live` counts failing queries out.
* A failing `queue.add`, or a webhook deleted during `emit()`, ends the loop: later
  subscribers get no row, and for those the sweep has nothing to find.

# 4. Settlement

## 4.1 Model and code

Each worker is one request: idle, between its read and its write (a record of what it
has read), or in a transaction. `Tx` holds a transaction's private writes by
column; `Commit` merges them into the tables. A transaction sees committed rows and its own
(`SeenBy`), and re-reads at every statement, as READ COMMITTED does.
`Locked` is the row lock on a payment that is updated or deleted.

| actions | code |
|---|---|
| `GatewayLookup`, `GatewayCreate` | `handleGatewayWebhook()`: the lookup by transaction id, then `create()` |
| `Create`, `Recalculate` | `create()`: insert; sum and status |
| `CreateBatch` | `createBatch()`: all rows, then each invoice in turn |
| `RefundRead`, `RefundWrite` | `refund()`: check and amount; negative row, stamp, status |
| `Delete` | `delete()`: row gone, status from what is left |
| `AutoTax`, `InvoiceCreate`, `UpdateRead`, `Update`, `InvoiceDeleteRead`, `InvoiceDelete` | the invoice row |
| `StatusRead`, `StatusWrite`, `BulkRead`, `MarkPaid`, `OverdueRead`, `OverdueWrite`, `RemindRead`, `RemindWrite` | every way a status is set without money |
| `NoteCreate`, `NoteStatusRead`, `NoteStatusWrite`, `ApplyRead`, `Apply`, `ApplyUnlinked`, `ApplyToRead`, `ApplyTo` | `credit-notes.service.ts` |
| `Commit`, `Abandon` | the database; `Abandon` is every throw, roll-back, crash or lost connection |

Grain: statements of one transaction whose effects nobody else can see before
the commit are one step; the sum over payments is a step of its own, since it
reads what others have committed meanwhile.

Abstractions: money is a small integer (`Decimal` arithmetic is exact); amounts are
positive, which the callers' forms ensure and `create()` itself does not check;
due dates are "any eligible subset" of the invoices for `getOverdue` and the
reminder cron; an invoice and its payments are read in one step. A payment
remembers where it came from (`from`), which the code keeps in its note, method and
transaction id.

Modelled as written, although the schema disagrees: `InvoicesService.create` and the
credit note's `apply` name columns the schema lacks. No finding rests on them.
`update()` and `delete()` of a credit note ask for a draft, and a note is created
`open`, so they are never enabled. `CreditNote.remainingAmount` is never updated.

## 4.2 Runs

| run | instance | shows |
|---|---|---|
| `settlement_sequential` | 1 request at a time, 2 invoices, 3 payments, a linked note, a gateway transaction, batches of 2; 737k states | whatever the sequence of calls, stamps cover refunds, a note is spent once, statuses follow the ledger |
| `settlement_races` | 2 requests, 1 invoice, 3 payments, a note; 857k | no interleaving lets `refundedAmount` pass its payment or `appliedTotal` its note |
| `gateway_twice` | 2 requests, a gateway transaction; a violation | one notification, delivered twice at once, is two payments |

Bounds. Two invoices are needed for a note used twice and for a batch; three
payments for a payment, its refund and a second payment (or the deletion of either).
Amounts 1 and 2 against a total of 2 give less, equal and more than is due. Two
requests at a time show every lost update. Ids are used once, so a run ends when they
are spent, and deadlock is not checked.

Why the sequential run exists. With two requests at a time the code does break these
properties: a second refund overwrites the first one's stamp, the reminder cron
writes overdue over a payment, two payments sum without each other, `send` and
`updateStatus` hide a payment, `void` meets `apply`. The sequential run shows that
nothing but the overlap is to blame, and still lets each request be cut short
anywhere.

## 4.3 What one learns about the code

* The two bounds hold under every interleaving, because each request checks
  what it is about to write against an amount that never changes. They bound the
  *recorded* totals only.
* `gateway_twice`: "Idempotency: skip if a payment with this transactionId already
  exists" is a query, not a unique key.
* `appliedTotal` is written back from a value read in an earlier transaction: two
  requests at once spend one note twice, and `NoteSpentOnce` is checked for
  requests one after another.
* `markPaid` makes an invoice paid without a payment, whatever its status; the comment at
  `invoices.service.ts:763-766` says that this route handles the payment row.
* When the original of a refund is deleted its refund rows stay, and a later payment
  may leave the sum at zero or less with the old status, paid included. This is why
  `LedgerDecidesPaid` speaks of positive sums.

# 5. Approvals

## 5.1 Model and code

| actions | code |
|---|---|
| `ProcessCreate`, `ProcessUpdate`, `ProcessRemove` | `approval-processes.service.ts`; `update()` replaces all steps |
| `CreateRead`, `CreateWrite` | `create()`: process and first step; the row |
| `DecideRead`; `Reject`, `Advance`, `Approve` | `decide()`: checks; decision and request in one transaction |
| `CancelRead`, `CancelWrite` | `cancel()` |
| `Abandon` | the unique key's conflict, a missing row, an error, a crash |

The reads of a request, its process and its steps are one step. Nothing is lost by
that: of what `decide()` reads, what others may change is the status, which the write
ignores, the current step, which the unique key protects, and the chain, whose edits mark
the request in `edited`. The constant `Chains` is the catalogue of chains an
administrator may define and `Holders` says who may act for a step's approver. The
manager's set is empty, as in the code, which rejects that kind for now.
Names, targets, trigger conditions, comments and who the requester is are left out.
Removed processes are not created again under their old id.

## 5.2 Runs

| run | instance | shows |
|---|---|---|
| `approvals` | 2 calls, 1 request, 1 process with 5 chains of one to three steps and edits at any time; 45k states | decisions match the walk, an approval has every approver behind it, and a request moves only forward and only with an approval |
| `approvals_closed` | the same; a violation | cancelled becomes approved, or approved cancelled |

Requests meet only through the process they name, and no write of one reads
another; one request with two calls on it holds every conflict. Chains of up to
three steps give a first, a middle and a last one, and replacing one with another inserts,
removes and reorders steps around the request. A request or a call may rest
for ever, so deadlock is not checked.

## 5.3 What one learns about the code

* The unique key on (requestId, stepOrder) alone carries the weight: `AuditMatches`
  and `ChainAdvances` hold without any check of the status at the write.
* `approvals_closed`: neither `cancel()` nor `decide()` looks at the status again.
* An edit of a chain can strand a request on a step that no longer exists, or let
  it pass over a step inserted behind it. The note at `schema.prisma:3442-3444` says a
  request can never "skip" a step; that is so for the chain it walked, and
  `ApprovedByEveryStep` is stated for requests whose chain was not replaced.

# 6. The other services

Fourteen smaller models, one per service, written alike. A service's methods read in
one transaction (or in none) and write in another; each is an action that begins, with
the guards that the method checks, and one action for every later statement whose
effect somebody else may see. What a request has read is in a variable of its own
(`pass`, `caller`, `run`, `clerk`, `agent`, ...), so that what it writes is as stale as in
the code. Failing queries, roll-backs and dying processes are actions (`Fails`,
`Crash`, `Rollback`, ...).

Several of these services do break their promises when requests overlap. A
property then says how much overlap costs: it bounds the damage by the number of
requests that began beside another, or of failures, which are counted in variables marked
as history. With the counts at zero it is the plain promise.

## 6.1 Models and code

**Dunning** - `dunning/`. `UpdateSettings`, `CreateRule`, `UpdateRule`, `DeleteRule` are the
API; the cron adds the job `dunning-run:<org>`; a pass reads the rules, then
the invoices, then takes each pair due: the insert of the claim row (committed first)
and the email. Invoices open and close under it. `OnceOnly` states what a claim row is
for: an item is taken once, then sent or lost. `Dunning` implements it with `may` = the
pairs without a claim whose rule was not deleted, `inHand` = the pairs of passes
between claim and email, `sent` = the emails queued. Note that invoices in `sent`
are not among the open statuses, so the model's `open` does not have them.

**Campaigns** - `campaigns/`. `send()` in five steps (read, claim by a conditional update,
recipients, suppression and rows, job) with its roll-back; `update()` and `remove()` as
read and write; the loop `runSend()` with one mail and one mark per recipient. `RunFinish`
commits the status; the job is still active then and becomes a completed one only when
BullMQ has moved it (`JobCompletes`). In between the campaign may be edited and sent again,
and that send's add finds its id in use. `dto.status` of `update()` is taken as draft or scheduled.

**DripSequence** - `sequences/`. The life of a sequence, its steps by position, enrolment,
the scheduler's scan and the step engine, whose transaction reads, mails and commits;
a mail is queued though the transaction rolls back. The recovery branch marked
"FIX 1", which advances an enrollment over a step already executed, is never
reached: execution and advance commit together. A second enrolment runs into the
unique key inside a PostgreSQL transaction, which aborts it.

**SubscriptionBilling** - `subscriptions/`. Time is counted in billing intervals. `Scan`,
`Generate`, `Advance` are a tick: the due row, the invoice, the next date computed from
the date that was read.

**RecurringInvoices** - the recurring job and its scheduler, `runRecurringNow`,
`stopRecurring`. A run reads the source, then drafts the copy and counts the cycle in one
transaction. As written, `create()` and `update()` never set `nextRecurringDate`, so the
job matches an invoice only after `runRecurringNow` gave it a date.

**Drafting** - `billExpenses`, `merge`, `duplicate`, `delete` and the status in
`invoices.service.ts`, with the flag `invoiced`. Deleting or cancelling an invoice
leaves its expenses flagged: they are never billed again. `SetRead` and `SetWrite` are `send`,
`updateStatus`, `bulkUpdateStatus` and `getOverdue`, which check in one transaction and write,
whatever the invoice has become, in the next. `Pay` is `markPaid` and what payments, refunds and
credit notes do to a status: it asks for nothing, so a cancelled invoice, the source of a
merge perhaps, is live again, "revived". `CopyRead` is `duplicate` and the runs of a recurring
invoice, which copy the lines of any invoice, a cancelled one too. Left out: the lines themselves,
which `update()` may rewrite as free text (a line is the billing of an expense until then), and
the conversion to an estimate and back.

**Quotes** - `cpq/quotes.service.ts`; lines are a version number. An invoice that is
still a draft can be deleted, and the foreign key `ON DELETE SET NULL` of
`convertedInvoiceId` clears the quote's pointer (`InvoiceDeleted`): the quote may be converted
again, one request after the other, which is what somebody who deleted the invoice wants. `spare`
counts the invoices beside the one the quote points to. The status
`expired` waits for a cron that is not written yet, and is left out.

**Proposals** - `proposals/` and `signatures/`. A view makes a placeholder row; signing
writes the row, then the document; revoking the same. `accept()` sets `signedAt`
without a row, and `updateStatus()` leaves `signedAt` as it is.

**Booking** - `booking/` and `appointments/`. Time is counted in half an appointment with its
buffer: starts one apart collide, two apart do not. Slots, working hours, limits and
expiry are any failure of a request. Appointments of the staff and of the older public
endpoint are kept apart only by the partial unique index, and the property speaks of
those that visitors booked.

**Stock** - `products/`. `adjustStock` reads and writes in one READ COMMITTED transaction;
a sent invoice takes its lines off one after another. Only `send()` of the invoices
emits `invoice.sent`, and editing the quantity writes no movement.

**Inbox** - `inbox/`. The poll with its mark, its range (`N+1:*`, which always has the last
message), its limit, its rows unique by message id; the job `inbox-imap:<org>` with its
attempts; "poll now" beside it. The account of the mailbox stays the same: changing it
keeps the mark, so that messages of the new one may be passed over.

**Calls** - `calls/`. `DialCount`, `DialPlace`, `DialRow` are a dial: the limit, the call at
Twilio, the row. Twilio's messages are a set without an order; a callback is a
read, a write and, at the end of a call, the entry in the timeline. "ringing" stands for
every state before the end, "busy" for every end but "completed". Calls that belong to no
lead and no client have no timeline and are left out. A length is told apart by where it
comes from; "zero" is a length of 0, which Twilio may report and `UpdateCallDto` allows, and
which the handler of recordings takes for no length at all: it fills in that of the recording.

**WorkOrders** - `field-service/work-orders.service.ts`. `MoveRead` and `MoveWrite` are
`schedule`, `start`, `complete` and `cancel`, whose transactions differ in what else they
write. The update locks the order's row before the history row is inserted.

**Hierarchy** - `account-hierarchy/` and `mergeClient` of `dedup/`. A transaction is what it
has read and will write, and the rows it has locked; its writes appear when it commits.
`Climb` is the recursive query, cut at `MAX_DEPTH` as the code cuts it. One invoice stands
for the records that a merge moves; the columns it fills in are left out, and so is the
deletion of a client, which makes its children roots.

## 6.2 Runs

`services` (`MCServices`, `Services.cfg`; 971k states, four to five minutes)
checks all fourteen. They have no row in common, so each behaviour belongs to one of them,
chosen in the initial state, and the others rest; an interleaving of two would show
nothing that each alone does not. Requests, jobs, passes and workers are drawn from one
set of two, the rows from sets of one or two, so that two permutations exchange them
everywhere.

| part | instance | states | shows |
|---|---|---|---|
| dunning | 2 passes, 2 rules, 1 invoice, 1 claim lost | 35k | `ReminderOnce`, `ClaimIsMailed`, `FiresAtMostOnce` (implements OnceOnly) |
| campaign | 2 calls, 1 address, 1 failure or crash | 83k | `MailedOnce`, `StuckOnlyBySpentJob` |
| sequence | 2 jobs, 1 recipient, 2 positions, 1 roll-back | 20k | `StepsRunOnce` |
| billing | 2 ticks, 4 dates, 1 edit, 1 failed advance, 1 overlap | 37k | `PeriodsBilledOnce` |
| source | 2 runs, 3 drafts, limits up to 2 or none | 58k | `CyclesCounted` |
| drafting | 2 requests, 3 invoices, 1 expense, 1 overlap or copy | 88k | `ExpenseBilledOnce` |
| quote | 2 requests, 3 versions, 2 overlaps | 0.4k | `InvoicedAsSent` |
| proposal | 2 requests, 3 rows, 1 overlap, 1 cut | 83k | `SignedIsCovered` |
| booking | 2 verifications, 2 appointments, 2 staff, 3 starts | 93k | `NoDoubleBooking` |
| stock | 2 adjustments, quantities of -1 to 1, 2 movements | 13k | `BalanceExplained` |
| inbox | 2 polls, 2 messages at 3 UIDs, catch-up and limit of 1, 2 attempts, 1 break | 164k | `MailTakenOnce` |
| calls | 2 requests, 2 calls, a limit of 1 dial, 1 overlap, 1 mishap | 192k | `DialsBounded`, `CallLeavesTrace` |
| order | 2 requests, 3 versions, 5 history rows, 2 overlaps | 4k | `HistoryNeverDrifts` |
| tree | 2 requests, 4 clients, 2 levels, 4 calls, 1 overlap | 99k | `TreeHasRoots`, `MergedHasSurvivor` |

Four calls are the fewest for two disjoint re-parentings to close a ring; three chain
four clients up to the cap. Chains longer than the cap, where the walk is cut short, do not
come up. The invoice starts with one of the clients, which differ in nothing at first.

Bounds. Two actors at a time show every lost update; where a property counts overlaps,
one overlap is enough to tell the promise from the damage, and two where requests follow
one another quickly (a conversion, a move). The limits of the code (catch-up, messages per
poll, dials per minute, cycles) are reduced to one or two so that they are reached:
at three UIDs the limit of one cuts a range, and the catch-up of one leaves a message
behind. An address, an expense or a recipient meets another only in loops over a
set, whose order is free. Rows are not used again under an old id and people need not do
anything, so services come to rest and deadlock is not checked.

| run | instance | shows |
|---|---|---|
| `inbox_stops` | 1 poll, 2 messages, fair; a violation | after its first poll an organization is not polled again |
| `signature_twice` | 1 request, 3 rows; a violation | a view and a signature leave two active rows |

Fairness. `inbox_stops` assumes that the cron fires (`WF(Cron)`) and that a poll goes on
(`WF(PollSteps)`); breaks are excluded. Nothing makes the polls of five hundred
other organizations happen, so there is no fairness on `Evict`.

## 6.3 What one learns about the code

* `inbox_stops`: "until it completes/expires" is not how job ids work. The finished job keeps
  its id (`removeOnComplete: 500`) and the cron's next add is ignored. The job of dunning and
  that of a campaign sent again do the same, and so does a job whose loop has ended but which
  is not completed yet: `StuckOnlyBySpentJob` names it as one of the
  ways a campaign stays in `sending`.
* A merge cancels its sources and leaves them their lines. Nothing asks whether a cancelled
  invoice may be paid: one such payment, no request beside it, and the client has the
  expense on two live invoices. `ExpenseBilledOnce` counts each invoice that came back.
* A quote whose draft invoice is deleted may be converted again.
* A call of length 0 gets the length of its recording.
* `signature_twice`: the placeholder row has `signedAt` of 1970, and the code that would
  reuse it looks for rows without `signedAt`.
* Dunning's claim row does what its comment promises, whatever overlaps, for one reason: it is
  committed before the email is queued, and nothing ever removes it but its rule's
  deletion.
* A tick of subscriptions claims no row: two ticks bill a period twice, but because the next
  date is computed from the date that was read, no period is skipped.
* Runs of a recurring invoice that overlap lose cycles and never add any, so a limit is
  passed by that many drafts.
* "A second click on an already-confirmed booking succeeds" (`booking.service.ts`) cannot
  happen: the first click clears the token that the second one is looked up by.
* A page bound to another staff member makes `verify()` check the new one's calendar for
  an appointment of the old one; the index still keeps equal start times apart.
* A message that fails while a later one succeeds is below the mark and never read again.
* A call whose first callbacks overtake the insert of its row stays in `queued`; a late
  "ringing" overwrites "completed"; the recording's callback, which reads, downloads and
  then writes, may replace the call's duration.
* The dial limit counts rows: logged calls use it up, a deletion frees it.
* The history of a work order ends at its status, always, thanks to the row's lock; but
  overlapping moves leave a row that does not start where the one before it ended, and one
  of them may lead out of a closed order.
* The row locks of `setParent()` close the race its comment describes, between calls that
  share a client. Two that share none (1 under 2 while 2 is over 3, and 3 under 4 while 4
  is over 1) each pass the check and close a ring: four clients are the fewest, which is
  why the instance has four. `TreeHasRoots` counts such overlaps apart.
* A merge into a grandchild makes a cycle without any overlap: the loser's child, which is
  above the winner, is hung under it. Only a winner directly below the loser is cut loose.
* Two merges at once, of a pair in both directions, hide both clients.


# 7. Proofs

Each `*Proofs.tla` proves `Init => Inv`, one lemma per action or small group of actions for
`Inv /\ Next => Inv'`, and then the theorems. They hold for any number of
workers, rows and bounds that satisfies the named assumptions of the module; finite
sets are not assumed.

**WebhookDelivery** - `DeliveryInv`: the type invariant, `OwedRowIsScheduled`,
`DeliveredIsUnscheduled` and `AttemptsWereMade`, strengthened by

* `DeletedHasNoRows`: the row's foreign key cascades, so a worker that finds no
  webhook writes to a row that is gone;
* `WorkerReads`: the attempt a worker carries is at most one more than the
  requests made, and covered once the request is sent; an outcome "deleted" is only
  held when the webhook is. Without this a stale write could be anything.

`RequestsBounded` has an invariant of its own, `RequestsInv`, because it counts:

* `JobsHeld`: a busy worker holds an active job that no other worker holds, and ids of
  redeliveries exist only up to the number of calls;
* `Budget`: the requests made for a row, plus the job ids that may still lead to one, stay
  within MAX_ATTEMPTS + 1, one per call of `redeliver` and one per fault. A request
  uses up the id of its job; only a crash gives one back, and a crash is counted.

It rests on `IdsKept`: Redis neither loses its data nor evicts a finished id. Crashes,
failing queries and failing `add`s are all allowed, which is more than
the run `WebhookRaces` checks. Without `IdsKept` it is false: an evicted id can be added again.

`SuccessIsFinal` rests on `FinalInv`: a worker between its read of the row and its update
holds one that has not succeeded, a row that succeeded is there, and `emit()` has not yet
created the row of a webhook it has still to come to. The first part is inductive for one worker only, the
hypothesis `OneSlot`; with two it fails as `webhook_undone` shows. Faults are all allowed, Redis
losing its ids among them. `RowsGo` lists the steps that can change a row's success.

Theorems `TypeInvariant`, `OwedIsScheduled`, `DeliveredUnscheduled`, `AttemptsMade`,
`DeliveryInvariant`, `RequestsStayBounded`, `SuccessStays`; assumptions `AttemptsAssumption`,
`BoundsAssumption`, `FaultsAssumption`.

**Settlement** - `SettlementInv`: the type invariant and the two bounds,
strengthened by

* `ForeignKeys`: rows that payments and open transactions name are there;
* `Exclusive`: open transactions insert different, unused ids and delete
  different rows, so that merging two of them is well defined;
* `UnusedUnstamped`: a new payment starts with nothing refunded;
* `ClaimsHold`: for each request, what it has read plus what it will add is within the
  payment, and what a transaction is about to write is within the payment and the note. This
  is the heart of the argument: the check is made against an amount that does not
  change, so it survives whatever others commit.

Theorems `SettlementInvariant`, `TypeInvariant`, `RefundedBounded`,
`AppliedBounded`; assumptions on amounts, gateway transactions, notes and batches.

What depends on a sum over the payments goes wrong when requests overlap; the
violating runs show it. That nothing else can put it wrong is proved under
`OneRequest` (no two different workers), the hypothesis that the run
`SettlementSequential` makes by its constants, for any invoices, payments, notes, amounts and batches. On top of
`SettlementInv`, `SequentialInv` says

* `Ledger`: the properties themselves, and that refunds are negative, name a
  payment there has been, and nothing else is negative (`RowsSigned`). Without the signs a deletion
  could raise what a stamp has to cover;
* `AsRead`: what a request has read still holds, by where it stands: the stamp, the
  status, the note;
* `TxHolds`: a transaction committed as it stands would leave stamps and notes that cover
  their rows (`RowsCovered`) and statuses that agree with the sums (`Agrees`) of the invoices it touches, and
  it leaves the sums of the others alone. This is what carries a request from its
  insert over any number of recalculations to its commit.

TLC checked `SequentialInv` on the instance of `SettlementSequential` before it was
proved. Theorems `SequentialInvariant`, `NoRefundTwice`, `NoteNotSpentTwice`, `UnpaidIsUnpaid`, and
for the action properties `PaidByTheLedger`, `SettledUntilMoneyMoves`, `NotesStayFinal`. The
second of these needs `NotesHaveWorth`: applying a note of total 0 makes a cancelled invoice partial
although no money moved.

`SumLemmas` has the facts about sums. `MapThenSumSet` is a fold, and the library's
induction theorems take an operator, which cannot be instantiated here; but `WFMin` can, so `LeastOf`
gives the least number of a set, and from it `SetInduction`: a set of subsets that has the empty one
and each subset with one element more has them all. The other lemmas use it. There is
a function that tallies every subset (`TallyExists`), the fold is such a function
(`TallyFolds`, `FoldIsUnique`, `SumIsTally`), and so an element adds its value whichever it is
(`SumSplits`); then sums of parts, of amounts that are equal, no greater, zero or natural (`SumOfParts`,
`SumAlike`, `SumAtMost`, `SumIsNatural`, `SumGrows`).

**Approvals** - `ApprovalsInv`: the type invariant, `AuditMatches` and
`ApprovedByEveryStep`, strengthened by

* `StandsOnChain`: an unedited request stands on a step of its chain and every
  earlier step was approved by somebody it names;
* `ReadHolds`: a call whose key is still free has read the step the request
  still stands at, and the chain as it is unless the request is marked edited.

Theorems `ApprovalsInvariant`, `TypeInvariant`, `AuditInvariant`,
`ApprovedInvariant`, and `AdvanceNeedsApproval` for the action property
`ChainAdvances`; assumptions `OrdersAssumption`, `HoldersAssumption`,
`ChainsAssumption`.

**Dunning** - `DunningInv`: the type invariant, `ReminderOnce` and `ClaimIsMailed`,
strengthened by

* `ClaimsApart`: a pass between claim and email holds a pair that nobody can claim any
  more, that was not sent yet, and that no other pass holds. Without it a second email
  for the pair could be under way.

Theorems `TypeCorrect`, `RemindersOnce`, `ClaimsAreMailed`, `ServicesRunDunning` (a behaviour of
`ServicesSpec` is one of `Spec`, so that the others hold of it too), and `ImplementsOnceOnly`, the
refinement: the initial states map to that of `OnceOnly`, and under `DunningInv` each
action maps to `Take`, `Send`, `Lose`, `Withdraw` or a stutter. There is no assumption on the
constants. `MCServices` extends `Dunning`, so the run checks the very definitions that the
theorems are about.

**The services of MCServices.** The theorems of the next four modules are about
`ServicesSpec`, the specification that `Services.cfg` runs. A lemma named `...Moves` says that
a step of the composition is a step of the service or leaves its rows alone, so each proof
is about one service. They assume `ServicesBounds` (bounds are natural numbers, and a few at least one),
`StaffAreIds` (the two words for "nobody" are not staff members) and, for the tree only,
`ClientsAreRows` (a table holds finitely many clients, and none of them is "none"). No other set is assumed
finite: the proofs show that those they count are. Each invariant below also contains the type
invariant of its service.

*OutreachProofs.*

* Campaigns, `CampaignInv`: there is one loop, and it holds an address once (`LoopApart`); an address that
  may still be mailed has had at most one email per upset, so the next is within the
  bound (`MailsCounted`). Gives `CampaignMailsOnce`, `CampaignGetsUnstuck`.
* Sequences, `SequenceInv`: a job at work is the only one of its step, and its step is the one the
  recipient stands at (`JobsApart`); the executions are the positions passed, and the one failed at
  (`Passed`); an email that may still go out has been rolled back each time before (`Posted`). Gives
  `SequenceRunsStepsOnce`.

*BillingProofs.*

* Recurring invoices, `CyclesInv`: a run has read a count that the drafts have
  reached, and the limit unless it was edited since (`RunsKnow`). Gives `RecurringCyclesCounted`.
* Subscriptions, `BillingInv`: for each date, the invoices drafted, the ticks about to
  draft one, and one more if a tick may still find that date in the row, stay within one plus the overlaps,
  halves and edits that happened (`Ledger`, with `MayBillAgain` saying when that is); and
  everything before the row and before each tick is billed (`NothingLeftOut`). Gives
  `EachPeriodBilledOnce`: never twice, and none skipped.
* Drafting, `DraftingInv`: for an expense, the lines on the live invoices and the lines that
  requests at work promise weigh at most 2 ^ crossed (`Weighed`). A request promises what it has
  read: an expense not invoiced yet, a line it found, the union of the drafts it merges. One of them, the
  host, may be counted at what its write would add at once, since a merge cancels what it
  read; that is what makes the weight 1 while requests come one at a time. One that begins
  beside another promises at most as much as there is, so it doubles the weight at most, and no write raises
  it. A copy may add the lines of a cancelled invoice, and a payment brings such an invoice back;
  no weight counts those, so no invoice alone may be heavy: `Small` says that requests at work, the
  union each merge or copy has read, and each invoice's lines with those about to be billed on it
  are at most 2 ^ crossed. What is live and not revived weighs at most 2 ^ crossed, and each revived invoice at most as much
  again, which is the factor `1 + Cardinality(Revived)`. `DraftsKnow` has what this rests on: what a request
  has read fits the rows, and an expense with a line on any invoice is marked invoiced. Gives
  `ExpensesBilledOnce`.

*OffersProofs.*

* Booking, `BookingInv`: the unique index holds (`IndexHolds`); unedited
  appointments are with the page's staff member (`BookedByPage`), and what a verification read before its
  check is still so (`ChecksCurrent`); with no verification beside another, what is scheduled
  and what was checked but not yet written have their time to themselves (`KeptApart`). Gives
  `NobodyIsDoubleBooked`.
* Quotes, `QuoteInv`: requests beside one another are counted (`ServedApart`), and so are the
  invoices beside the one the quote points to, that one, and the conversions on their way:
  together at most one more than the overlaps (`InvoicesCounted`). Without the last two a
  deletion, which makes the quote convertible again, would leave the count open. One after the
  other, what a request read
  still holds and the invoice is of the version sent (`OneByOne`). Gives `QuoteInvoicedAsSent`.
* Proposals, `SignatureInv`: one request after the other and none cut off, a signed
  proposal's newest row in force is a signature unless a revocation is half done, and a view that found no row adds
  one to none (`SignedHolds`). Gives `SignedProposalIsCovered`.

*FieldProofs.*

* Stock, `StockInv`: until two changes conflict, one balance at most is read and not
  written, and it is the product's plus the movement (`ReadIsCurrent`). Gives
  `StockBalanceExplained`.
* Inbox, `InboxInv`: what lies below the mark, and what a poll has passed, is stored or has a
  reason not to be (`MarkTaken`, `PollTaken`); a message is announced by the poll that stored it and
  no other (`OneAnnouncer`). Gives `InboxTakesMailOnce`, for any number of polls.
* Work orders, `OrderInv`: the history ends at the status (`HistoryEnds`); its breaks, and
  the requests that may each add one, are within the overlaps counted, except for the
  request that writes first (`BreaksCounted`); one after the other, closed is closed
  (`ClosedStaysClosed`). Gives `OrderHistoryNeverDrifts`.
* Calls, `CallInv`: the calls of a minute and the dials let through are within the limit and what
  is counted beside it (`DialsCounted`). For each call: its row is inserted once
  (`InsertsOnce`); messages tell what the line did (`TellsTrue`), and the row has what it was told
  as long as nothing came out of turn, a length made 0 and filled in apart (`InTurn`); a call that ended has an entry in the timeline, on its way,
  or lost (`Traced`); entries made and possible are one, plus mishaps
  (`EntriesCounted`). Gives `CallDialsBounded`, `CallLeavesItsTrace`.
* Hierarchy, `TreeInv`. The recursive queries follow a column upwards (`Climb`); `NumberInduction`
  and `ClimbSteps` make an induction along it possible. If every chain ends it ends within the
  number of clients (`EndsSoon`, by pigeonhole), and a chain that meets no changed row
  is the same before and after (`SamePath`). While no two calls overlap that could miss each other
  one is at work (`Sole`), and: what a merge read still holds, so the winner is unmerged and, if the invoice was
  the loser's, takes it (`Survivor`, `MergeHolds`); every chain of parents ends, none is longer
  than the depth until a merge, and what `setParent` checked still holds when it writes (`Rooted`,
  `LinkHolds`). `LinkIsChecked` shows what the check is worth: fewer than MAX_DEPTH rows above means the
  query has seen them all, so the child is on none of them, and the two depths add up. `LinkKeepsRoots`,
  `LinkKeepsDepth`, `CutKeepsRoots` and `MergeKeepsRoots` are the three ways a row changes; the last one needs
  that none of the children taken is above the winner, which is what `folded` records.
  Gives `TreeKeepsRoots`, `MergeHasSurvivor`.
* `ServicesTyped`, for all fourteen: each invariant contains the type invariant of its service.

**Only model-checked.** The liveness of deliveries and polls: TLAPS does not handle
fairness and ENABLED. Every
other property of a passing run is a theorem for any values of the constants.

# 8. What is not modelled

The models cover the services in which an order of steps can break something. Most of
the repository is of another kind: the web application, reports and dashboards, CRUD
controllers, DTOs, PDF and e-mail templates, seeds and migrations. They write one row with
one statement or none at all, so that the lines the models stand for are a
small share of all lines. `PROJECT.json` gives the reason for each component that is left
out; the plan in section 2 names those that are worth a model yet.

Inside the modelled components, formatting, logging, the texts of emails, activity
logs and permissions are left out throughout, and so is row level security: every
model is of one organization.
