------------------------------- MODULE MCServices -------------------------------
(***************************************************************************)
(* The services for TLC.  They have queues and an API in common and no     *)
(* row, so every behaviour is one of a single service, chosen at the       *)
(* start, while the others rest.  What acts at the same time (passes,      *)
(* requests, workers) is drawn from one set, so that one permutation       *)
(* exchanges it everywhere.  Dunning is extended and not instantiated: the *)
(* properties checked here are the ones that OutreachProofs proves.        *)
(***************************************************************************)
EXTENDS Dunning, Sequences, TLC

CONSTANTS u1, u2, x1, x2, d1, d2, d3, o1

CONSTANTS Callers, Emails, MaxUpsets,                                       \* Campaigns
          Steppers, Enrollees, LastPosition, MaxRollbacks,                  \* DripSequence
          Ticks, Horizon, MaxRedates, MaxHalfDone, MaxOverlaps,             \* SubscriptionBilling
          Workers, MaxCap, MaxDrafts, MaxChecks,                            \* RecurringInvoices
          Clerks, Drafts, Expenses,                                         \* Drafting
          Agents, MaxVersions, MaxCrossings,                                \* Quotes
          Requests, MaxRows, MaxMeetings, MaxCut,                           \* Proposals
          Appointments, Staff, Clicks, LastStart, MaxSimultaneous,          \* Booking
          Hands, MaxQuantity, MaxMoves, MaxConflicts,                       \* Stock
          Pollers, Mails, Catchup, Cap, Attempts, MaxUids, MaxBreaks,       \* Inbox
          CallIds, Servers, MaxDials, MaxBeside, MaxAnswered, MaxMishaps,   \* Calls
          Dispatchers, MaxEdits, MaxHistory, MaxClashes,                    \* WorkOrders
          Editors, Clients, MaxDepth, MaxCalls, MaxApart                    \* Hierarchy

\* Bounds are numbers; a quote and an order have a first version, the order's history a first
\* row, a poll takes a message and a job has an attempt
ASSUME ServicesBounds ==
    /\ {MaxUpsets, LastPosition, MaxRollbacks, Horizon, MaxRedates, MaxHalfDone, MaxOverlaps,
        MaxCap, MaxDrafts, MaxChecks, MaxVersions, MaxCrossings, MaxRows, MaxMeetings, MaxCut,
        LastStart, MaxSimultaneous, MaxQuantity, MaxMoves, MaxConflicts, Catchup, Cap, Attempts,
        MaxUids, MaxBreaks, MaxDials, MaxBeside, MaxAnswered, MaxMishaps, MaxEdits, MaxHistory,
        MaxClashes, MaxDepth, MaxCalls, MaxApart} \subseteq Nat
    /\ MaxVersions > 0 /\ MaxEdits > 0 /\ MaxHistory > 0 /\ Cap > 0 /\ Attempts > 0

\* What a page without a staff member holds is no staff member
ASSUME StaffAreIds == Staff \cap {"none", "removed"} = {}

\* A table holds a finite number of clients, and no client is none
ASSUME ClientsAreRows == IsFiniteSet(Clients) /\ "none" \notin Clients

VARIABLES
    part,
    campaign, recipients, unsubscribed, outbox, sendJob, loop, caller, upsets, swallowed,
    sequence, step, removing, enrollment, executed, posted, stepJob, stepper, rollbacks,
    subscription, now, biller, billed, since, redates, halfDone, overlaps,
    source, drafts, checks, run, raced, recapped,
    status, lines, invoiced, clerk, crossed,
    quote, agent, spare, sentAs, crossings,
    proposal, signatures, request, clicked, meetings, cut,
    page, appointment, click, rebound, edited, simultaneous,
    product, moves, hand, base, forced, conflicts,
    enabled, mark, mailbox, inbox, announced, poll, pollJob, unread, before, breaks,
    row, line, wire, server, minute, placed, timeline, unseen, astray, unwritten, beside,
    mishaps,
    order, history, dispatcher, closedWith, clashes,
    parent, mergedInto, owner, editor, calls, apart, folded

C == INSTANCE Campaigns
S == INSTANCE DripSequence
B == INSTANCE SubscriptionBilling
R == INSTANCE RecurringInvoices
E == INSTANCE Drafting WITH Invoices <- Drafts
Q == INSTANCE Quotes
P == INSTANCE Proposals
A == INSTANCE Booking
T == INSTANCE Stock
M == INSTANCE Inbox
L == INSTANCE Calls
W == INSTANCE WorkOrders
H == INSTANCE Hierarchy

campaignRows == <<campaign, recipients, unsubscribed, outbox, sendJob, loop, caller, upsets,
                  swallowed>>
sequenceRows == <<sequence, step, removing, enrollment, executed, posted, stepJob, stepper,
                  rollbacks>>
billingRows  == <<subscription, now, biller, billed, since, redates, halfDone, overlaps>>
sourceRows   == <<source, drafts, checks, run, raced, recapped>>
draftingRows == <<status, lines, invoiced, clerk, crossed>>
quoteRows    == <<quote, agent, spare, sentAs, crossings>>
proposalRows == <<proposal, signatures, request, clicked, meetings, cut>>
bookingRows  == <<page, appointment, click, rebound, edited, simultaneous>>
stockRows    == <<product, moves, hand, base, forced, conflicts>>
inboxRows    == <<enabled, mark, mailbox, inbox, announced, poll, pollJob, unread, before,
                  breaks>>
callRows     == <<row, line, wire, server, minute, placed, timeline, unseen, astray,
                  unwritten, beside, mishaps>>
orderRows    == <<order, history, dispatcher, closedWith, clashes>>
treeRows     == <<parent, mergedInto, owner, editor, calls, apart, folded>>

vars == <<part, dunningVars, campaignRows, sequenceRows, billingRows, sourceRows,
          draftingRows, quoteRows, proposalRows, bookingRows, stockRows, inboxRows,
          callRows, orderRows, treeRows>>

Actors  == {u1, u2}
TwoRows == {x1, x2}
OneRow  == {o1}
ThreeDrafts == {d1, d2, d3}
FourClients == {x1, x2, d1, d2}

Symmetric == Permutations(Actors) \cup Permutations(TwoRows)

\* Clients differ in nothing at first, so one of them may as well have the invoice
ServicesInit ==
    /\ part \in {"dunning", "campaign", "sequence", "billing", "source", "drafting", "quote",
                 "proposal", "booking", "stock", "inbox", "calls", "order", "tree"}
    /\ Init /\ C!Init /\ S!Init /\ B!Init /\ R!Init /\ E!Init /\ Q!Init /\ P!Init
    /\ A!Init /\ T!Init /\ M!Init /\ L!Init /\ W!Init /\ H!Init
    /\ owner = d1

DunningSteps  == Next /\ UNCHANGED <<campaignRows, sequenceRows>>
CampaignSteps == C!Next /\ UNCHANGED <<dunningVars, sequenceRows>>
SequenceSteps == S!Next /\ UNCHANGED <<dunningVars, campaignRows>>
OutreachRests == UNCHANGED <<dunningVars, campaignRows, sequenceRows>>

BillingSteps  == B!Next /\ UNCHANGED <<sourceRows, draftingRows>>
SourceSteps   == R!Next /\ UNCHANGED <<billingRows, draftingRows>>
DraftingSteps == E!Next /\ UNCHANGED <<billingRows, sourceRows>>
BillingRests  == UNCHANGED <<billingRows, sourceRows, draftingRows>>

QuoteSteps    == Q!Next /\ UNCHANGED proposalRows
ProposalSteps == P!Next /\ UNCHANGED quoteRows
OffersRest    == UNCHANGED <<quoteRows, proposalRows>>

BookingSteps  == A!Next /\ UNCHANGED <<stockRows, inboxRows>>
StockSteps    == T!Next /\ UNCHANGED <<bookingRows, inboxRows>>
InboxSteps    == M!Next /\ UNCHANGED <<bookingRows, stockRows>>
RecordsRest   == UNCHANGED <<bookingRows, stockRows, inboxRows>>

CallSteps     == L!Next /\ UNCHANGED <<orderRows, treeRows>>
OrderSteps    == W!Next /\ UNCHANGED <<callRows, treeRows>>
TreeSteps     == H!Next /\ UNCHANGED <<callRows, orderRows>>
FieldRests    == UNCHANGED <<callRows, orderRows, treeRows>>

ServicesNext ==
    /\ UNCHANGED part
    /\ \/ /\ part \in {"dunning", "campaign", "sequence"}
          /\ BillingRests /\ OffersRest /\ RecordsRest /\ FieldRests
          /\ \/ part = "dunning" /\ DunningSteps
             \/ part = "campaign" /\ CampaignSteps
             \/ part = "sequence" /\ SequenceSteps
       \/ /\ part \in {"billing", "source", "drafting"}
          /\ OutreachRests /\ OffersRest /\ RecordsRest /\ FieldRests
          /\ \/ part = "billing" /\ BillingSteps
             \/ part = "source" /\ SourceSteps
             \/ part = "drafting" /\ DraftingSteps
       \/ /\ part \in {"quote", "proposal"}
          /\ OutreachRests /\ BillingRests /\ RecordsRest /\ FieldRests
          /\ \/ part = "quote" /\ QuoteSteps
             \/ part = "proposal" /\ ProposalSteps
       \/ /\ part \in {"booking", "stock", "inbox"}
          /\ OutreachRests /\ BillingRests /\ OffersRest /\ FieldRests
          /\ \/ part = "booking" /\ BookingSteps
             \/ part = "stock" /\ StockSteps
             \/ part = "inbox" /\ InboxSteps
       \/ /\ part \in {"calls", "order", "tree"}
          /\ OutreachRests /\ BillingRests /\ OffersRest /\ RecordsRest
          /\ \/ part = "calls" /\ CallSteps
             \/ part = "order" /\ OrderSteps
             \/ part = "tree" /\ TreeSteps

ServicesSpec == ServicesInit /\ [][ServicesNext]_vars

ServicesTypeOK ==
    /\ part = "dunning"  => TypeOK
    /\ part = "campaign" => C!TypeOK
    /\ part = "sequence" => S!TypeOK
    /\ part = "billing"  => B!TypeOK
    /\ part = "source"   => R!TypeOK
    /\ part = "drafting" => E!TypeOK
    /\ part = "quote"    => Q!TypeOK
    /\ part = "proposal" => P!TypeOK
    /\ part = "booking"  => A!TypeOK
    /\ part = "stock"    => T!TypeOK
    /\ part = "inbox"    => M!TypeOK
    /\ part = "calls"    => L!TypeOK
    /\ part = "order"    => W!TypeOK
    /\ part = "tree"     => H!TypeOK

MailedOnce         == part = "campaign" => C!MailedOnce
StuckOnlyBySpentJob == part = "campaign" => C!StuckOnlyBySpentJob
StepsRunOnce       == part = "sequence" => S!StepsRunOnce
PeriodsBilledOnce  == part = "billing"  => B!PeriodsBilledOnce
CyclesCounted      == part = "source"   => R!CyclesCounted
ExpenseBilledOnce  == part = "drafting" => E!ExpenseBilledOnce
InvoicedAsSent     == part = "quote"    => Q!InvoicedAsSent
SignedIsCovered    == part = "proposal" => P!SignedIsCovered
NoDoubleBooking    == part = "booking"  => A!NoDoubleBooking
BalanceExplained   == part = "stock"    => T!BalanceExplained
MailTakenOnce      == part = "inbox"    => M!MailTakenOnce
DialsBounded       == part = "calls"    => L!DialsBounded
CallLeavesTrace    == part = "calls"    => L!CallLeavesTrace
HistoryNeverDrifts == part = "order"    => W!HistoryNeverDrifts
TreeHasRoots       == part = "tree"     => H!TreeHasRoots
MergedHasSurvivor  == part = "tree"     => H!MergedHasSurvivor

================================================================================
