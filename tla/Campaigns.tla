------------------------------- MODULE Campaigns -------------------------------
(***************************************************************************)
(* One mass mailing: campaigns/campaigns.service.ts and its processor.     *)
(*                                                                         *)
(* send() claims the campaign by a conditional update, writes a row for    *)
(* every recipient and queues one job, whose loop mails the rows that are  *)
(* still pending.  send(), update() and remove() read first and write      *)
(* later, beside the running loop and each other.                          *)
(***************************************************************************)
EXTENDS Integers, FiniteSets

CONSTANTS Callers,    \* API calls in progress at one time
          Emails,
          MaxUpsets   \* bound: failures and crashes in a behaviour

VARIABLES
    campaign,    \* "none", its status, or "deleted"
    recipients,  \* campaign_recipients.status by email, "none" for no row
    unsubscribed,
    outbox,      \* history: how often each address was mailed
    sendJob,     \* the BullMQ job campaign:<id>: "none" | "waiting" | "active" | "kept"
    loop,        \* what runSend holds
    caller,      \* what each API call holds
    upsets,      \* history: failures and crashes so far
    swallowed    \* history: a send whose job was ignored for one that has done its work

campaignVars == <<campaign, recipients, unsubscribed, outbox, sendJob, loop, caller, upsets,
                  swallowed>>

Editable == {"draft", "scheduled", "failed"}
Idle     == [pc |-> "idle"]

Init ==
    /\ campaign = "none" /\ sendJob = "none" /\ upsets = 0 /\ swallowed = FALSE
    /\ recipients = [e \in Emails |-> "none"]
    /\ outbox = [e \in Emails |-> 0]
    /\ unsubscribed = {}
    /\ loop = Idle /\ caller = [c \in Callers |-> Idle]

Hold(c, r) == caller' = [caller EXCEPT ![c] = r]
Upset      == upsets < MaxUpsets /\ upsets' = upsets + 1

--------------------------------------------------------------------------------
(* create, update, remove, unsubscribe *)

Create ==
    /\ campaign = "none"
    /\ campaign' \in {"draft", "scheduled"}
    /\ UNCHANGED <<recipients, unsubscribed, outbox, sendJob, loop, caller, upsets, swallowed>>

UpdateRead(c) ==
    /\ caller[c] = Idle /\ campaign \in Editable
    /\ Hold(c, [pc |-> "update"])
    /\ UNCHANGED <<campaign, recipients, unsubscribed, outbox, sendJob, loop, upsets, swallowed>>

\* The content, the schedule and with it the status, whatever it is by now
UpdateWrite(c) ==
    /\ caller[c].pc = "update"
    /\ campaign' \in IF campaign = "deleted" THEN {campaign}
                     ELSE {campaign, "draft", "scheduled"}
    /\ Hold(c, Idle)
    /\ UNCHANGED <<recipients, unsubscribed, outbox, sendJob, loop, upsets, swallowed>>

RemoveRead(c) ==
    /\ caller[c] = Idle /\ campaign \in Editable \cup {"sent"}
    /\ Hold(c, [pc |-> "remove"])
    /\ UNCHANGED <<campaign, recipients, unsubscribed, outbox, sendJob, loop, upsets, swallowed>>

\* The foreign key takes the recipients along
RemoveWrite(c) ==
    /\ caller[c].pc = "remove"
    /\ campaign' = "deleted"
    /\ recipients' = [e \in Emails |-> "none"]
    /\ Hold(c, Idle)
    /\ UNCHANGED <<unsubscribed, outbox, sendJob, loop, upsets, swallowed>>

Unsubscribe(e) ==
    /\ e \notin unsubscribed
    /\ unsubscribed' = unsubscribed \cup {e}
    /\ UNCHANGED <<campaign, recipients, outbox, sendJob, loop, caller, upsets, swallowed>>

--------------------------------------------------------------------------------
(* send *)

\* Mutant: the status is not looked at
SendableAnyTime == campaign \notin {"none", "deleted"}

Sendable == campaign \in Editable

SendRead(c) ==
    /\ caller[c] = Idle /\ Sendable
    /\ Hold(c, [pc |-> "claim", was |-> campaign])
    /\ UNCHANGED <<campaign, recipients, unsubscribed, outbox, sendJob, loop, upsets, swallowed>>

\* The condition of the updateMany
Claimable == campaign \in Editable

SendClaim(c) ==
    /\ caller[c].pc = "claim"
    /\ IF Claimable
         THEN campaign' = "sending" /\ Hold(c, [caller[c] EXCEPT !.pc = "resolve"])
         ELSE UNCHANGED campaign /\ Hold(c, Idle)
    /\ UNCHANGED <<recipients, unsubscribed, outbox, sendJob, loop, upsets, swallowed>>

\* On with these recipients, or, when there are none, the claim is given back
With(c, pc, to) ==
    Hold(c, IF to = {} THEN [pc |-> "release", was |-> caller[c].was]
                       ELSE [pc |-> pc, was |-> caller[c].was, to |-> to])

\* The segment, without those who unsubscribed
SendResolve(c) ==
    /\ caller[c].pc = "resolve"
    /\ \E segment \in SUBSET Emails : With(c, "suppress", segment \ unsubscribed)
    /\ UNCHANGED <<campaign, recipients, unsubscribed, outbox, sendJob, loop, upsets, swallowed>>

\* The list of unsubscribed addresses is read once more
SendSuppress(c) ==
    /\ caller[c].pc = "suppress"
    /\ With(c, "insert", caller[c].to \ unsubscribed)
    /\ UNCHANGED <<campaign, recipients, unsubscribed, outbox, sendJob, loop, upsets, swallowed>>

\* skipDuplicates: rows of an earlier send stay as they are
SendInsert(c) ==
    /\ caller[c].pc = "insert" /\ campaign # "deleted"
    /\ recipients' = [e \in Emails |->
                        IF e \in caller[c].to /\ recipients[e] = "none"
                          THEN "pending" ELSE recipients[e]]
    /\ Hold(c, [pc |-> "add", was |-> caller[c].was])
    /\ UNCHANGED <<campaign, unsubscribed, outbox, sendJob, loop, upsets, swallowed>>

\* The job of an earlier send has left its loop, or is finished and kept
Spent == loop.pc = "over" \/ sendJob = "kept"

\* BullMQ ignores an id it knows, also that of a finished job
Add ==
    /\ sendJob' = IF sendJob = "none" THEN "waiting" ELSE sendJob
    /\ swallowed' = (swallowed \/ Spent)

SendAdd(c) ==
    /\ caller[c].pc = "add"
    /\ Add
    /\ Hold(c, Idle)
    /\ UNCHANGED <<campaign, recipients, unsubscribed, outbox, loop, upsets>>

Sending == {"resolve", "suppress", "insert", "add"}

\* Any of the steps fails; a queue that throws may have taken the job
SendFails(c) ==
    /\ caller[c].pc \in Sending
    /\ \/ Upset
       \/ caller[c].pc = "insert" /\ campaign = "deleted" /\ UNCHANGED upsets
    /\ Hold(c, [pc |-> "release", was |-> caller[c].was])
    /\ \/ UNCHANGED <<sendJob, swallowed>>
       \/ caller[c].pc = "add" /\ Add
    /\ UNCHANGED <<campaign, recipients, unsubscribed, outbox, loop>>

\* Mutant: the status is not rolled back
ReleasedNever(was) == campaign

\* The updateMany asks for sending and puts the status back that was read
Released(was) == IF campaign = "sending" THEN was ELSE campaign

SendRelease(c) ==
    /\ caller[c].pc = "release"
    /\ campaign' = Released(caller[c].was)
    /\ Hold(c, Idle)
    /\ UNCHANGED <<recipients, unsubscribed, outbox, sendJob, loop, upsets, swallowed>>

\* The process dies in the middle of a call
CallDies(c) ==
    /\ caller[c] # Idle
    /\ Upset
    /\ Hold(c, Idle)
    /\ UNCHANGED <<campaign, recipients, unsubscribed, outbox, sendJob, loop, swallowed>>

--------------------------------------------------------------------------------
(* The processor: runSend *)

Unsent == {e \in Emails : recipients[e] = "pending"}

\* runSend has returned; BullMQ does not know yet
Over == [pc |-> "over"]

RunRead ==
    /\ sendJob = "waiting"
    /\ sendJob' = "active"
    /\ loop' = IF campaign = "deleted" THEN Over
               ELSE [pc |-> "run", todo |-> Unsent, queued |-> {}, ok |-> FALSE, bad |-> FALSE]
    /\ UNCHANGED <<campaign, recipients, unsubscribed, outbox, caller, upsets, swallowed>>

\* Mutant: a recipient is at the end of one batch and the beginning of the next
UnbatchedOverlapping(e) == loop.todo

Unbatched(e) == loop.todo \ {e}

\* emails.queue() for a recipient of the batch
RunMail(e) ==
    /\ loop.pc = "run" /\ e \in loop.todo
    /\ outbox' = [outbox EXCEPT ![e] = @ + 1]
    /\ loop' = [loop EXCEPT !.todo = Unbatched(e), !.queued = @ \cup {e}]
    /\ UNCHANGED <<campaign, recipients, unsubscribed, sendJob, caller, upsets, swallowed>>

Row(e, s) ==
    recipients' = [recipients EXCEPT ![e] = IF @ = "none" THEN @ ELSE s]

RunMark(e) ==
    /\ loop.pc = "run" /\ e \in loop.queued
    /\ Row(e, "sent")
    /\ loop' = IF recipients[e] = "none"
                 THEN [loop EXCEPT !.queued = @ \ {e}, !.bad = TRUE]
                 ELSE [loop EXCEPT !.queued = @ \ {e}, !.ok = TRUE]
    /\ UNCHANGED <<campaign, unsubscribed, outbox, sendJob, caller, upsets, swallowed>>

\* The email or the update fails; so may the update of the catch
RunFails(e) ==
    /\ loop.pc = "run" /\ e \in loop.todo \cup loop.queued
    /\ Upset
    /\ UNCHANGED recipients \/ Row(e, "failed")
    /\ loop' = [loop EXCEPT !.todo = @ \ {e}, !.queued = @ \ {e}, !.bad = TRUE]
    /\ UNCHANGED <<campaign, unsubscribed, outbox, sendJob, caller, swallowed>>

RunFinish ==
    /\ loop.pc = "run" /\ loop.todo = {} /\ loop.queued = {}
    /\ campaign' = IF campaign = "deleted" THEN campaign
                   ELSE IF loop.bad /\ ~loop.ok THEN "failed" ELSE "sent"
    /\ loop' = Over
    /\ UNCHANGED <<recipients, unsubscribed, outbox, sendJob, caller, upsets, swallowed>>

\* A query of runSend fails: logged, and the job will be complete
RunThrows ==
    /\ loop.pc = "run" /\ loop.queued = {}
    /\ Upset
    /\ loop' = Over
    /\ UNCHANGED <<campaign, recipients, unsubscribed, outbox, sendJob, caller, swallowed>>

\* BullMQ moves the job to the completed ones
JobCompletes ==
    /\ loop.pc = "over"
    /\ loop' = Idle /\ sendJob' = "kept"
    /\ UNCHANGED <<campaign, recipients, unsubscribed, outbox, caller, upsets, swallowed>>

\* The worker dies; the stalled job is run again
RunDies ==
    /\ loop # Idle
    /\ Upset
    /\ loop' = Idle /\ sendJob' = "waiting"
    /\ UNCHANGED <<campaign, recipients, unsubscribed, outbox, caller, swallowed>>

\* A hundred later campaigns push the finished job out
Evict ==
    /\ sendJob = "kept"
    /\ sendJob' = "none"
    /\ UNCHANGED <<campaign, recipients, unsubscribed, outbox, loop, caller, upsets, swallowed>>

--------------------------------------------------------------------------------
Call(c) ==
    \/ UpdateRead(c) \/ UpdateWrite(c) \/ RemoveRead(c) \/ RemoveWrite(c)
    \/ SendRead(c) \/ SendClaim(c) \/ SendResolve(c) \/ SendSuppress(c)
    \/ SendInsert(c) \/ SendAdd(c) \/ SendFails(c) \/ SendRelease(c) \/ CallDies(c)

Next ==
    \/ Create
    \/ \E c \in Callers : Call(c)
    \/ \E e \in Emails : Unsubscribe(e) \/ RunMail(e) \/ RunMark(e) \/ RunFails(e)
    \/ RunRead \/ RunFinish \/ RunThrows \/ JobCompletes \/ RunDies \/ Evict

Spec == Init /\ [][Next]_campaignVars

--------------------------------------------------------------------------------
(* Properties *)

CallType ==
    {Idle} \cup [pc : {"update", "remove"}]
           \cup [pc : {"claim", "resolve", "add", "release"}, was : Editable]
           \cup [pc : {"suppress", "insert"}, was : Editable, to : SUBSET Emails]

TypeOK ==
    /\ campaign \in Editable \cup {"none", "sending", "sent", "deleted"}
    /\ recipients \in [Emails -> {"none", "pending", "sent", "failed"}]
    /\ outbox \in [Emails -> Nat] /\ upsets \in 0..MaxUpsets
    /\ swallowed \in BOOLEAN
    /\ unsubscribed \subseteq Emails
    /\ sendJob \in {"none", "waiting", "active", "kept"}
    /\ loop \in {Idle, Over} \cup [pc : {"run"}, todo : SUBSET Emails, queued : SUBSET Emails,
                             ok : BOOLEAN, bad : BOOLEAN]
    /\ caller \in [Callers -> CallType]

\* "The campaign can never be double-enqueued / double-sent": whatever sends, edits and
\* re-runs overlap, an address is mailed once, and once more for each failure or crash
\* that lost the record of it.
MailedOnce == \A e \in Emails : outbox[e] <= 1 + upsets

Driven ==
    \/ sendJob = "waiting" \/ loop.pc = "run"
    \/ \E c \in Callers : caller[c].pc \in Sending \cup {"release"}

\* "... so the campaign isn't stuck mid-send and can be retried": a campaign in sending
\* has a call or a job that will bring it out of there.
SendingIsDriven == campaign = "sending" => Driven

\* So it is, but for a failure of the roll-back or of the loop itself, and for the job of an
\* earlier send, which from the end of its loop until it is evicted swallows the next one.
StuckOnlyBySpentJob == SendingIsDriven \/ upsets > 0 \/ swallowed

================================================================================
