---------------------------------- MODULE Inbox ----------------------------------
(***************************************************************************)
(* One organization's inbound mail: inbox/imap-connector.service.ts, its   *)
(* scheduler and its queue processor, with the mailbox it reads.           *)
(*                                                                         *)
(* A poll fetches the UIDs above a mark, stores each message under its     *)
(* message id and moves the mark to the highest UID it processed.  The     *)
(* polls of the queue and of "poll now" may overlap.                       *)
(***************************************************************************)
EXTENDS Integers, Sequences, FiniteSets

CONSTANTS Pollers,      \* calls of pollOrg in progress at one time
          Mails,        \* message ids
          Catchup,      \* INITIAL_CATCHUP
          Cap,          \* HARD_LIMIT_MESSAGES
          Attempts,     \* of the job
          MaxUids,      \* bound on the mailbox
          MaxBreaks     \* bound on polls that break off and messages that fail

VARIABLES
    enabled,   \* email_settings.imapEnabled
    mark,      \* imapLastUidNext, 0 when null
    mailbox,   \* the message id at each UID
    inbox,     \* inbox_messages
    announced, \* history: how often email.inbound.received was emitted for a message
    poll,      \* what each poll holds
    pollJob,   \* the BullMQ job inbox-imap:<org>: id "none" | "waiting" | "active" | "kept"
    unread,    \* history: UIDs that could not be processed
    before,    \* history: UIDs that the first run left out
    breaks     \* history: how many polls broke off and messages failed

inboxVars == <<enabled, mark, mailbox, inbox, announced, poll, pollJob, unread, before,
               breaks>>

Quiet == [pc |-> "idle"]
NoJob == [id |-> "none", attempts |-> 0]

Init ==
    /\ enabled = FALSE /\ mark = 0 /\ mailbox = <<>> /\ inbox = {}
    /\ announced = [m \in Mails |-> 0]
    /\ poll = [w \in Pollers |-> Quiet]
    /\ pollJob = NoJob
    /\ unread = {} /\ before = 0 /\ breaks = 0

--------------------------------------------------------------------------------
(* The mailbox and its settings; the account stays the same *)

\* A message may arrive a second time under another UID
MailArrives(m) ==
    /\ Len(mailbox) < MaxUids
    /\ mailbox' = Append(mailbox, m)
    /\ UNCHANGED <<enabled, mark, inbox, announced, poll, pollJob, unread, before, breaks>>

SetEnabled ==
    /\ enabled' = ~enabled
    /\ enabled => breaks < MaxBreaks
    /\ breaks' = IF enabled THEN breaks + 1 ELSE breaks
    /\ UNCHANGED <<mark, mailbox, inbox, announced, poll, pollJob, unread, before>>

--------------------------------------------------------------------------------
(* pollOrg *)

Hold(w, p) == poll' = [poll EXCEPT ![w] = p]

\* The job completes or fails for good, and keeps its id
Done(w) ==
    /\ Hold(w, Quiet)
    /\ pollJob' = IF poll[w].job THEN [pollJob EXCEPT !.id = "kept"] ELSE pollJob

\* The settings; the job's poll counts as an attempt
Begin(w, job) ==
    /\ poll[w] = Quiet
    /\ job => pollJob.id = "waiting"
    /\ IF enabled
         THEN /\ Hold(w, [pc |-> "connect", job |-> job, from |-> mark])
              /\ pollJob' = IF job THEN [id |-> "active", attempts |-> pollJob.attempts + 1]
                                   ELSE pollJob
         ELSE /\ pollJob' = IF job THEN [pollJob EXCEPT !.id = "kept"] ELSE pollJob
              /\ UNCHANGED poll
    /\ UNCHANGED <<enabled, mark, mailbox, inbox, announced, unread, before, breaks>>

\* A first run over an empty mailbox
FindsNothing(w) ==
    /\ poll[w].pc = "connect" /\ poll[w].from = 0 /\ mailbox = <<>>
    /\ Done(w)
    /\ UNCHANGED <<enabled, mark, mailbox, inbox, announced, unread, before, breaks>>

\* The credentials cannot be resolved: an end without an error
Unauthorized(w) ==
    /\ poll[w].pc = "connect" /\ breaks < MaxBreaks
    /\ breaks' = breaks + 1
    /\ Done(w)
    /\ UNCHANGED <<enabled, mark, mailbox, inbox, announced, unread, before>>

\* The last few on a first run, else "mark + 1:*", in which "*" is the last UID and the
\* two ends may come in either order
FirstUid(from) ==
    LET last == Len(mailbox) IN
    IF from = 0 THEN IF last > Catchup THEN last - Catchup + 1 ELSE 1
    ELSE IF last > from THEN from + 1 ELSE last

\* HARD_LIMIT_MESSAGES and the end of the range
LastUid(from) ==
    LET capped == FirstUid(from) + Cap - 1 IN
    IF capped < Len(mailbox) THEN capped ELSE Len(mailbox)

Fetch(w) ==
    LET from == poll[w].from
        first == FirstUid(from) IN
    /\ poll[w].pc = "connect" /\ mailbox # <<>>
    /\ Hold(w, [pc |-> "read", job |-> poll[w].job, from |-> from, reached |-> from,
                uid |-> first, last |-> LastUid(from)])
    /\ before' = IF from = 0 /\ first - 1 > before THEN first - 1 ELSE before
    /\ UNCHANGED <<enabled, mark, mailbox, inbox, announced, pollJob, unread, breaks>>

\* highestUid
Reached(w) == IF poll[w].uid > poll[w].reached THEN poll[w].uid ELSE poll[w].reached

Reading(w) == poll[w].pc = "read" /\ poll[w].uid <= poll[w].last

\* Mutant: a row that was there already counts as new
FreshAlways(m) == TRUE

\* The unique key on (organizationId, messageId)
Fresh(m) == m \notin inbox

\* The row is inserted and will be announced
Store(w) ==
    LET m == mailbox[poll[w].uid] IN
    /\ Reading(w) /\ Fresh(m)
    /\ inbox' = inbox \cup {m}
    /\ Hold(w, [poll[w] EXCEPT !.pc = "announce"])
    /\ UNCHANGED <<enabled, mark, mailbox, announced, pollJob, unread, before, breaks>>

Onward(w) == Hold(w, [poll[w] EXCEPT !.pc = "read", !.uid = @ + 1, !.reached = Reached(w)])

\* skipDuplicates
SkipDuplicate(w) ==
    /\ Reading(w) /\ ~Fresh(mailbox[poll[w].uid])
    /\ Onward(w)
    /\ UNCHANGED <<enabled, mark, mailbox, inbox, announced, pollJob, unread, before, breaks>>

\* The row is looked up and announced; a failing look-up is swallowed
Announce(w) ==
    LET m == mailbox[poll[w].uid] IN
    /\ poll[w].pc = "announce"
    /\ \/ announced' = [announced EXCEPT ![m] = @ + 1] /\ UNCHANGED breaks
       \/ breaks < MaxBreaks /\ breaks' = breaks + 1 /\ UNCHANGED announced
    /\ Onward(w)
    /\ UNCHANGED <<enabled, mark, mailbox, inbox, pollJob, unread, before>>

\* "One bad message must not poison the rest of the batch"
MessageFails(w) ==
    /\ Reading(w) /\ breaks < MaxBreaks
    /\ breaks' = breaks + 1
    /\ unread' = unread \cup {poll[w].uid}
    /\ Hold(w, [poll[w] EXCEPT !.uid = @ + 1])
    /\ UNCHANGED <<enabled, mark, mailbox, inbox, announced, pollJob, before>>

\* The range is exhausted, or the wall clock cuts it off
Finish(w) ==
    /\ poll[w].pc = "read"
    /\ Reading(w) => breaks < MaxBreaks
    /\ breaks' = IF Reading(w) THEN breaks + 1 ELSE breaks
    /\ mark' = IF poll[w].reached > poll[w].from THEN poll[w].reached ELSE mark
    /\ Done(w)
    /\ UNCHANGED <<enabled, mailbox, inbox, announced, unread, before>>

\* The connection breaks, or the mark cannot be written: thrown, and a job is tried again
\* until its attempts are used up
Throws(w) ==
    /\ poll[w].pc \in {"connect", "read"} /\ breaks < MaxBreaks
    /\ breaks' = breaks + 1
    /\ Hold(w, Quiet)
    /\ LET again == pollJob.attempts < Attempts IN
       pollJob' = IF poll[w].job
                    THEN [pollJob EXCEPT !.id = IF again THEN "waiting" ELSE "kept"]
                    ELSE pollJob
    /\ UNCHANGED <<enabled, mark, mailbox, inbox, announced, unread, before>>

\* The process dies; BullMQ finds the job stalled and runs it again
Crash(w) ==
    /\ poll[w] # Quiet /\ breaks < MaxBreaks
    /\ breaks' = breaks + 1
    /\ Hold(w, Quiet)
    /\ pollJob' = IF poll[w].job THEN [id |-> "waiting", attempts |-> 0] ELSE pollJob
    /\ UNCHANGED <<enabled, mark, mailbox, inbox, announced, unread, before>>

--------------------------------------------------------------------------------
(* The cron, and BullMQ *)

\* Ignored while BullMQ knows the id, be the job waiting, running or done
Cron ==
    /\ enabled /\ pollJob.id = "none"
    /\ pollJob' = [id |-> "waiting", attempts |-> 0]
    /\ UNCHANGED <<enabled, mark, mailbox, inbox, announced, poll, unread, before, breaks>>

\* The polls of five hundred other organizations push the finished job out
Evict ==
    /\ pollJob.id = "kept"
    /\ pollJob' = NoJob
    /\ UNCHANGED <<enabled, mark, mailbox, inbox, announced, poll, unread, before, breaks>>

--------------------------------------------------------------------------------
PollSteps(w) ==
    \/ Begin(w, TRUE) \/ FindsNothing(w) \/ Fetch(w)
    \/ Store(w) \/ SkipDuplicate(w) \/ Announce(w) \/ Finish(w)

Next ==
    \/ SetEnabled \/ Cron \/ Evict
    \/ \E m \in Mails : MailArrives(m)
    \/ \E w \in Pollers : \/ PollSteps(w) \/ Begin(w, FALSE) \/ Unauthorized(w)
                          \/ MessageFails(w) \/ Throws(w) \/ Crash(w)

Spec == Init /\ [][Next]_inboxVars

\* The cron ticks and a worker that has a job goes on with it.  Nothing makes other
\* organizations finish hundreds of jobs.
Fairness ==
    /\ WF_inboxVars(Cron)
    /\ \A w \in Pollers : WF_inboxVars(PollSteps(w))

FairSpec == Spec /\ Fairness

--------------------------------------------------------------------------------
(* Properties *)

PollType ==
    {Quiet} \cup [pc : {"connect"}, job : BOOLEAN, from : 0 .. MaxUids]
            \cup [pc : {"read", "announce"}, job : BOOLEAN, from : 0 .. MaxUids,
                  reached : 0 .. MaxUids, uid : 1 .. MaxUids + 1, last : 1 .. MaxUids]

TypeOK ==
    /\ enabled \in BOOLEAN /\ mark \in 0 .. MaxUids
    /\ mailbox \in Seq(Mails) /\ Len(mailbox) <= MaxUids /\ inbox \subseteq Mails
    /\ announced \in [Mails -> Nat]
    /\ poll \in [Pollers -> PollType]
    /\ pollJob \in [id : {"none", "waiting", "active", "kept"}, attempts : 0 .. Attempts]
    /\ unread \subseteq 1 .. MaxUids /\ before \in 0 .. MaxUids
    /\ breaks \in 0 .. MaxBreaks

\* Every message below the mark is in the inbox, unless it could not be processed or is
\* older than the first run's catch-up; and none is announced twice.  So it is whatever
\* polls overlap, stop at a cap, break off, die or write back an older mark.
MailTakenOnce ==
    /\ \A uid \in 1 .. mark :
         mailbox[uid] \in inbox \/ uid \in unread \/ uid <= before
    /\ \A m \in Mails : announced[m] <= 1

\* "Every 5 minutes, enqueue an inbox-imap poll job for each org": while polling is on, a
\* message that arrives is stored.
MailIsFetched ==
    \A uid \in 1 .. MaxUids, m \in Mails :
        uid <= Len(mailbox) /\ mailbox[uid] = m
            ~> m \in inbox \/ uid <= before \/ ~enabled

================================================================================
