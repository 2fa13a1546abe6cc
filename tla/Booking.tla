--------------------------------- MODULE Booking ---------------------------------
(***************************************************************************)
(* Appointments booked through a public page, and those of the staff:      *)
(* booking/booking.service.ts and appointments/appointments.service.ts.    *)
(*                                                                         *)
(* A visitor's appointment is pending until the emailed link is opened.    *)
(* Only scheduled ones hold their time.  Time is counted in half an        *)
(* appointment with its buffer, so starts one apart collide.               *)
(***************************************************************************)
EXTENDS Integers, FiniteSets

CONSTANTS Appointments,
          Staff,
          Clicks,        \* verifications in progress
          LastStart,     \* bound on start times
          MaxSimultaneous \* bound on verifications that begin beside another

VARIABLES
    page,         \* the staff member the booking page is bound to, or "none", "removed"
    appointment,  \* Appointments -> a row
    click,        \* what each verification holds
    rebound,      \* history: the page was bound to someone else, or deleted
    edited,       \* history: appointments the staff made or changed
    simultaneous  \* history: verifications that began beside another

bookingVars == <<page, appointment, click, rebound, edited, simultaneous>>

Unused  == [status |-> "none"]
NoClick == [pc |-> "idle"]
Starts  == 0 .. LastStart

Init ==
    /\ page = "none"
    /\ appointment = [a \in Appointments |-> Unused]
    /\ click = [k \in Clicks |-> NoClick]
    /\ rebound = FALSE /\ edited = {} /\ simultaneous = 0

Row(st, who, at) == [status |-> st, staff |-> who, start |-> at]

Put(a, row) == appointment' = [appointment EXCEPT ![a] = row]

InUse(a) == appointment[a].status \notin {"none", "deleted"}

Holds(b, who) == appointment[b].status = "scheduled" /\ appointment[b].staff = who

\* The intervals, widened by the buffer, overlap
Collides(s, t) == s - t \in -1 .. 1

\* Mutant: only an appointment with the same start time is in the way
TakenAtStart(a, who, at) ==
    \E b \in Appointments \ {a} : Holds(b, who) /\ appointment[b].start = at

Taken(a, who, at) ==
    \E b \in Appointments \ {a} : Holds(b, who) /\ Collides(appointment[b].start, at)

\* The partial unique index on (organization, staff, startTime) of scheduled rows
Indexed(a, who, at) ==
    \E b \in Appointments \ {a} : Holds(b, who) /\ appointment[b].start = at

--------------------------------------------------------------------------------
(* The page *)

PageCreate ==
    /\ page = "none"
    /\ page' \in Staff
    /\ UNCHANGED <<appointment, click, rebound, edited, simultaneous>>

\* update(), remove()
PageMoves ==
    /\ page \in Staff
    /\ page' \in (Staff \cup {"removed"}) \ {page}
    /\ rebound' = TRUE
    /\ UNCHANGED <<appointment, click, edited, simultaneous>>

--------------------------------------------------------------------------------
(* Visitors *)

\* book(): a free slot, checked again with the insert.  A pending row holds nothing, so
\* what happens between check and insert might as well happen after it.
Book(a) ==
    /\ page \in Staff /\ appointment[a] = Unused
    /\ \E at \in Starts : /\ ~Taken(a, page, at)
                          /\ Put(a, Row("pending", page, at))
    /\ UNCHANGED <<page, click, rebound, edited, simultaneous>>

\* The row of the token, which every pending row has and no verified one, and its page
VerifyRead(k, a) ==
    LET beside == \E j \in Clicks : click[j] # NoClick
        row    == appointment[a] IN
    /\ click[k] = NoClick
    /\ row.status = "pending"
    /\ page \in Staff
    /\ beside => simultaneous < MaxSimultaneous
    /\ simultaneous' = IF beside THEN simultaneous + 1 ELSE simultaneous
    /\ click' = [click EXCEPT ![k] = [pc |-> "check", for |-> a, at |-> row.start,
                                      with |-> page]]
    /\ UNCHANGED <<page, appointment, rebound, edited>>

\* The time as it was read, with the staff member of the page
VerifyCheck(k) ==
    LET c == click[k] IN
    /\ c.pc = "check"
    /\ click' = [click EXCEPT ![k] = IF Taken(c.for, c.with, c.at) THEN NoClick
                                     ELSE [pc |-> "write", for |-> c.for]]
    /\ UNCHANGED <<page, appointment, rebound, edited, simultaneous>>

\* Whatever the row has become; a deleted row or the index makes it fail
VerifyWrite(k) ==
    LET a == click[k].for
        row == appointment[a] IN
    /\ click[k].pc = "write"
    /\ IF InUse(a) /\ ~Indexed(a, row.staff, row.start)
         THEN Put(a, Row("scheduled", row.staff, row.start))
         ELSE UNCHANGED appointment
    /\ click' = [click EXCEPT ![k] = NoClick]
    /\ UNCHANGED <<page, rebound, edited, simultaneous>>

\* Expired, out of the window or the working hours, or a failing query
VerifyFails(k) ==
    /\ click[k] # NoClick
    /\ click' = [click EXCEPT ![k] = NoClick]
    /\ UNCHANGED <<page, appointment, rebound, edited, simultaneous>>

--------------------------------------------------------------------------------
(* The staff, and the older public endpoint *)

\* create() and bookFromPublic(): nothing but the index is in their way
Create(a) ==
    /\ appointment[a] = Unused
    /\ \E who \in Staff, at \in Starts : /\ ~Indexed(a, who, at)
                                         /\ Put(a, Row("scheduled", who, at))
    /\ edited' = edited \cup {a}
    /\ UNCHANGED <<page, click, rebound, simultaneous>>

\* A status other than scheduled is here as good as cancelled
Update(a) ==
    /\ InUse(a)
    /\ \E st \in {"scheduled", "cancelled"}, who \in Staff, at \in Starts :
         /\ st = "scheduled" => ~Indexed(a, who, at)
         /\ Put(a, Row(st, who, at))
    /\ edited' = edited \cup {a}
    /\ UNCHANGED <<page, click, rebound, simultaneous>>

Cancel(a) ==
    /\ InUse(a)
    /\ appointment' = [appointment EXCEPT ![a].status = "cancelled"]
    /\ UNCHANGED <<page, click, rebound, edited, simultaneous>>

Delete(a) ==
    /\ InUse(a)
    /\ Put(a, [status |-> "deleted"])
    /\ UNCHANGED <<page, click, rebound, edited, simultaneous>>

--------------------------------------------------------------------------------
Next ==
    \/ PageCreate \/ PageMoves
    \/ \E a \in Appointments : Book(a) \/ Create(a) \/ Update(a) \/ Cancel(a) \/ Delete(a)
    \/ \E k \in Clicks, a \in Appointments : VerifyRead(k, a)
    \/ \E k \in Clicks : VerifyCheck(k) \/ VerifyWrite(k) \/ VerifyFails(k)

Spec == Init /\ [][Next]_bookingVars

--------------------------------------------------------------------------------
(* Properties *)

RowType ==
    [status : {"none", "deleted"}] \cup
    [status : {"pending", "scheduled", "cancelled"}, staff : Staff,
     start : Starts]

TypeOK ==
    /\ page \in Staff \cup {"none", "removed"}
    /\ appointment \in [Appointments -> RowType]
    /\ click \in [Clicks -> {NoClick} \cup
                  [pc : {"check"}, for : Appointments, at : Starts, with : Staff] \cup
                  [pc : {"write"}, for : Appointments]]
    /\ rebound \in BOOLEAN /\ edited \subseteq Appointments
    /\ simultaneous \in 0 .. MaxSimultaneous

\* "First verifier wins": two appointments that visitors booked and nobody edited never
\* keep one staff member busy at the same time.  Verifications that overlap are kept
\* apart by the index if they start at the same time, and not if they merely overlap;
\* a page bound to someone else checks the wrong calendar, but the index still holds.
NoDoubleBooking ==
    \A a, b \in Appointments \ edited, who \in Staff :
        a # b /\ Holds(a, who) /\ Holds(b, who) =>
            /\ appointment[a].start # appointment[b].start
            /\ ~rebound /\ simultaneous = 0 =>
                 ~Collides(appointment[a].start, appointment[b].start)

================================================================================
