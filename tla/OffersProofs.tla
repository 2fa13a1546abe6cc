------------------------------- MODULE OffersProofs -------------------------------
(***************************************************************************)
(* Proofs about Booking, Quotes and Proposals as MCServices composes       *)
(* them, for any appointments, staff members, visitors, agents and         *)
(* requests, and any bounds.                                               *)
(***************************************************************************)
EXTENDS MCServices, FiniteSetTheorems, SequenceTheorems, WellFoundedInduction, TLAPS

\* Whatever part a behaviour is of, the rows of a service move as its own steps move them
LEMMA BookingMoves == [ServicesNext]_vars => [A!Next]_bookingRows
BY DEF ServicesNext, vars, BookingSteps, StockSteps, InboxSteps, RecordsRest

LEMMA QuoteMoves == [ServicesNext]_vars => [Q!Next]_quoteRows
BY DEF ServicesNext, vars, QuoteSteps, ProposalSteps, OffersRest

--------------------------------------------------------------------------------
(* Booking *)

UsedRow  == [status : {"pending", "scheduled", "cancelled"}, staff : Staff, start : A!Starts]
CheckRun == [pc : {"check"}, for : Appointments, at : A!Starts, with : Staff]
WriteRun == [pc : {"write"}, for : Appointments]

Clicking(k)  == click[k] # A!NoClick
Unedited(a)  == a \notin edited /\ A!InUse(a)
Scheduled(a) == appointment[a].status = "scheduled"

\* What the unique index keeps
IndexHolds ==
    \A a, b \in Appointments : a # b /\ Scheduled(a) /\ Scheduled(b)
                               /\ appointment[a].staff = appointment[b].staff
                                 => appointment[a].start # appointment[b].start

\* A page that was not bound to someone else has booked with its staff member only
BookedByPage ==
    ~rebound => \A a \in Appointments : Unedited(a) => page \in Staff /\ appointment[a].staff = page

\* What a verification read before its check still holds
ChecksCurrent ==
    \A k \in Clicks : Clicking(k) =>
        /\ appointment[click[k].for].status # "none"
        /\ click[k].pc = "check" /\ ~rebound =>
             /\ click[k].with = page
             /\ Unedited(click[k].for) => click[k].at = appointment[click[k].for].start

OneAtATime ==
    simultaneous = 0 => \A j, k \in Clicks : Clicking(j) /\ Clicking(k) => j = k

\* No appointment visitors have scheduled is in the way of a
HasItsTime(a) ==
    \A b \in Appointments \ {a} :
        Unedited(b) /\ Scheduled(b) => ~A!Collides(appointment[a].start, appointment[b].start)

\* Without a verification beside another, the ones scheduled have their time, and so has the
\* one a verification has checked and not written
KeptApart ==
    ~rebound /\ simultaneous = 0 =>
        /\ \A a \in Appointments : Unedited(a) /\ Scheduled(a) => HasItsTime(a)
        /\ \A k \in Clicks : click[k].pc = "write" /\ Unedited(click[k].for) => HasItsTime(click[k].for)

BookingInv ==
    A!TypeOK /\ IndexHolds /\ BookedByPage /\ ChecksCurrent /\ OneAtATime /\ KeptApart

\* What the rows and the verifications are, by the type invariant
LEMMA BookingFields ==
    ASSUME A!TypeOK
    PROVE  /\ LastStart \in Nat /\ MaxSimultaneous \in Nat /\ A!Starts \subseteq Nat
           /\ appointment \in [Appointments -> A!RowType]
           /\ \A a \in Appointments :
                /\ A!InUse(a) => appointment[a] \in UsedRow /\ appointment[a].start \in Nat
                /\ appointment[a].status \in {"pending", "scheduled", "cancelled"} => A!InUse(a)
           /\ click \in [Clicks -> {A!NoClick} \cup CheckRun \cup WriteRun]
           /\ \A k \in Clicks : Clicking(k) => /\ click[k] \in CheckRun \cup WriteRun
                                               /\ click[k].for \in Appointments
                                               /\ click[k].pc \in {"check", "write"}
           /\ \A k \in Clicks : /\ click[k].pc \in {"check", "write"} => Clicking(k)
                                /\ click[k].pc = "check" => click[k] \in CheckRun
           /\ simultaneous \in Nat
<1>1. LastStart \in Nat /\ MaxSimultaneous \in Nat
  BY ServicesBounds
<1>2. A!Starts \subseteq Nat
  BY <1>1 DEF A!Starts
<1>3. appointment \in [Appointments -> A!RowType]
  BY DEF A!TypeOK
<1>4. \A a \in Appointments :
        /\ A!InUse(a) => appointment[a] \in UsedRow /\ appointment[a].start \in Nat
        /\ appointment[a].status \in {"pending", "scheduled", "cancelled"} => A!InUse(a)
  BY <1>2, <1>3 DEF A!RowType, UsedRow, A!InUse
<1>5. click \in [Clicks -> {A!NoClick} \cup CheckRun \cup WriteRun]
  BY DEF A!TypeOK, CheckRun, WriteRun
<1>6. A!NoClick.pc \notin {"check", "write"}
  BY DEF A!NoClick
<1>7. \A k \in Clicks : Clicking(k) => /\ click[k] \in CheckRun \cup WriteRun
                                       /\ click[k].for \in Appointments
                                       /\ click[k].pc \in {"check", "write"}
  BY <1>5 DEF Clicking, CheckRun, WriteRun
<1>8. \A k \in Clicks : /\ click[k].pc \in {"check", "write"} => Clicking(k)
                        /\ click[k].pc = "check" => click[k] \in CheckRun
  BY <1>5, <1>6 DEF Clicking, CheckRun, WriteRun
<1> QED BY <1>1, <1>2, <1>3, <1>4, <1>5, <1>7, <1>8 DEF A!TypeOK

LEMMA BookingInit == A!Init => BookingInv
<1> SUFFICES ASSUME A!Init PROVE BookingInv
  OBVIOUS
<1>1. LastStart \in Nat /\ 0 \in 0 .. MaxSimultaneous
  BY ServicesBounds
<1>2. A!TypeOK
  BY <1>1 DEF A!Init, A!TypeOK, A!RowType, A!Unused
<1>3. \A k \in Clicks : ~Clicking(k)
  BY DEF A!Init, Clicking
<1>4. \A a \in Appointments : ~Unedited(a) /\ ~Scheduled(a)
  BY DEF A!Init, A!Unused, Unedited, Scheduled, A!InUse
<1>5. KeptApart
  BY <1>2, <1>3, <1>4, BookingFields DEF KeptApart
<1> QED BY <1>2, <1>3, <1>4, <1>5
     DEF BookingInv, IndexHolds, BookedByPage, ChecksCurrent, OneAtATime

\* The page gets its staff member, before which nothing was booked, or another one, which
\* is remembered
LEMMA PageStep ==
    ASSUME BookingInv, A!PageCreate \/ A!PageMoves
    PROVE  BookingInv'
<1>1. A!TypeOK /\ UNCHANGED <<appointment, click, edited, simultaneous>>
  BY DEF BookingInv, A!PageCreate, A!PageMoves
<1>2. page' \in Staff \cup {"none", "removed"} /\ rebound' \in BOOLEAN
  BY <1>1 DEF A!TypeOK, A!PageCreate, A!PageMoves
<1>3. A!TypeOK'
  BY <1>1, <1>2 DEF A!TypeOK
<1>4. IndexHolds' /\ OneAtATime'
  BY <1>1 DEF BookingInv, IndexHolds, OneAtATime, Scheduled, Clicking
<1>5. rebound' \/ (~rebound /\ page = "none")
  BY DEF A!PageCreate, A!PageMoves, BookingInv, A!TypeOK
<1>6. ~rebound' => \A a \in Appointments : ~Unedited(a)
  BY <1>5, StaffAreIds DEF BookingInv, BookedByPage
<1>7. ~rebound' => \A k \in Clicks : click[k].pc # "check"
  BY <1>1, <1>5, StaffAreIds, BookingFields DEF BookingInv, ChecksCurrent, CheckRun
<1>8. BookedByPage' /\ ChecksCurrent' /\ KeptApart'
  BY <1>1, <1>5, <1>6, <1>7
  DEF BookingInv, BookedByPage, ChecksCurrent, KeptApart, Unedited, Clicking, HasItsTime, A!InUse,
      Scheduled
<1> QED BY <1>3, <1>4, <1>8 DEF BookingInv

\* One row is written, under the index; if it was not edited it is not scheduled, and is a
\* new one of the page or keeps its staff member and time
LEMMA RowStep ==
    ASSUME BookingInv, NEW a \in Appointments, NEW new \in A!RowType, A!Put(a, new),
           new.status # "none",
           edited' \in {edited, edited \cup {a}},
           UNCHANGED <<page, click, rebound, simultaneous>>,
           new.status = "scheduled" => ~A!Indexed(a, new.staff, new.start),
           Unedited(a)' =>
               /\ new.status # "scheduled"
               /\ \/ Unedited(a) /\ new.staff = appointment[a].staff /\ new.start = appointment[a].start
                  \/ appointment[a].status = "none" /\ page \in Staff /\ new.staff = page
    PROVE  BookingInv'
<1>1. /\ A!TypeOK /\ appointment \in [Appointments -> A!RowType]
      /\ appointment' = [appointment EXCEPT ![a] = new]
      /\ \A k \in Clicks : Clicking(k) => click[k].for \in Appointments
      /\ \A k \in Clicks : click[k].pc \in {"check", "write"} => Clicking(k)
  BY BookingFields DEF BookingInv, A!Put
<1>2. \A b \in Appointments : appointment'[b] = IF b = a THEN new ELSE appointment[b]
  BY <1>1
<1>3. A!TypeOK'
  BY <1>1 DEF A!TypeOK
<1>4. \A b \in Appointments : b # a =>
        /\ appointment'[b] = appointment[b]
        /\ Unedited(b)' <=> Unedited(b)
        /\ Scheduled(b)' <=> Scheduled(b)
  BY <1>2 DEF Unedited, A!InUse, Scheduled
<1>5. IndexHolds'
  <2>1. ASSUME NEW b \in Appointments, b # a, Scheduled(a)', Scheduled(b),
               appointment[b].staff = new.staff
        PROVE  appointment[b].start # new.start
    BY <1>2, <2>1 DEF A!Indexed, A!Holds, Scheduled
  <2> QED BY <1>2, <1>4, <2>1 DEF BookingInv, IndexHolds
<1>6. BookedByPage'
  BY <1>2, <1>4 DEF BookingInv, BookedByPage
<1>7. ChecksCurrent'
  BY <1>1, <1>2, <1>4 DEF BookingInv, ChecksCurrent, Clicking
<1>8. OneAtATime'
  BY DEF BookingInv, OneAtATime, Clicking
<1>9. KeptApart'
  <2>1. SUFFICES ASSUME ~rebound, simultaneous = 0 PROVE KeptApart'
    BY DEF KeptApart
  <2>2. ASSUME NEW b \in Appointments, Unedited(b)',
               HasItsTime(b), Unedited(b)
        PROVE  HasItsTime(b)'
    <3>1. appointment'[b].start = appointment[b].start
      BY <1>2, <1>4, <2>2 DEF Unedited, A!InUse
    <3> QED BY <1>2, <1>4, <2>2, <3>1 DEF HasItsTime, Scheduled
  <2>3. \A b \in Appointments : Unedited(b)' /\ Scheduled(b)' => HasItsTime(b)'
    BY <1>2, <1>4, <2>1, <2>2 DEF BookingInv, KeptApart, Scheduled
  <2>4. ASSUME NEW k \in Clicks, click[k].pc = "write", Unedited(click[k].for)'
        PROVE  HasItsTime(click[k].for)'
    <3>1. Clicking(k) /\ click[k].for \in Appointments /\ appointment[click[k].for].status # "none"
      BY <1>1, <2>4 DEF BookingInv, ChecksCurrent
    <3>2. Unedited(click[k].for)
      BY <1>4, <2>4, <3>1
    <3> QED BY <2>1, <2>2, <2>4, <3>1, <3>2 DEF BookingInv, KeptApart
  <2> QED BY <2>3, <2>4 DEF KeptApart
<1> QED BY <1>3, <1>5, <1>6, <1>7, <1>8, <1>9 DEF BookingInv


LEMMA RowSteps ==
    ASSUME BookingInv, NEW a \in Appointments,
           A!Book(a) \/ A!Create(a) \/ A!Update(a) \/ A!Cancel(a) \/ A!Delete(a)
    PROVE  BookingInv'
<1>1. A!TypeOK /\ appointment \in [Appointments -> A!RowType]
  BY BookingFields DEF BookingInv
<1>2. ASSUME A!Book(a) PROVE BookingInv'
  <2>1. PICK at \in A!Starts : A!Put(a, A!Row("pending", page, at))
    BY <1>2 DEF A!Book
  <2> DEFINE new == A!Row("pending", page, at)
  <2>2. /\ new \in A!RowType /\ new.status = "pending" /\ new.staff = page /\ page \in Staff
        /\ appointment[a].status = "none"
    BY <1>2 DEF A!Book, A!Row, A!RowType, A!Unused
  <2> QED BY <1>2, <2>1, <2>2, RowStep DEF A!Book
<1>3. ASSUME A!Create(a) PROVE BookingInv'
  <2>1. PICK who \in Staff, at \in A!Starts :
          ~A!Indexed(a, who, at) /\ A!Put(a, A!Row("scheduled", who, at))
    BY <1>3 DEF A!Create
  <2> DEFINE new == A!Row("scheduled", who, at)
  <2>2. new \in A!RowType /\ new.status = "scheduled" /\ new.staff = who /\ new.start = at
    BY DEF A!Row, A!RowType
  <2>3. ~Unedited(a)'
    BY <1>3 DEF A!Create, Unedited
  <2> QED BY <1>3, <2>1, <2>2, <2>3, RowStep DEF A!Create
<1>4. ASSUME A!Update(a) PROVE BookingInv'
  <2>1. PICK st \in {"scheduled", "cancelled"}, who \in Staff, at \in A!Starts :
          /\ st = "scheduled" => ~A!Indexed(a, who, at)
          /\ A!Put(a, A!Row(st, who, at))
    BY <1>4 DEF A!Update
  <2> DEFINE new == A!Row(st, who, at)
  <2>2. new \in A!RowType /\ new.status = st /\ new.staff = who /\ new.start = at
    BY DEF A!Row, A!RowType
  <2>3. ~Unedited(a)'
    BY <1>4 DEF A!Update, Unedited
  <2> QED BY <1>4, <2>1, <2>2, <2>3, RowStep DEF A!Update
<1>5. ASSUME A!Cancel(a) PROVE BookingInv'
  <2> DEFINE new == [appointment[a] EXCEPT !.status = "cancelled"]
  <2>1. appointment[a] \in UsedRow
    BY <1>1, <1>5, BookingFields DEF A!Cancel
  <2>2. /\ new \in A!RowType /\ new.status = "cancelled"
        /\ new.staff = appointment[a].staff /\ new.start = appointment[a].start
    BY <2>1 DEF A!RowType, UsedRow
  <2>3. A!Put(a, new)
    BY <1>5 DEF A!Cancel, A!Put
  <2>4. Unedited(a)' => Unedited(a)
    BY <1>5 DEF A!Cancel, Unedited
  <2> QED BY <1>5, <2>2, <2>3, <2>4, RowStep DEF A!Cancel
<1>6. ASSUME A!Delete(a) PROVE BookingInv'
  <2> DEFINE new == [status |-> "deleted"]
  <2>1. new \in A!RowType /\ new.status = "deleted"
    BY DEF A!RowType
  <2>2. ~Unedited(a)'
    BY <1>1, <1>6 DEF A!Delete, A!Put, Unedited, A!InUse
  <2> QED BY <1>6, <2>1, <2>2, RowStep DEF A!Delete
<1> QED BY <1>2, <1>3, <1>4, <1>5, <1>6

\* A verification ends and writes nothing
LEMMA ClickEnds ==
    ASSUME BookingInv, NEW k \in Clicks, click' = [click EXCEPT ![k] = A!NoClick],
           UNCHANGED <<page, appointment, rebound, edited, simultaneous>>
    PROVE  BookingInv'
<1>1. A!TypeOK /\ click \in [Clicks -> {A!NoClick} \cup CheckRun \cup WriteRun]
      /\ \A j \in Clicks : click[j].pc \in {"check", "write"} => Clicking(j)
  BY BookingFields DEF BookingInv
<1>2. A!TypeOK'
  BY <1>1 DEF A!TypeOK, CheckRun, WriteRun
<1>3. \A j \in Clicks : /\ Clicking(j)' => Clicking(j) /\ click'[j] = click[j]
                        /\ click'[j].pc \in {"check", "write"} => Clicking(j)'
  BY <1>1 DEF Clicking, A!NoClick
<1>4. /\ \A a \in Appointments : Unedited(a)' <=> Unedited(a)
      /\ \A a \in Appointments : Scheduled(a)' <=> Scheduled(a)
      /\ \A a \in Appointments : HasItsTime(a)' <=> HasItsTime(a)
  BY DEF Unedited, A!InUse, Scheduled, HasItsTime
<1>5. IndexHolds' /\ BookedByPage'
  BY <1>4 DEF BookingInv, IndexHolds, BookedByPage
<1>6. ChecksCurrent' /\ OneAtATime'
  BY <1>1, <1>3, <1>4, BookingFields DEF BookingInv, ChecksCurrent, OneAtATime
<1>7. KeptApart'
  BY <1>1, <1>3, <1>4, BookingFields DEF BookingInv, KeptApart
<1> QED BY <1>2, <1>5, <1>6, <1>7 DEF BookingInv

\* The row as it is, and the staff member of the page
LEMMA ClickReads ==
    ASSUME BookingInv, NEW k \in Clicks, NEW a \in Appointments, A!VerifyRead(k, a)
    PROVE  BookingInv'
<1> DEFINE new == [pc |-> "check", for |-> a, at |-> appointment[a].start, with |-> page]
<1>1. /\ A!TypeOK /\ click \in [Clicks -> {A!NoClick} \cup CheckRun \cup WriteRun]
      /\ appointment[a].status = "pending" /\ page \in Staff /\ ~Clicking(k)
      /\ click' = [click EXCEPT ![k] = new]
      /\ UNCHANGED <<page, appointment, rebound, edited>>
  BY BookingFields DEF BookingInv, A!VerifyRead, Clicking
<1>2. appointment[a].start \in A!Starts
  BY <1>1, BookingFields DEF UsedRow
<1>3. /\ new \in CheckRun /\ new # A!NoClick /\ new.pc = "check" /\ new.for = a
      /\ new.at = appointment[a].start /\ new.with = page
  BY <1>1, <1>2 DEF CheckRun, A!NoClick
<1> HIDE DEF new
<1>4. /\ simultaneous' \in 0 .. MaxSimultaneous
      /\ simultaneous' = 0 => simultaneous = 0 /\ \A j \in Clicks : ~Clicking(j)
  BY <1>1, BookingFields DEF A!VerifyRead, Clicking, A!TypeOK
<1>5. A!TypeOK'
  <2>1. click' \in [Clicks -> {A!NoClick} \cup CheckRun \cup WriteRun]
    BY <1>1, <1>3
  <2> QED BY <1>1, <1>4, <2>1 DEF A!TypeOK, CheckRun, WriteRun
<1>6. \A j \in Clicks : click'[j] = IF j = k THEN new ELSE click[j]
  BY <1>1
<1>7. /\ \A b \in Appointments : Unedited(b)' <=> Unedited(b)
      /\ \A b \in Appointments : Scheduled(b)' <=> Scheduled(b)
      /\ \A b \in Appointments : HasItsTime(b)' <=> HasItsTime(b)
  BY <1>1 DEF Unedited, A!InUse, Scheduled, HasItsTime
<1>8. IndexHolds' /\ BookedByPage'
  BY <1>1, <1>7 DEF BookingInv, IndexHolds, BookedByPage
<1>9. ChecksCurrent'
  BY <1>1, <1>3, <1>6, <1>7, BookingFields DEF BookingInv, ChecksCurrent, Clicking
<1>10. OneAtATime'
  BY <1>3, <1>4, <1>6 DEF OneAtATime, Clicking
<1>11. KeptApart'
  BY <1>1, <1>3, <1>4, <1>6, <1>7, BookingFields DEF BookingInv, KeptApart
<1> QED BY <1>5, <1>8, <1>9, <1>10, <1>11 DEF BookingInv

\* Nothing in the way of the time that was read: a row nobody edited is still there
LEMMA ClickChecks ==
    ASSUME BookingInv, NEW k \in Clicks, A!VerifyCheck(k)
    PROVE  BookingInv'
<1> DEFINE c == click[k]
           new == [pc |-> "write", for |-> c.for]
<1>1. /\ A!TypeOK /\ click \in [Clicks -> {A!NoClick} \cup CheckRun \cup WriteRun]
      /\ Clicking(k) /\ c \in CheckRun /\ c.for \in Appointments /\ c.pc = "check"
      /\ UNCHANGED <<page, appointment, rebound, edited, simultaneous>>
  BY BookingFields DEF BookingInv, A!VerifyCheck, CheckRun
<1>2. CASE A!Taken(c.for, c.with, c.at)
  BY <1>1, <1>2, ClickEnds DEF A!VerifyCheck
<1>3. CASE ~A!Taken(c.for, c.with, c.at)
  <2>1. click' = [click EXCEPT ![k] = new]
    BY <1>3 DEF A!VerifyCheck
  <2>2. new \in WriteRun /\ new # A!NoClick /\ new.pc = "write" /\ new.for = c.for
    BY <1>1 DEF WriteRun, A!NoClick
  <2> HIDE DEF new
  <2>3. A!TypeOK'
    <3>1. click' \in [Clicks -> {A!NoClick} \cup CheckRun \cup WriteRun]
      BY <1>1, <2>1, <2>2
    <3> QED BY <1>1, <3>1 DEF A!TypeOK, CheckRun, WriteRun
  <2>4. \A j \in Clicks : click'[j] = IF j = k THEN new ELSE click[j]
    BY <1>1, <2>1
  <2>5. /\ \A b \in Appointments : Unedited(b)' <=> Unedited(b)
        /\ \A b \in Appointments : Scheduled(b)' <=> Scheduled(b)
        /\ \A b \in Appointments : HasItsTime(b)' <=> HasItsTime(b)
    BY <1>1 DEF Unedited, A!InUse, Scheduled, HasItsTime
  <2>6. IndexHolds' /\ BookedByPage'
    BY <1>1, <2>5 DEF BookingInv, IndexHolds, BookedByPage
  <2>7. ChecksCurrent' /\ OneAtATime'
    BY <1>1, <2>2, <2>4, <2>5, BookingFields DEF BookingInv, ChecksCurrent, OneAtATime, Clicking
  <2>8. ~rebound /\ Unedited(c.for) => HasItsTime(c.for)
    <3>1. SUFFICES ASSUME ~rebound, Unedited(c.for), NEW b \in Appointments \ {c.for},
                          Unedited(b), Scheduled(b)
                   PROVE  ~A!Collides(appointment[c.for].start, appointment[b].start)
      BY DEF HasItsTime
    <3>2. c.with = page /\ c.at = appointment[c.for].start /\ appointment[b].staff = page
      BY <1>1, <3>1 DEF BookingInv, ChecksCurrent, BookedByPage
    <3>3. ~A!Collides(appointment[b].start, c.at)
      BY <1>3, <3>1, <3>2 DEF A!Taken, A!Holds, Scheduled
    <3>4. appointment[b].start \in Nat /\ appointment[c.for].start \in Nat
      BY <1>1, <3>1, BookingFields DEF Unedited
    <3> QED BY <3>2, <3>3, <3>4 DEF A!Collides
  <2>9. KeptApart'
    BY <1>1, <2>2, <2>4, <2>5, <2>8, BookingFields DEF BookingInv, KeptApart
  <2> QED BY <2>3, <2>6, <2>7, <2>9 DEF BookingInv
<1> QED BY <1>2, <1>3

\* The row is scheduled as it is now
LEMMA ClickWrites ==
    ASSUME BookingInv, NEW k \in Clicks, A!VerifyWrite(k), NEW a, a = click[k].for
    PROVE  BookingInv'
<1> DEFINE row0 == appointment[a]
           new == A!Row("scheduled", row0.staff, row0.start)
<1>1. /\ A!TypeOK /\ click \in [Clicks -> {A!NoClick} \cup CheckRun \cup WriteRun]
      /\ Clicking(k) /\ a \in Appointments /\ click[k].pc = "write"
      /\ appointment \in [Appointments -> A!RowType]
      /\ click' = [click EXCEPT ![k] = A!NoClick]
      /\ UNCHANGED <<page, rebound, edited, simultaneous>>
  BY BookingFields DEF BookingInv, A!VerifyWrite
<1>2. CASE UNCHANGED appointment
  BY <1>1, <1>2, ClickEnds
<1>3. ASSUME A!InUse(a), ~A!Indexed(a, row0.staff, row0.start), A!Put(a, new)
      PROVE  BookingInv'
  <2>1. /\ new \in A!RowType /\ new.status = "scheduled" /\ new.staff = row0.staff
        /\ new.start = row0.start /\ new.start \in Nat
    BY <1>1, <1>3, BookingFields DEF A!Row, A!RowType, UsedRow
  <2>2. \A b \in Appointments : appointment'[b] = IF b = a THEN new ELSE appointment[b]
    BY <1>1, <1>3 DEF A!Put
  <2> HIDE DEF new
  <2>3. /\ \A b \in Appointments : /\ b # a => appointment'[b] = appointment[b]
                                   /\ Unedited(b)' <=> Unedited(b)
                                   /\ b # a => (Scheduled(b)' <=> Scheduled(b))
        /\ Scheduled(a)'
    <3>1. A!InUse(a)' /\ Scheduled(a)'
      BY <1>1, <2>1, <2>2 DEF A!InUse, Scheduled
    <3>2. \A b \in Appointments \ {a} : /\ appointment'[b] = appointment[b]
                                        /\ A!InUse(b)' <=> A!InUse(b)
                                        /\ Scheduled(b)' <=> Scheduled(b)
      BY <2>2 DEF A!InUse, Scheduled
    <3> QED BY <1>1, <1>3, <3>1, <3>2 DEF Unedited
  <2>4. \A j \in Clicks : /\ Clicking(j)' => Clicking(j) /\ click'[j] = click[j] /\ j # k
                          /\ click'[j].pc \in {"check", "write"} => Clicking(j)'
    BY <1>1 DEF Clicking, A!NoClick
  <2>5. A!TypeOK'
    <3>1. /\ appointment' \in [Appointments -> A!RowType]
          /\ click' \in [Clicks -> {A!NoClick} \cup CheckRun \cup WriteRun]
      BY <1>1, <1>3, <2>1 DEF A!Put
    <3> QED BY <1>1, <3>1 DEF A!TypeOK, CheckRun, WriteRun
  <2>6. IndexHolds'
    <3>1. ASSUME NEW b \in Appointments, b # a, Scheduled(b), appointment[b].staff = new.staff
          PROVE  appointment[b].start # new.start
      BY <1>3, <2>1, <3>1 DEF A!Indexed, A!Holds, Scheduled
    <3> QED BY <2>1, <2>2, <2>3, <3>1 DEF BookingInv, IndexHolds
  <2>7. BookedByPage'
    BY <1>1, <2>1, <2>2, <2>3 DEF BookingInv, BookedByPage
  <2>8. OneAtATime'
    BY <1>1, <2>4 DEF BookingInv, OneAtATime
  <2>9. ChecksCurrent'
    <3>1. ASSUME NEW j \in Clicks, Clicking(j)'
          PROVE  /\ Clicking(j) /\ click'[j] = click[j] /\ click[j].for \in Appointments
                 /\ appointment'[click[j].for].status # "none"
                 /\ Unedited(click[j].for)' => Unedited(click[j].for)
                 /\ Unedited(click[j].for) =>
                      appointment'[click[j].for].start = appointment[click[j].for].start
      BY <1>1, <2>1, <2>2, <2>3, <2>4, <3>1, BookingFields DEF BookingInv, ChecksCurrent
    <3> QED BY <1>1, <3>1 DEF BookingInv, ChecksCurrent
  <2>10. KeptApart'
    <3>1. SUFFICES ASSUME ~rebound, simultaneous = 0 PROVE KeptApart'
      BY <1>1 DEF KeptApart
    <3>2. \A j \in Clicks : click'[j].pc # "write"
      BY <1>1, <2>4, <3>1 DEF BookingInv, OneAtATime
    <3>3. Unedited(a) => HasItsTime(a)
      BY <1>1, <3>1 DEF BookingInv, KeptApart
    <3>4. ASSUME NEW b \in Appointments, Unedited(b), b # a, Scheduled(b)
          PROVE  HasItsTime(b)
      BY <3>1, <3>4 DEF BookingInv, KeptApart
    <3>5. ASSUME NEW b \in Appointments, Unedited(b)', Scheduled(b)'
          PROVE  HasItsTime(b)'
      <4>1. SUFFICES ASSUME NEW d \in Appointments \ {b}, Unedited(d)', Scheduled(d)'
                     PROVE  ~A!Collides(appointment'[b].start, appointment'[d].start)
        BY DEF HasItsTime
      <4>2. /\ Unedited(b) /\ Unedited(d)
            /\ appointment'[b].start = appointment[b].start
            /\ appointment'[d].start = appointment[d].start
            /\ appointment[b].start \in Nat /\ appointment[d].start \in Nat
        BY <1>1, <2>1, <2>2, <2>3, <3>5, <4>1, BookingFields DEF Unedited
      <4>3. CASE b = a
        BY <2>3, <3>3, <4>1, <4>2, <4>3 DEF HasItsTime
      <4>4. CASE d = a
        <5>1. ~A!Collides(appointment[d].start, appointment[b].start)
          BY <2>3, <3>3, <3>5, <4>1, <4>2, <4>4 DEF HasItsTime
        <5> QED BY <4>2, <5>1 DEF A!Collides
      <4>5. CASE b # a /\ d # a
        BY <2>3, <3>4, <3>5, <4>1, <4>2, <4>5 DEF HasItsTime
      <4> QED BY <4>3, <4>4, <4>5
    <3> QED BY <3>2, <3>5 DEF KeptApart
  <2> QED BY <2>5, <2>6, <2>7, <2>8, <2>9, <2>10 DEF BookingInv
<1> QED BY <1>2, <1>3 DEF A!VerifyWrite

LEMMA BookingInvariant == ServicesSpec => []BookingInv
<1>1. ServicesInit => BookingInv
  BY BookingInit DEF ServicesInit
<1>2. BookingInv /\ UNCHANGED bookingRows => BookingInv'
  BY DEF BookingInv, bookingRows, A!TypeOK, IndexHolds, BookedByPage, ChecksCurrent, OneAtATime,
     KeptApart, HasItsTime, Unedited, Scheduled, Clicking, A!InUse
<1>3. ASSUME BookingInv, NEW k \in Clicks, A!VerifyFails(k) PROVE BookingInv'
  BY <1>3, ClickEnds DEF A!VerifyFails
<1>4. BookingInv /\ A!Next => BookingInv'
  BY <1>3, PageStep, RowSteps, ClickReads, ClickChecks, ClickWrites DEF A!Next
<1>5. BookingInv /\ [ServicesNext]_vars => BookingInv'
  BY <1>2, <1>4, BookingMoves
<1> QED BY <1>1, <1>5, PTL DEF ServicesSpec

\* "First verifier wins": appointments that visitors booked and nobody edited never begin at
\* the same time with one staff member, and do not overlap while no verification runs beside
\* another and the page keeps its staff member.
THEOREM NobodyIsDoubleBooked == ServicesSpec => []NoDoubleBooking
<1>1. ASSUME BookingInv PROVE A!NoDoubleBooking
  <2>1. SUFFICES ASSUME NEW a \in Appointments \ edited, NEW b \in Appointments \ edited,
                        NEW who \in Staff, a # b, A!Holds(a, who), A!Holds(b, who)
                 PROVE  /\ appointment[a].start # appointment[b].start
                        /\ ~rebound /\ simultaneous = 0 =>
                             ~A!Collides(appointment[a].start, appointment[b].start)
    BY DEF A!NoDoubleBooking
  <2>2. Unedited(a) /\ Unedited(b) /\ Scheduled(a) /\ Scheduled(b)
    BY <2>1 DEF A!Holds, Unedited, Scheduled, A!InUse
  <2>3. appointment[a].start # appointment[b].start
    BY <1>1, <2>1, <2>2 DEF BookingInv, IndexHolds, A!Holds
  <2>4. ~rebound /\ simultaneous = 0 => HasItsTime(a)
    BY <1>1, <2>2 DEF BookingInv, KeptApart
  <2> QED BY <2>1, <2>2, <2>3, <2>4 DEF HasItsTime
<1>2. BookingInv => NoDoubleBooking
  BY <1>1 DEF NoDoubleBooking
<1> QED BY <1>2, BookingInvariant, PTL

--------------------------------------------------------------------------------
(* Quotes *)

QuoteType == [status : {"none", "draft", "sent", "accepted", "rejected", "deleted"},
              version : Q!Versions, invoice : Q!Versions \cup {0}]

Serving    == {a \in Agents : agent[a] # Q!Free}
Converting == {a \in Agents : agent[a].pc = "convert"}

\* A request beside another is counted
ServedApart ==
    /\ IsFiniteSet(Serving) /\ Cardinality(Serving) <= 1 + crossings
    /\ crossings = 0 => \A a, b \in Serving : a = b

Pointed == IF quote.invoice # 0 THEN 1 ELSE 0

\* A quote that has its invoice is not read for conversion: an invoice beside that one, and
\* a conversion under way beside either, began beside another request
InvoicesCounted ==
    /\ spare <= crossings
    /\ spare + Cardinality(Converting) + Pointed <= 1 + crossings

\* What a request read still holds
AsRead(a) ==
    /\ agent[a].pc \in {"update", "remove"} => quote.status = "draft"
    /\ agent[a].pc = "move" => agent[a].to \in Q!Allowed(quote.status)
    /\ agent[a].pc = "convert" => Q!Convertible /\ agent[a].version = quote.version

\* While requests come one after the other: the invoice is of the lines that were sent
OneByOne ==
    crossings = 0 =>
        /\ \A a \in Serving : AsRead(a)
        /\ quote.invoice # 0 => quote.status = "accepted" /\ quote.invoice = sentAs
        /\ quote.status \notin {"none", "draft", "deleted"} => sentAs = quote.version

QuoteInv == Q!TypeOK /\ ServedApart /\ InvoicesCounted /\ OneByOne

\* What the quote and the requests are, by the type invariant
LEMMA QuoteFields ==
    ASSUME Q!TypeOK
    PROVE  /\ MaxVersions \in Nat /\ MaxCrossings \in Nat /\ Q!Versions \subseteq Nat
           /\ quote \in QuoteType /\ quote.version \in Q!Versions
           /\ agent \in [Agents -> Q!AgentType]
           /\ \A a \in Agents : agent[a].pc \in {"update", "remove", "move", "convert"} <=> a \in Serving
           /\ \A a \in Agents : agent[a].pc = "convert" => agent[a].version \in Q!Versions
           /\ \A a \in Agents : agent[a].pc = "move" => agent[a].to \in {"sent", "accepted", "rejected"}
           /\ Converting \subseteq Serving /\ crossings \in Nat
           /\ spare \in Nat /\ Pointed \in {0, 1}
<1>1. MaxVersions \in Nat /\ MaxCrossings \in Nat
  BY ServicesBounds
<1>2. Q!Versions \subseteq Nat
  BY <1>1 DEF Q!Versions
<1>3. quote \in QuoteType /\ quote.version \in Q!Versions
  BY DEF Q!TypeOK, QuoteType
<1>4. agent \in [Agents -> Q!AgentType]
  BY DEF Q!TypeOK
<1>5. \A a \in Agents : agent[a].pc \in {"update", "remove", "move", "convert"} <=> a \in Serving
  BY <1>4 DEF Q!AgentType, Q!Free, Serving
<1>6. \A a \in Agents : agent[a].pc = "convert" => agent[a].version \in Q!Versions
  BY <1>4 DEF Q!AgentType, Q!Free
<1>7. \A a \in Agents : agent[a].pc = "move" => agent[a].to \in {"sent", "accepted", "rejected"}
  BY <1>4 DEF Q!AgentType, Q!Free
<1> QED BY <1>1, <1>2, <1>3, <1>4, <1>5, <1>6, <1>7 DEF Q!TypeOK, Converting, Pointed

\* The conversions are some of the requests, which are finitely many
LEMMA QuoteCounts ==
    ASSUME Q!TypeOK, IsFiniteSet(Serving)
    PROVE  /\ IsFiniteSet(Converting)
           /\ Cardinality(Converting) \in Nat /\ Cardinality(Serving) \in Nat
           /\ Cardinality(Converting) <= Cardinality(Serving)
<1>1. Converting \subseteq Serving
  BY QuoteFields
<1> QED BY <1>1, FS_Subset, FS_CardinalityType

LEMMA QuoteInit == Q!Init => QuoteInv
<1> SUFFICES ASSUME Q!Init PROVE QuoteInv
  OBVIOUS
<1>1. MaxVersions \in Nat /\ MaxCrossings \in Nat /\ MaxVersions > 0
  BY ServicesBounds
<1>2. Q!TypeOK
  <2>1. 1 \in Q!Versions
    BY <1>1 DEF Q!Versions
  <2> QED BY <1>1, <2>1 DEF Q!Init, Q!TypeOK, Q!NotThere, Q!AgentType
<1>3. Serving = {} /\ Converting = {}
  BY <1>2, QuoteFields DEF Q!Init, Serving
<1>4. IsFiniteSet(Serving) /\ Cardinality(Serving) = 0 /\ Cardinality(Converting) = 0
  BY <1>3, FS_EmptySet
<1> QED BY <1>2, <1>3, <1>4
     DEF QuoteInv, ServedApart, InvoicesCounted, Pointed, OneByOne, Q!Init, Q!NotThere

\* A request begins
LEMMA RequestBegins ==
    ASSUME QuoteInv, NEW a \in Agents, NEW call \in Q!AgentType, call # Q!Free, Q!Begins(a, call)
    PROVE  /\ agent' \in [Agents -> Q!AgentType]
           /\ \A b \in Agents : agent'[b] = IF b = a THEN call ELSE agent[b]
           /\ Serving' = Serving \cup {a} /\ a \notin Serving
           /\ Converting' = IF call.pc = "convert" THEN Converting \cup {a} ELSE Converting
           /\ ServedApart' /\ crossings' \in 0 .. MaxCrossings /\ crossings' >= crossings
           /\ crossings' = 0 => crossings = 0 /\ Serving = {}
<1>1. /\ Q!TypeOK /\ agent \in [Agents -> Q!AgentType] /\ a \notin Serving /\ crossings \in Nat
      /\ MaxCrossings \in Nat /\ IsFiniteSet(Serving) /\ Cardinality(Serving) <= 1 + crossings
  BY QuoteFields DEF QuoteInv, ServedApart, Q!Begins, Serving
<1>2. /\ agent' \in [Agents -> Q!AgentType]
      /\ \A b \in Agents : agent'[b] = IF b = a THEN call ELSE agent[b]
  BY <1>1 DEF Q!Begins
<1>3. Serving' = Serving \cup {a}
  BY <1>2 DEF Serving
<1>4. Converting' = IF call.pc = "convert" THEN Converting \cup {a} ELSE Converting
  <2>1. agent[a].pc # "convert"
    BY <1>1, QuoteFields
  <2> QED BY <1>2, <2>1 DEF Converting
<1>5. /\ crossings' \in 0 .. MaxCrossings
      /\ Serving # {} => crossings' = crossings + 1
      /\ Serving = {} => crossings' = crossings
  BY <1>1 DEF Q!Begins, Serving, Q!TypeOK
<1>6. IsFiniteSet(Serving') /\ Cardinality(Serving') = Cardinality(Serving) + 1
  BY <1>1, <1>3, FS_AddElement
<1>7. Cardinality(Serving') <= 1 + crossings'
  <2>1. CASE Serving = {}
    BY <1>1, <1>5, <1>6, <2>1, FS_EmptySet
  <2>2. CASE Serving # {}
    BY <1>1, <1>5, <1>6, <2>2, FS_CardinalityType
  <2> QED BY <2>1, <2>2
<1>8. /\ crossings' = 0 => crossings = 0 /\ Serving = {}
      /\ crossings' >= crossings
  BY <1>1, <1>5
<1>9. ServedApart'
  BY <1>3, <1>6, <1>7, <1>8 DEF ServedApart
<1> QED BY <1>1, <1>2, <1>3, <1>4, <1>5, <1>8, <1>9

\* A request ends
LEMMA RequestEnds ==
    ASSUME QuoteInv, NEW a \in Serving, Q!Ends(a), UNCHANGED crossings
    PROVE  /\ agent' \in [Agents -> Q!AgentType]
           /\ a \in Agents /\ \A b \in Serving' : b \in Serving /\ b # a /\ agent'[b] = agent[b]
           /\ ServedApart'
           /\ Cardinality(Converting) \in Nat /\ Cardinality(Converting') \in Nat
           /\ Cardinality(Converting) = Cardinality(Converting')
                                        + (IF agent[a].pc = "convert" THEN 1 ELSE 0)
           /\ crossings = 0 => Serving' = {}
<1>1. /\ Q!TypeOK /\ agent \in [Agents -> Q!AgentType] /\ a \in Agents /\ crossings \in Nat
      /\ IsFiniteSet(Serving) /\ Cardinality(Serving) <= 1 + crossings
      /\ crossings = 0 => \A b, c \in Serving : b = c
  BY QuoteFields DEF QuoteInv, ServedApart, Serving
<1>2. /\ agent' \in [Agents -> Q!AgentType]
      /\ \A b \in Agents : agent'[b] = IF b = a THEN Q!Free ELSE agent[b]
  BY <1>1 DEF Q!Ends, Q!AgentType
<1>3. Serving' = Serving \ {a}
  BY <1>2 DEF Serving
<1>4. Converting' = Converting \ {a}
  BY <1>2 DEF Converting, Q!Free
<1>5. IsFiniteSet(Serving') /\ Cardinality(Serving') = Cardinality(Serving) - 1
  BY <1>1, <1>3, FS_RemoveElement
<1>6. /\ Cardinality(Converting) \in Nat /\ Cardinality(Converting') \in Nat
      /\ Cardinality(Converting) = Cardinality(Converting')
                                   + (IF agent[a].pc = "convert" THEN 1 ELSE 0)
  <2>1. IsFiniteSet(Converting) /\ Cardinality(Converting) \in Nat
    BY <1>1, QuoteCounts
  <2>2. IsFiniteSet(Converting') /\ Cardinality(Converting') \in Nat
    BY <1>4, <2>1, FS_RemoveElement, FS_CardinalityType
  <2>3. agent[a].pc = "convert" <=> a \in Converting
    BY <1>1 DEF Converting
  <2> QED BY <1>4, <2>1, <2>2, <2>3, FS_RemoveElement
<1>7. ServedApart'
  <2>1. Cardinality(Serving) \in Nat
    BY <1>1, FS_CardinalityType
  <2>2. Cardinality(Serving') <= 1 + crossings
    BY <1>1, <1>5, <2>1
  <2> QED BY <1>1, <1>3, <1>5, <2>2 DEF ServedApart
<1>8. crossings = 0 => Serving' = {}
  BY <1>1, <1>3
<1> QED BY <1>1, <1>2, <1>3, <1>6, <1>7, <1>8 DEF Serving

\* A reading: the quote has no invoice when it is read for conversion
LEMMA QuoteReads ==
    ASSUME QuoteInv, NEW a \in Agents, Q!EditRead(a) \/ Q!MoveRead(a) \/ Q!ConvertRead(a)
    PROVE  QuoteInv'
<1>1. /\ Q!TypeOK /\ UNCHANGED <<quote, spare, sentAs>> /\ crossings \in Nat
      /\ quote \in QuoteType /\ quote.version \in Q!Versions
      /\ spare \in Nat /\ Pointed \in {0, 1}
  BY QuoteFields DEF QuoteInv, Q!EditRead, Q!MoveRead, Q!ConvertRead
<1>2. PICK call \in Q!AgentType :
        /\ call # Q!Free /\ Q!Begins(a, call)
        /\ call.pc \in {"update", "remove"} => quote.status = "draft"
        /\ call.pc = "move" => call.to \in Q!Allowed(quote.status)
        /\ call.pc = "convert" => Q!Convertible /\ call.version = quote.version
        /\ call.pc \in {"update", "remove", "move", "convert"}
  <2>1. CASE Q!EditRead(a)
    BY <2>1 DEF Q!EditRead, Q!AgentType, Q!Free
  <2>2. CASE Q!MoveRead(a)
    <3>1. PICK to \in Q!Allowed(quote.status) \ {"expired"} : Q!Begins(a, [pc |-> "move", to |-> to])
      BY <2>2 DEF Q!MoveRead
    <3>2. to \in {"sent", "accepted", "rejected"}
      BY <3>1 DEF Q!Allowed
    <3> QED BY <3>1, <3>2 DEF Q!AgentType, Q!Free
  <2>3. CASE Q!ConvertRead(a)
    BY <1>1, <2>3 DEF Q!ConvertRead, Q!AgentType, Q!Free
  <2> QED BY <2>1, <2>2, <2>3
<1>3. /\ agent' \in [Agents -> Q!AgentType]
      /\ \A b \in Agents : agent'[b] = IF b = a THEN call ELSE agent[b]
      /\ Serving' = Serving \cup {a} /\ a \notin Serving
      /\ Converting' = IF call.pc = "convert" THEN Converting \cup {a} ELSE Converting
      /\ ServedApart' /\ crossings' \in 0 .. MaxCrossings /\ crossings' >= crossings
      /\ crossings' = 0 => crossings = 0 /\ Serving = {}
  BY <1>2, RequestBegins
<1>4. Q!TypeOK'
  BY <1>1, <1>3 DEF Q!TypeOK
<1>5. InvoicesCounted'
  <2>1. crossings' \in Nat /\ Pointed' = Pointed
    BY <1>1, <1>3, ServicesBounds DEF Pointed
  <2>2. /\ spare <= crossings /\ spare + Cardinality(Converting) + Pointed <= 1 + crossings
        /\ IsFiniteSet(Converting) /\ Cardinality(Converting) \in Nat
    BY QuoteCounts DEF QuoteInv, InvoicesCounted, ServedApart
  <2>3. CASE call.pc # "convert"
    BY <1>1, <1>3, <2>1, <2>2, <2>3 DEF InvoicesCounted
  <2>4. CASE call.pc = "convert"
    <3>1. Pointed = 0
      BY <1>2, <2>4 DEF Q!Convertible, Pointed
    <3>2. a \notin Converting
      BY <1>3, QuoteFields DEF QuoteInv
    <3>3. Cardinality(Converting') = Cardinality(Converting) + 1
      BY <1>3, <2>2, <2>4, <3>2, FS_AddElement
    <3>4. CASE Serving = {}
      <4>1. Cardinality(Converting) = 0
        BY <3>4, QuoteFields, FS_EmptySet DEF QuoteInv
      <4> QED BY <1>1, <1>3, <2>1, <2>2, <3>1, <3>3, <4>1 DEF InvoicesCounted
    <3>5. CASE Serving # {}
      <4>1. crossings' = crossings + 1
        BY <1>2, <3>5 DEF Q!Begins, Serving
      <4> QED BY <1>1, <2>1, <2>2, <3>1, <3>3, <4>1 DEF InvoicesCounted
    <3> QED BY <3>4, <3>5
  <2> QED BY <2>3, <2>4
<1>6. OneByOne'
  <2>1. SUFFICES ASSUME crossings' = 0 PROVE OneByOne'
    BY DEF OneByOne
  <2>2. Serving' = {a} /\ crossings = 0 /\ agent'[a] = call
    BY <1>3, <2>1
  <2>3. AsRead(a)'
    BY <1>1, <1>2, <2>2 DEF AsRead, Q!Convertible
  <2> QED BY <1>1, <2>2, <2>3 DEF QuoteInv, OneByOne
<1> QED BY <1>3, <1>4, <1>5, <1>6 DEF QuoteInv

\* A request ends without an invoice
LEMMA QuoteWrites ==
    ASSUME QuoteInv, NEW a \in Serving, Q!Ends(a), UNCHANGED <<spare, crossings>>,
           quote' \in QuoteType, sentAs' \in Q!Versions \cup {0},
           quote'.invoice = quote.invoice,
           crossings = 0 =>
               /\ quote.invoice # 0 => quote'.status = "accepted" /\ sentAs' = sentAs
               /\ quote'.status \notin {"none", "draft", "deleted"} => sentAs' = quote'.version
    PROVE  QuoteInv'
<1>1. Q!TypeOK
  BY DEF QuoteInv
<1>2. Q!TypeOK'
  BY <1>1, RequestEnds DEF Q!TypeOK, QuoteType
<1>3. Pointed' = Pointed
  BY DEF Pointed
<1>4. InvoicesCounted'
  <2>1. /\ Cardinality(Converting') <= Cardinality(Converting)
        /\ Cardinality(Converting) \in Nat /\ Cardinality(Converting') \in Nat
    <3>1. /\ Cardinality(Converting) \in Nat /\ Cardinality(Converting') \in Nat
          /\ Cardinality(Converting) = Cardinality(Converting')
                                       + (IF agent[a].pc = "convert" THEN 1 ELSE 0)
      BY RequestEnds
    <3> QED BY <3>1
  <2>2. crossings \in Nat /\ spare \in Nat /\ Pointed \in {0, 1}
    BY <1>1, QuoteFields
  <2> QED BY <1>3, <2>1, <2>2 DEF QuoteInv, InvoicesCounted
<1>5. OneByOne'
  BY RequestEnds DEF QuoteInv, OneByOne
<1> QED BY <1>2, <1>4, <1>5, RequestEnds DEF QuoteInv

LEMMA QuoteWriteSteps ==
    ASSUME QuoteInv, NEW a \in Agents,
           Q!UpdateWrite(a) \/ Q!RemoveWrite(a) \/ Q!MoveWrite(a) \/ Q!Fails(a)
    PROVE  QuoteInv'
<1>1. /\ Q!TypeOK /\ quote \in QuoteType /\ a \in Serving /\ Q!Ends(a)
      /\ sentAs \in Q!Versions \cup {0} /\ UNCHANGED <<spare, crossings>>
  BY QuoteFields
  DEF QuoteInv, Q!UpdateWrite, Q!RemoveWrite, Q!MoveWrite, Q!Fails, Q!TypeOK, Serving
<1>2. crossings = 0 =>
        /\ AsRead(a)
        /\ quote.invoice # 0 => quote.status = "accepted"
        /\ quote.status \notin {"none", "draft", "deleted"} => sentAs = quote.version
  BY <1>1 DEF QuoteInv, OneByOne
<1>3. CASE Q!UpdateWrite(a) /\ quote.status # "deleted"
  <2>1. /\ quote' = [quote EXCEPT !.version = @ + 1] /\ UNCHANGED sentAs
        /\ quote.version < MaxVersions /\ agent[a].pc = "update"
    BY <1>3 DEF Q!UpdateWrite
  <2>2. quote.version + 1 \in Q!Versions
    BY <1>1, <2>1, QuoteFields DEF Q!Versions
  <2>3. quote' \in QuoteType /\ quote'.invoice = quote.invoice /\ quote'.status = quote.status
    BY <1>1, <2>1, <2>2 DEF QuoteType
  <2>4. crossings = 0 => quote.status = "draft"
    BY <1>2, <2>1 DEF AsRead
  <2> QED BY <1>1, <1>2, <2>1, <2>3, <2>4, QuoteWrites
<1>4. CASE Q!RemoveWrite(a)
  <2>1. /\ quote' \in QuoteType /\ quote'.invoice = quote.invoice
        /\ quote'.status = "deleted" /\ UNCHANGED sentAs
    BY <1>1, <1>4 DEF Q!RemoveWrite, QuoteType
  <2>2. crossings = 0 => quote.status = "draft"
    BY <1>2, <1>4 DEF AsRead, Q!RemoveWrite
  <2> QED BY <1>1, <1>2, <2>1, <2>2, QuoteWrites
<1>5. CASE Q!MoveWrite(a) /\ quote.status # "deleted"
  <2> DEFINE to == agent[a].to
  <2>1. /\ agent[a].pc = "move" /\ to \in {"sent", "accepted", "rejected"}
        /\ quote' = [quote EXCEPT !.status = to]
        /\ sentAs' = IF to = "sent" THEN quote.version ELSE sentAs
    BY <1>1, <1>5, QuoteFields DEF Q!MoveWrite
  <2>2. /\ quote' \in QuoteType /\ quote'.invoice = quote.invoice
        /\ quote'.status = to /\ quote'.version = quote.version
        /\ quote.version \in Q!Versions
    BY <1>1, <2>1 DEF QuoteType
  <2>3. crossings = 0 => /\ quote.status # "accepted"
                         /\ to = "sent" \/ quote.status = "sent"
    BY <1>2, <2>1 DEF AsRead, Q!Allowed
  <2> QED BY <1>1, <1>2, <2>1, <2>2, <2>3, QuoteWrites
<1>6. CASE UNCHANGED <<quote, sentAs>>
  BY <1>1, <1>2, <1>6, QuoteWrites
<1> QED BY <1>3, <1>4, <1>5, <1>6 DEF Q!UpdateWrite, Q!RemoveWrite, Q!MoveWrite, Q!Fails

\* The invoice: the quote points to it, maybe in place of another
LEMMA QuoteConverts ==
    ASSUME QuoteInv, NEW a \in Agents, Q!ConvertWrite(a)
    PROVE  QuoteInv'
<1>1. /\ Q!TypeOK /\ quote \in QuoteType /\ a \in Serving /\ Q!Ends(a)
      /\ agent[a].pc = "convert" /\ agent[a].version \in Q!Versions
      /\ UNCHANGED <<sentAs, crossings>> /\ spare \in Nat /\ crossings \in Nat
      /\ sentAs \in Q!Versions \cup {0} /\ Pointed \in {0, 1} /\ Q!Versions \subseteq Nat
  BY QuoteFields DEF QuoteInv, Q!ConvertWrite, Q!TypeOK
<1>2. CASE quote.status = "deleted"
  <2>1. UNCHANGED <<quote, spare>>
    BY <1>2 DEF Q!ConvertWrite
  <2>2. crossings = 0 => quote.invoice = 0
    BY <1>2 DEF QuoteInv, OneByOne
  <2> QED BY <1>1, <1>2, <2>1, <2>2, QuoteWrites
<1>3. CASE quote.status # "deleted"
  <2>1. PICK v \in Q!Versions : /\ v = agent[a].version
                                /\ quote' = [quote EXCEPT !.invoice = v]
                                /\ spare' = IF quote.invoice = 0 THEN spare ELSE spare + 1
    BY <1>1, <1>3 DEF Q!ConvertWrite
  <2>2. /\ quote' \in QuoteType /\ quote'.invoice = v /\ quote'.status = quote.status
        /\ quote'.version = quote.version
    BY <1>1, <2>1 DEF QuoteType
  <2>3. v # 0
    BY QuoteFields DEF QuoteInv, Q!Versions
  <2>4. Q!TypeOK'
    BY <1>1, <2>1, <2>2, RequestEnds DEF Q!TypeOK, QuoteType
  <2>5. /\ Cardinality(Converting) \in Nat /\ Cardinality(Converting') \in Nat
        /\ Cardinality(Converting) = Cardinality(Converting') + 1
    BY <1>1, RequestEnds
  <2>6. spare' + Pointed' = spare + Pointed + (IF quote.invoice = 0 THEN 1 ELSE Pointed)
    BY <1>1, <2>1, <2>2, <2>3 DEF Pointed
  <2>7. InvoicesCounted'
    <3>1. spare <= crossings /\ spare + Cardinality(Converting) + Pointed <= 1 + crossings
      BY DEF QuoteInv, InvoicesCounted
    <3>2. CASE quote.invoice = 0
      <4>1. Pointed = 0 /\ Pointed' = 1 /\ spare' = spare
        BY <2>1, <2>2, <2>3, <3>2 DEF Pointed
      <4> QED BY <1>1, <2>5, <3>1, <4>1 DEF InvoicesCounted
    <3>3. CASE quote.invoice # 0
      <4>1. Pointed = 1 /\ Pointed' = 1 /\ spare' = spare + 1
        BY <2>1, <2>2, <2>3, <3>3 DEF Pointed
      <4> QED BY <1>1, <2>5, <3>1, <4>1 DEF InvoicesCounted
    <3> QED BY <3>2, <3>3
  <2>8. OneByOne'
    <3>1. SUFFICES ASSUME crossings = 0 PROVE OneByOne'
      BY <1>1 DEF OneByOne
    <3>2. /\ AsRead(a)
          /\ quote.status \notin {"none", "draft", "deleted"} => sentAs = quote.version
      BY <1>1, <3>1 DEF QuoteInv, OneByOne
    <3>3. quote.status = "accepted" /\ v = quote.version /\ sentAs = v
      BY <1>1, <2>1, <3>2 DEF AsRead, Q!Convertible
    <3>4. Serving' = {}
      BY <1>1, <3>1, RequestEnds
    <3> QED BY <1>1, <2>2, <3>3, <3>4 DEF OneByOne
  <2> QED BY <1>1, <2>4, <2>7, <2>8, RequestEnds DEF QuoteInv
<1> QED BY <1>2, <1>3

\* An invoice goes, and with it what the quote says of it
LEMMA QuoteLosesInvoice ==
    ASSUME QuoteInv, Q!InvoiceDeleted
    PROVE  QuoteInv'
<1>1. /\ Q!TypeOK /\ quote \in QuoteType /\ spare \in Nat /\ crossings \in Nat
      /\ Pointed \in {0, 1} /\ UNCHANGED <<agent, sentAs, crossings>>
      /\ Cardinality(Converting) \in Nat
  BY QuoteFields, QuoteCounts DEF QuoteInv, Q!InvoiceDeleted, ServedApart
<1>2. \/ quote.invoice # 0 /\ quote' = [quote EXCEPT !.invoice = 0] /\ UNCHANGED spare
      \/ spare > 0 /\ spare' = spare - 1 /\ UNCHANGED quote
  BY DEF Q!InvoiceDeleted
<1>3. /\ quote' \in QuoteType /\ quote'.status = quote.status /\ quote'.version = quote.version
      /\ quote'.invoice \in {0, quote.invoice}
  BY <1>1, <1>2 DEF QuoteType
<1>4. spare' \in Nat /\ spare' <= spare
  BY <1>1, <1>2
<1>5. Pointed' \in {0, 1} /\ Pointed' <= Pointed
  BY <1>3 DEF Pointed
<1>6. Serving' = Serving /\ Converting' = Converting
  BY <1>1 DEF Serving, Converting
<1>7. Q!TypeOK'
  BY <1>1, <1>3, <1>4 DEF Q!TypeOK, QuoteType
<1>8. InvoicesCounted'
  BY <1>1, <1>4, <1>5, <1>6 DEF QuoteInv, InvoicesCounted
<1>9. \A a \in Serving : AsRead(a) => AsRead(a)'
  BY <1>1, <1>3 DEF AsRead, Q!Convertible
<1> QED BY <1>1, <1>3, <1>6, <1>7, <1>8, <1>9 DEF QuoteInv, ServedApart, OneByOne

LEMMA QuoteInvariant == ServicesSpec => []QuoteInv
<1>1. ServicesInit => QuoteInv
  BY QuoteInit DEF ServicesInit
<1>2. QuoteInv /\ UNCHANGED quoteRows => QuoteInv'
  BY DEF QuoteInv, quoteRows, Q!TypeOK, ServedApart, InvoicesCounted, OneByOne, AsRead, Serving,
     Converting, Pointed, Q!Convertible
<1>3. ASSUME QuoteInv, Q!Create PROVE QuoteInv'
  <2>1. /\ quote' \in QuoteType /\ quote.status = "none" /\ quote'.status = "draft"
        /\ quote'.invoice = quote.invoice
        /\ UNCHANGED <<agent, spare, sentAs, crossings>>
    BY <1>3, QuoteFields DEF QuoteInv, Q!Create, QuoteType
  <2>2. Q!TypeOK'
    BY <1>3, <2>1 DEF QuoteInv, Q!TypeOK, QuoteType
  <2>3. Serving' = Serving /\ Converting' = Converting /\ Pointed' = Pointed
    BY <2>1 DEF Serving, Converting, Pointed
  <2>4. crossings = 0 => Serving = {} /\ quote.invoice = 0
    <3>1. ASSUME crossings = 0, NEW a \in Serving PROVE FALSE
      BY <1>3, <2>1, <3>1, QuoteFields
      DEF QuoteInv, OneByOne, AsRead, Q!Allowed, Q!Convertible, Serving
    <3> QED BY <1>3, <2>1, <3>1 DEF QuoteInv, OneByOne
  <2> QED BY <1>3, <2>1, <2>2, <2>3, <2>4
       DEF QuoteInv, ServedApart, InvoicesCounted, OneByOne
<1>4. QuoteInv /\ Q!Next => QuoteInv'
  BY <1>3, QuoteReads, QuoteWriteSteps, QuoteConverts, QuoteLosesInvoice DEF Q!Next
<1>5. QuoteInv /\ [ServicesNext]_vars => QuoteInv'
  BY <1>2, <1>4, QuoteMoves
<1> QED BY <1>1, <1>5, PTL DEF ServicesSpec

\* "Idempotent: refuses if convertedInvoiceId is already set": a quote has one invoice at a
\* time, whatever drafts are deleted between conversions, and one more at most for each
\* request that began beside another; while none does, it is of the lines the client was
\* sent, and of an accepted quote.
THEOREM QuoteInvoicedAsSent == ServicesSpec => []InvoicedAsSent
<1>1. QuoteInv => InvoicedAsSent
  BY DEF QuoteInv, InvoicesCounted, OneByOne, InvoicedAsSent, Q!InvoicedAsSent
<1> QED BY <1>1, QuoteInvariant, PTL

--------------------------------------------------------------------------------
(* Proposals and signatures *)

ProposalType == [status : {"none", "draft", "sent", "open", "revising", "declined", "accepted",
                           "deleted"},
                 signed : BOOLEAN]

SignatureRow == [kind : {"placeholder", "signature"}, revoked : BOOLEAN]

Asking(q) == request[q] # P!NoRequest

IsNewest(n) == n \in P!Active /\ \A k \in P!Active : k <= n

\* The row that revoke() and the PDF take is a signature
Covered == \E n \in P!Active : IsNewest(n) /\ signatures[n].kind = "signature"

Revoking == \E q \in Requests : request[q].pc = "revoked"

RowsAreThere == \A q \in Requests : request[q].pc = "revoke" => request[q].row \in 1 .. Len(signatures)

OneRequest == meetings = 0 => \A q, r \in Requests : Asking(q) /\ Asking(r) => q = r

\* While requests come one after the other and none is cut off: a signed proposal is covered
\* unless its signature is being revoked, a signature stays newest until it is written to the
\* proposal, and a view that found no row adds one to none
SignedHolds ==
    meetings = 0 /\ cut = 0 =>
        /\ P!There /\ proposal.signed /\ ~clicked => Covered \/ Revoking
        /\ \A q \in Requests : request[q].pc = "signed" => Covered
        /\ \A q \in Requests : request[q].pc = "view" => P!Active = {}

SignatureInv == P!TypeOK /\ RowsAreThere /\ OneRequest /\ SignedHolds

\* What the proposal, the rows and the requests are, by the type invariant
LEMMA SignatureFields ==
    ASSUME P!TypeOK
    PROVE  /\ MaxRows \in Nat /\ MaxMeetings \in Nat /\ MaxCut \in Nat
           /\ proposal \in ProposalType /\ proposal.signed \in BOOLEAN /\ clicked \in BOOLEAN
           /\ signatures \in Seq(SignatureRow) /\ Len(signatures) \in Nat
           /\ Len(signatures) <= MaxRows
           /\ \A n \in 1 .. Len(signatures) : signatures[n] \in SignatureRow
           /\ P!Active \subseteq 1 .. Len(signatures)
           /\ request \in [Requests -> P!RequestType] /\ meetings \in Nat /\ cut \in Nat
           /\ \A q \in Requests : Asking(q) <=>
                request[q].pc \in {"sign", "signed", "view", "revoked", "move", "revoke"}
<1>1. MaxRows \in Nat /\ MaxMeetings \in Nat /\ MaxCut \in Nat
  BY ServicesBounds
<1>2. proposal \in ProposalType /\ proposal.signed \in BOOLEAN /\ clicked \in BOOLEAN
  BY DEF P!TypeOK, ProposalType
<1>3. signatures \in Seq(SignatureRow) /\ Len(signatures) <= MaxRows
  BY DEF P!TypeOK, SignatureRow
<1>4. /\ Len(signatures) \in Nat
      /\ \A n \in 1 .. Len(signatures) : signatures[n] \in SignatureRow
  BY <1>3
<1>5. P!Active \subseteq 1 .. Len(signatures)
  BY DEF P!Active
<1>6. request \in [Requests -> P!RequestType]
  BY DEF P!TypeOK
<1>7. \A q \in Requests : Asking(q) <=>
        request[q].pc \in {"sign", "signed", "view", "revoked", "move", "revoke"}
  BY <1>6 DEF Asking, P!RequestType, P!NoRequest
<1> QED BY <1>1, <1>2, <1>3, <1>4, <1>5, <1>6, <1>7 DEF P!TypeOK

LEMMA ProposalMoves == [ServicesNext]_vars => [P!Next]_proposalRows
BY DEF ServicesNext, vars, QuoteSteps, ProposalSteps, OffersRest

LEMMA SignatureInit == P!Init => SignatureInv
<1> SUFFICES ASSUME P!Init PROVE SignatureInv
  OBVIOUS
<1>1. MaxRows \in Nat /\ MaxMeetings \in Nat /\ MaxCut \in Nat
  BY ServicesBounds
<1>2. signatures \in Seq(SignatureRow) /\ Len(signatures) = 0
  BY DEF P!Init
<1>3. P!TypeOK
  <2>1. /\ request \in [Requests -> P!RequestType] /\ clicked \in BOOLEAN
        /\ proposal \in ProposalType
    BY DEF P!Init, P!Missing, P!RequestType, ProposalType
  <2>2. Len(signatures) <= MaxRows /\ meetings \in 0 .. MaxMeetings /\ cut \in 0 .. MaxCut
    BY <1>1, <1>2 DEF P!Init
  <2> QED BY <1>2, <2>1, <2>2 DEF P!TypeOK, ProposalType, SignatureRow
<1>4. \A q \in Requests : ~Asking(q)
  BY DEF P!Init, Asking
<1>5. ~proposal.signed
  BY DEF P!Init, P!Missing
<1> QED BY <1>3, <1>4, <1>5, SignatureFields DEF SignatureInv, RowsAreThere, OneRequest, SignedHolds

\* A fresh row is the newest
LEMMA RowAppended ==
    ASSUME P!TypeOK, NEW kind \in {"placeholder", "signature"}, Len(signatures) < MaxRows,
           signatures' = Append(signatures, P!Row(kind))
    PROVE  /\ signatures' \in Seq(SignatureRow) /\ Len(signatures') = Len(signatures) + 1
           /\ Len(signatures') <= MaxRows
           /\ kind = "signature" => Covered'
<1> DEFINE last == Len(signatures) + 1
<1>1. P!Row(kind) \in SignatureRow /\ ~P!Row(kind).revoked /\ P!Row(kind).kind = kind
  BY DEF P!Row, SignatureRow
<1>2. /\ signatures' \in Seq(SignatureRow) /\ Len(signatures') = Len(signatures) + 1
      /\ Len(signatures') <= MaxRows /\ signatures'[last] = P!Row(kind) /\ Len(signatures) \in Nat
  BY <1>1, SignatureFields
<1>3. last \in P!Active' /\ \A k \in P!Active' : k <= last
  BY <1>1, <1>2 DEF P!Active
<1> QED BY <1>1, <1>2, <1>3 DEF Covered, IsNewest

\* Rows that are not revoked have a newest one: the fewest rows come after it
LEMMA LargestActive ==
    ASSUME P!TypeOK, P!Active # {}
    PROVE  \E n \in P!Active : \A k \in P!Active : k <= n
<1> DEFINE after == {Len(signatures) - n : n \in P!Active}
<1>1. P!Active \subseteq 1 .. Len(signatures) /\ Len(signatures) \in Nat
  BY SignatureFields
<1>2. after \subseteq Nat /\ after # {}
  BY <1>1
<1>3. PICK least \in after : \A other \in after : ~ (<<other, least>> \in OpToRel(<, Nat))
  BY <1>2, NatLessThanWellFounded, WFMin
<1>4. \A other \in after : ~ (other < least)
  BY <1>2, <1>3 DEF OpToRel
<1>5. PICK n \in P!Active : least = Len(signatures) - n
  BY <1>3
<1>6. \A k \in P!Active : ~ (Len(signatures) - k < Len(signatures) - n)
  BY <1>4, <1>5
<1> QED BY <1>1, <1>6

\* The proposal is created, or its status edited
LEMMA ProposalEdited ==
    ASSUME SignatureInv, P!Create \/ P!UpdateStatus
    PROVE  SignatureInv'
<1>1. P!TypeOK /\ proposal \in ProposalType /\ UNCHANGED <<signatures, request, clicked, meetings, cut>>
  BY SignatureFields DEF SignatureInv, P!Create, P!UpdateStatus
<1>2. /\ proposal' \in ProposalType /\ proposal'.signed = proposal.signed
      /\ P!There \/ ~proposal.signed
  <2>1. CASE P!Create
    BY <2>1 DEF P!Create, P!Missing, ProposalType
  <2>2. CASE P!UpdateStatus
    BY <1>1, <2>2 DEF P!UpdateStatus, ProposalType
  <2> QED BY <2>1, <2>2
<1>3. P!TypeOK'
  BY <1>1, <1>2 DEF P!TypeOK, ProposalType
<1>4. Covered' <=> Covered
  BY <1>1 DEF Covered, IsNewest, P!Active
<1> QED BY <1>1, <1>2, <1>3, <1>4
     DEF SignatureInv, RowsAreThere, OneRequest, SignedHolds, Revoking, Asking, P!Active

\* A request begins, with what it read
LEMMA AskingBegins ==
    ASSUME SignatureInv, NEW q \in Requests,
           P!MoveRead(q) \/ P!SignRead(q) \/ P!ViewRead(q) \/ P!RevokeRead(q)
    PROVE  SignatureInv'
<1>1. /\ P!TypeOK /\ UNCHANGED <<proposal, signatures, clicked, cut>> /\ meetings \in Nat
      /\ MaxMeetings \in Nat /\ request \in [Requests -> P!RequestType]
      /\ P!Active \subseteq 1 .. Len(signatures) /\ Len(signatures) \in Nat
      /\ Len(signatures) <= MaxRows /\ MaxRows \in Nat
  BY SignatureFields DEF SignatureInv, P!MoveRead, P!SignRead, P!ViewRead, P!RevokeRead
<1>2. PICK call \in P!RequestType :
        /\ call.pc \in {"move", "sign", "view", "revoke"} /\ P!Begins(q, call)
        /\ call.pc = "revoke" => call.row \in 1 .. Len(signatures)
        /\ call.pc = "view" => P!Active = {}
  <2>1. CASE P!MoveRead(q)
    BY <2>1 DEF P!MoveRead, P!RequestType
  <2>2. CASE P!SignRead(q)
    BY <2>2 DEF P!SignRead, P!RequestType
  <2>3. CASE P!ViewRead(q)
    BY <2>3 DEF P!ViewRead, P!RequestType
  <2>4. CASE P!RevokeRead(q)
    <3>1. \E n \in P!Active : \A k \in P!Active : k <= n
      BY <1>1, <2>4, LargestActive DEF P!RevokeRead
    <3>2. P!Newest \in P!Active
      BY <3>1 DEF P!Newest
    <3>3. P!Newest \in 1 .. Len(signatures) /\ P!Newest \in 1 .. MaxRows
      BY <1>1, <3>2
    <3> QED BY <2>4, <3>3 DEF P!RevokeRead, P!RequestType
  <2> QED BY <2>1, <2>2, <2>3, <2>4
<1>3. /\ request' = [request EXCEPT ![q] = call] /\ call # P!NoRequest /\ ~Asking(q)
      /\ meetings' \in 0 .. MaxMeetings
      /\ meetings' = 0 => meetings = 0 /\ \A r \in Requests : ~Asking(r)
  BY <1>1, <1>2 DEF P!Begins, Asking, P!TypeOK, P!NoRequest
<1>4. \A r \in Requests : request'[r] = IF r = q THEN call ELSE request[r]
  BY <1>1, <1>3
<1>5. P!TypeOK'
  BY <1>1, <1>2, <1>3 DEF P!TypeOK
<1>6. RowsAreThere' /\ OneRequest'
  BY <1>1, <1>2, <1>3, <1>4 DEF SignatureInv, RowsAreThere, OneRequest, Asking
<1>7. SignedHolds'
  <2>1. SUFFICES ASSUME meetings' = 0, cut = 0 PROVE SignedHolds'
    BY <1>1 DEF SignedHolds
  <2>2. ~Revoking /\ meetings = 0
    BY <1>1, <1>3, <2>1, SignatureFields DEF Revoking
  <2>3. \A r \in Requests : /\ request'[r].pc # "signed"
                            /\ request'[r].pc = "view" => P!Active = {}
    BY <1>1, <1>2, <1>3, <1>4, <2>1, SignatureFields
  <2>4. (Covered' <=> Covered) /\ P!Active' = P!Active /\ (P!There' <=> P!There)
    BY <1>1 DEF Covered, IsNewest, P!Active, P!There
  <2> QED BY <1>1, <2>1, <2>2, <2>3, <2>4 DEF SignatureInv, SignedHolds
<1> QED BY <1>5, <1>6, <1>7 DEF SignatureInv

\* A request that is alone, and what the others do when one of them moves
LEMMA RequestMoves ==
    ASSUME SignatureInv, NEW q \in Requests, Asking(q), NEW call \in P!RequestType,
           call.pc # "revoke", P!Goes(q, call)
    PROVE  /\ request' \in [Requests -> P!RequestType]
           /\ \A r \in Requests : request'[r] = IF r = q THEN call ELSE request[r]
           /\ UNCHANGED meetings /\ Len(signatures') >= Len(signatures) /\ Len(signatures') \in Nat
                => RowsAreThere' /\ OneRequest'
           /\ meetings = 0 => \A r \in Requests \ {q} :
                /\ request[r].pc \notin {"signed", "view", "revoked"}
                /\ request'[r].pc \notin {"signed", "view", "revoked"}
<1>1. /\ request \in [Requests -> P!RequestType] /\ Len(signatures) \in Nat
      /\ \A r \in Requests : request[r].pc \in {"signed", "view", "revoked"} => Asking(r)
  BY SignatureFields DEF SignatureInv
<1>2. /\ request' \in [Requests -> P!RequestType]
      /\ \A r \in Requests : request'[r] = IF r = q THEN call ELSE request[r]
  BY <1>1 DEF P!Goes
<1>3. meetings = 0 => \A r \in Requests \ {q} :
        /\ request[r].pc \notin {"signed", "view", "revoked"}
        /\ request'[r].pc \notin {"signed", "view", "revoked"}
  BY <1>1, <1>2 DEF SignatureInv, OneRequest
<1>4. ASSUME UNCHANGED meetings, Len(signatures') >= Len(signatures), Len(signatures') \in Nat
      PROVE  RowsAreThere' /\ OneRequest'
  <2>1. RowsAreThere'
    <3>1. ASSUME NEW r \in Requests, request'[r].pc = "revoke"
          PROVE  request'[r].row \in 1 .. Len(signatures')
      <4>1. r # q /\ request'[r] = request[r]
        BY <1>2, <3>1
      <4>2. request[r].row \in 1 .. Len(signatures)
        BY <3>1, <4>1 DEF SignatureInv, RowsAreThere
      <4> QED BY <1>1, <1>4, <4>1, <4>2
    <3> QED BY <3>1 DEF RowsAreThere
  <2>2. OneRequest'
    BY <1>2, <1>4 DEF SignatureInv, OneRequest, Asking
  <2> QED BY <2>1, <2>2
<1> QED BY <1>2, <1>3, <1>4

\* A request writes the proposal or nothing, and ends
LEMMA RequestIsOver ==
    ASSUME SignatureInv, NEW q \in Requests, Asking(q), P!Ends(q),
           UNCHANGED <<signatures, meetings>>, proposal' \in ProposalType, clicked' \in BOOLEAN,
           cut' \in 0 .. MaxCut, cut' = 0 => cut = 0,
           meetings = 0 /\ cut' = 0 /\ P!There' /\ proposal'.signed /\ ~clicked' =>
               \/ P!There /\ proposal.signed /\ ~clicked /\ request[q].pc # "revoked"
               \/ request[q].pc = "signed"
    PROVE  SignatureInv'
<1>1. P!TypeOK /\ Len(signatures) \in Nat
  BY SignatureFields DEF SignatureInv
<1>2. P!NoRequest \in P!RequestType /\ P!NoRequest.pc = "idle"
  BY DEF P!RequestType, P!NoRequest
<1>3. /\ request' \in [Requests -> P!RequestType]
      /\ \A r \in Requests : request'[r] = IF r = q THEN P!NoRequest ELSE request[r]
      /\ RowsAreThere' /\ OneRequest'
      /\ meetings = 0 => \A r \in Requests \ {q} :
                /\ request[r].pc \notin {"signed", "view", "revoked"}
                /\ request'[r].pc \notin {"signed", "view", "revoked"}
  BY <1>1, <1>2, RequestMoves DEF P!Ends
<1>4. P!TypeOK'
  BY <1>1, <1>3 DEF P!TypeOK, ProposalType
<1>5. SignedHolds'
  <2>1. SUFFICES ASSUME meetings = 0, cut' = 0 PROVE SignedHolds'
    BY DEF SignedHolds
  <2>2. Covered' <=> Covered
    BY DEF Covered, IsNewest, P!Active
  <2>3. \A r \in Requests : request'[r].pc \notin {"signed", "view", "revoked"}
    BY <1>2, <1>3, <2>1
  <2>4. Revoking => request[q].pc = "revoked"
    BY <1>3, <2>1 DEF Revoking
  <2> QED BY <2>1, <2>2, <2>3, <2>4 DEF SignatureInv, SignedHolds
<1> QED BY <1>3, <1>4, <1>5 DEF SignatureInv

LEMMA ProposalWrites ==
    ASSUME SignatureInv, NEW q \in Requests,
           P!MoveWrite(q) \/ P!SignDocument(q) \/ P!RevokeDocument(q) \/ P!Fails(q)
    PROVE  SignatureInv'
<1>1. /\ P!TypeOK /\ proposal \in ProposalType /\ clicked \in BOOLEAN /\ cut \in Nat
      /\ Asking(q) /\ P!Ends(q) /\ UNCHANGED <<signatures, meetings>> /\ MaxCut \in Nat
      /\ cut \in 0 .. MaxCut
  BY SignatureFields
  DEF SignatureInv, P!MoveWrite, P!SignDocument, P!RevokeDocument, P!Fails, Asking, P!TypeOK
<1>2. CASE P!MoveWrite(q)
  <2>1. /\ request[q].pc = "move" /\ UNCHANGED cut
        /\ request[q].call \in {"send", "delete", "open", "accept", "decline"}
    BY <1>1, <1>2, SignatureFields DEF P!MoveWrite, P!RequestType, P!NoRequest
  <2>2. /\ proposal' \in ProposalType /\ clicked' \in BOOLEAN
        /\ P!There' /\ proposal'.signed /\ ~clicked' => P!There /\ proposal.signed /\ ~clicked
    <3>1. CASE P!There
      <4>1. P!To(request[q].call) \in {"sent", "deleted", "open", "accepted", "declined"}
        BY DEF P!To
      <4>2. proposal.signed \in BOOLEAN
        BY SignatureFields, <1>1
      <4>3. CASE request[q].call = "accept"
        <5>1. proposal' = [status |-> P!To(request[q].call), signed |-> TRUE] /\ clicked' = TRUE
          BY <1>2, <3>1, <4>2, <4>3 DEF P!MoveWrite
        <5> QED BY <4>1, <5>1 DEF ProposalType
      <4>4. CASE request[q].call # "accept"
        <5>1. proposal' = [status |-> P!To(request[q].call), signed |-> proposal.signed]
          BY <1>2, <3>1, <4>2, <4>4 DEF P!MoveWrite
        <5>2. clicked' = clicked
          BY <1>1, <1>2, <3>1, <4>4 DEF P!MoveWrite
        <5> QED BY <1>1, <3>1, <4>1, <4>2, <5>1, <5>2 DEF ProposalType
      <4> QED BY <4>3, <4>4
    <3>2. CASE ~P!There
      BY <1>1, <1>2, <3>2 DEF P!MoveWrite, P!There
    <3> QED BY <3>1, <3>2
  <2> QED BY <1>1, <2>1, <2>2, RequestIsOver
<1>3. CASE P!SignDocument(q)
  <2>1. /\ request[q].pc = "signed" /\ UNCHANGED cut
    BY <1>1, <1>3 DEF P!SignDocument
  <2>2. proposal' \in ProposalType /\ clicked' \in BOOLEAN
    <3>1. [status |-> "accepted", signed |-> TRUE] \in ProposalType
      BY DEF ProposalType
    <3> QED BY <1>1, <1>3, <3>1 DEF P!SignDocument
  <2> QED BY <1>1, <2>1, <2>2, RequestIsOver
<1>4. CASE P!RevokeDocument(q)
  <2>1. P!Reverted \in ProposalType /\ ~P!Reverted.signed
    BY DEF P!Reverted, ProposalType
  <2>2. CASE P!There
    <3>1. UNCHANGED cut /\ proposal' = P!Reverted /\ clicked' = FALSE
      BY <1>4, <2>2 DEF P!RevokeDocument
    <3>2. cut' \in 0 .. MaxCut /\ proposal' \in ProposalType /\ ~proposal'.signed
      BY <1>1, <2>1, <3>1
    <3> QED BY <1>1, <3>1, <3>2, RequestIsOver
  <2>3. CASE ~P!There
    <3>1. UNCHANGED <<cut, proposal, clicked>> /\ ~P!There'
      BY <1>4, <2>3 DEF P!RevokeDocument, P!There
    <3> QED BY <1>1, <3>1, RequestIsOver
  <2> QED BY <2>2, <2>3
<1>5. CASE P!Fails(q)
  <2>1. /\ UNCHANGED <<proposal, clicked>> /\ cut' \in 0 .. MaxCut
        /\ cut' = 0 => cut = 0 /\ request[q].pc # "revoked"
    BY <1>1, <1>5 DEF P!Fails
  <2> QED BY <1>1, <2>1, RequestIsOver DEF P!There
<1> QED BY <1>2, <1>3, <1>4, <1>5

\* A row is made or revoked
LEMMA RowWrites ==
    ASSUME SignatureInv, NEW q \in Requests, P!SignRow(q) \/ P!ViewRow(q) \/ P!RevokeRow(q)
    PROVE  SignatureInv'
<1>1. /\ P!TypeOK /\ Asking(q) /\ UNCHANGED <<proposal, clicked, meetings, cut>>
      /\ signatures \in Seq(SignatureRow) /\ Len(signatures) \in Nat /\ Len(signatures) <= MaxRows
      /\ MaxRows \in Nat /\ (P!There' <=> P!There)
  BY SignatureFields DEF SignatureInv, P!SignRow, P!ViewRow, P!RevokeRow, P!There
<1>2. CASE P!SignRow(q)
  <2> DEFINE call == [pc |-> "signed"]
  <2>1. call \in P!RequestType /\ call.pc = "signed"
    BY DEF P!RequestType
  <2>2. /\ signatures' \in Seq(SignatureRow) /\ Len(signatures') = Len(signatures) + 1
        /\ Len(signatures') <= MaxRows /\ Covered'
    BY <1>1, <1>2, RowAppended DEF P!SignRow
  <2>3. /\ request' \in [Requests -> P!RequestType]
        /\ \A r \in Requests : request'[r] = IF r = q THEN call ELSE request[r]
        /\ RowsAreThere' /\ OneRequest'
        /\ meetings = 0 => \A r \in Requests \ {q} :
                request'[r].pc \notin {"signed", "view", "revoked"}
    BY <1>1, <1>2, <2>1, <2>2, RequestMoves DEF P!SignRow
  <2>4. P!TypeOK'
    BY <1>1, <2>2, <2>3 DEF P!TypeOK, SignatureRow
  <2>5. SignedHolds'
    BY <1>1, <2>1, <2>2, <2>3 DEF SignedHolds
  <2> QED BY <2>3, <2>4, <2>5 DEF SignatureInv
<1>3. CASE P!ViewRow(q)
  <2>1. P!NoRequest \in P!RequestType /\ P!NoRequest.pc = "idle"
    BY DEF P!RequestType, P!NoRequest
  <2>2. /\ signatures' \in Seq(SignatureRow) /\ Len(signatures') = Len(signatures) + 1
        /\ Len(signatures') <= MaxRows
    BY <1>1, <1>3, RowAppended DEF P!ViewRow
  <2>3. /\ request' \in [Requests -> P!RequestType]
        /\ \A r \in Requests : request'[r] = IF r = q THEN P!NoRequest ELSE request[r]
        /\ RowsAreThere' /\ OneRequest'
        /\ meetings = 0 => \A r \in Requests \ {q} :
                /\ request[r].pc \notin {"signed", "view", "revoked"}
                /\ request'[r].pc \notin {"signed", "view", "revoked"}
    BY <1>1, <1>3, <2>1, <2>2, RequestMoves DEF P!ViewRow, P!Ends
  <2>4. P!TypeOK'
    BY <1>1, <2>2, <2>3 DEF P!TypeOK, SignatureRow
  <2>5. meetings = 0 /\ cut = 0 => ~(P!There /\ proposal.signed /\ ~clicked)
    <3>1. SUFFICES ASSUME meetings = 0, cut = 0, P!There /\ proposal.signed /\ ~clicked PROVE FALSE
      OBVIOUS
    <3>2. request[q].pc = "view" /\ ~Revoking
      BY <1>3, <2>3, <3>1 DEF P!ViewRow, Revoking
    <3>3. P!Active = {} /\ Covered
      BY <3>1, <3>2 DEF SignatureInv, SignedHolds
    <3> QED BY <3>3 DEF Covered
  <2>6. SignedHolds'
    BY <1>1, <2>1, <2>3, <2>5 DEF SignedHolds
  <2> QED BY <2>3, <2>4, <2>6 DEF SignatureInv
<1>4. CASE P!RevokeRow(q)
  <2> DEFINE call == [pc |-> "revoked"]
  <2>1. call \in P!RequestType /\ call.pc = "revoked"
    BY DEF P!RequestType
  <2>2. PICK n \in 1 .. Len(signatures) : signatures' = [signatures EXCEPT ![n].revoked = TRUE]
    BY <1>4 DEF P!RevokeRow, SignatureInv, RowsAreThere
  <2>3. signatures' \in Seq(SignatureRow) /\ Len(signatures') = Len(signatures)
    <3>1. [signatures[n] EXCEPT !.revoked = TRUE] \in SignatureRow
      BY <1>1, <2>2, SignatureFields DEF SignatureRow
    <3>2. signatures' = [signatures EXCEPT ![n] = [signatures[n] EXCEPT !.revoked = TRUE]]
      BY <2>2
    <3> QED BY <1>1, <3>1, <3>2, ExceptSeq
  <2>4. /\ request' \in [Requests -> P!RequestType]
        /\ \A r \in Requests : request'[r] = IF r = q THEN call ELSE request[r]
        /\ RowsAreThere' /\ OneRequest'
        /\ meetings = 0 => \A r \in Requests \ {q} :
                request'[r].pc \notin {"signed", "view", "revoked"}
    BY <1>1, <1>4, <2>1, <2>3, RequestMoves DEF P!RevokeRow
  <2>5. P!TypeOK'
    BY <1>1, <2>3, <2>4 DEF P!TypeOK, SignatureRow
  <2>6. Revoking'
    BY <2>1, <2>4 DEF Revoking
  <2>7. SignedHolds'
    BY <1>1, <2>1, <2>4, <2>6 DEF SignedHolds
  <2> QED BY <2>4, <2>5, <2>7 DEF SignatureInv
<1> QED BY <1>2, <1>3, <1>4

LEMMA SignatureInvariant == ServicesSpec => []SignatureInv
<1>1. ServicesInit => SignatureInv
  BY SignatureInit DEF ServicesInit
<1>2. SignatureInv /\ UNCHANGED proposalRows => SignatureInv'
  BY DEF SignatureInv, proposalRows, P!TypeOK, RowsAreThere, OneRequest, SignedHolds, Covered,
     IsNewest, Revoking, Asking, P!Active, P!There
<1>3. SignatureInv /\ P!Next => SignatureInv'
  BY ProposalEdited, AskingBegins, ProposalWrites, RowWrites DEF P!Next
<1>4. SignatureInv /\ [ServicesNext]_vars => SignatureInv'
  BY <1>2, <1>3, ProposalMoves
<1> QED BY <1>1, <1>4, PTL DEF ServicesSpec

\* A signed proposal has a signature that holds, and it is the row that revoke() and the PDF
\* take; the "Accept" click, requests that overlap and requests that are cut off apart.
THEOREM SignedProposalIsCovered == ServicesSpec => []SignedIsCovered
<1>1. ASSUME SignatureInv PROVE P!SignedIsCovered
  <2>1. ASSUME Covered PROVE P!Active # {} /\ signatures[P!Newest].kind = "signature"
    <3>1. PICK n \in P!Active : IsNewest(n) /\ signatures[n].kind = "signature"
      BY <2>1 DEF Covered
    <3>2. P!Active \subseteq Nat
      BY <1>1, SignatureFields DEF SignatureInv
    <3>3. \A m \in P!Active : IsNewest(m) => m = n
      BY <3>1, <3>2 DEF IsNewest
    <3>4. P!Newest = n
      BY <3>1, <3>3 DEF P!Newest, IsNewest
    <3> QED BY <3>1, <3>4
  <2> QED BY <1>1, <2>1 DEF SignatureInv, SignedHolds, Revoking, P!SignedIsCovered
<1>2. SignatureInv => SignedIsCovered
  BY <1>1 DEF SignedIsCovered
<1> QED BY <1>2, SignatureInvariant, PTL
================================================================================
