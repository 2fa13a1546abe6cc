------------------------- MODULE WebhookDeliveryProofs -------------------------
(* Proofs about WebhookDelivery, for any webhooks, events, workers and bounds. *)
EXTENDS WebhookDelivery, FiniteSetTheorems, TLAPS

\* The row a job is about is one of the organization's.
LEMMA JobRow ==
    ASSUME NEW j \in JobIds
    PROVE  j[2] \in Rows
BY DEF JobIds

LEMMA RowOfIsRow ==
    ASSUME TypeOK, NEW w \in Workers, worker[w].pc /= "idle"
    PROVE  RowOf(w) \in Rows
BY JobRow DEF TypeOK, RowOf

LEMMA EmitTodo ==
    ASSUME TypeOK, NEW e \in Events
    PROVE  emit[e].todo \subseteq Hooks
BY DEF TypeOK, EmitType

LEMMA WorkerFields ==
    ASSUME TypeOK, NEW w \in Workers
    PROVE  worker[w] = [pc |-> worker[w].pc, job |-> worker[w].job,
                        attempt |-> worker[w].attempt, outcome |-> worker[w].outcome]
BY DEF TypeOK, WorkerType

LEMMA IdleType == Idle \in WorkerType
BY DEF Idle, WorkerType, Outcomes

LEMMA NoRowType == NoRow \in RowType /\ NewRow \in RowType
BY DEF NoRow, NewRow, RowType, Outcomes

LEMMA UpdatedType ==
    ASSUME NEW row \in RowType, NEW a \in Nat, NEW o \in Outcomes
    PROVE  Updated(row, a, o) \in RowType
<1>1. (IF Retries(a, o) THEN "later" ELSE "none") \in {"none", "now", "later"}
  OBVIOUS
<1>2. (IF o = "inactive" THEN row.succeeded ELSE o = "ok") \in BOOLEAN
  BY DEF RowType
<1>3. (IF o \in {"inactive", "deleted"} THEN row.attemptCount ELSE a) \in Nat
  BY DEF RowType
<1> QED BY <1>1, <1>2, <1>3 DEF Updated, RowType

LEMMA InitTypeOK == Init => TypeOK
<1> SUFFICES ASSUME Init PROVE TypeOK
  OBVIOUS
<1>1. emit \in [Events -> EmitType] /\ redeliver \in [Rows -> RedeliverType]
  BY BoundsAssumption DEF Init, EmitType, RedeliverType
<1> QED BY <1>1, AttemptsAssumption, BoundsAssumption, IdleType, NoRowType
        DEF Init, TypeOK, Idle

\* Every step keeps the shape.
LEMMA NextTypeOK == TypeOK /\ [Next]_vars => TypeOK'
<1> SUFFICES ASSUME TypeOK, [Next]_vars PROVE TypeOK'
  OBVIOUS
<1> USE AttemptsAssumption, BoundsAssumption
<1>1. CASE Dispatcher
  <2>1. ASSUME NEW e \in Events, EmitRead(e) PROVE TypeOK'
    <3>1. emit' \in [Events -> EmitType]
      BY <2>1 DEF TypeOK, EmitRead, EmitType
    <3> QED BY <2>1, <3>1 DEF TypeOK, EmitRead
  <2>2. ASSUME NEW e \in Events, EmitAddFails(e) PROVE TypeOK'
    <3>1. [pc |-> "done", todo |-> emit[e].todo, row |-> {}] \in EmitType
      BY EmitTodo DEF EmitType
    <3>2. emit' \in [Events -> EmitType]
      BY <2>2, <3>1 DEF TypeOK, EmitAddFails
    <3> QED BY <2>2, <3>2 DEF TypeOK, EmitAddFails, Fault
  <2>3. ASSUME NEW e \in Events, NEW h \in Hooks, EmitCreate(e, h) PROVE TypeOK'
    <3>1. <<e, h>> \in Rows
      BY DEF Rows
    <3>2. emit' \in [Events -> EmitType]
      <4>1. [pc |-> "add", todo |-> emit[e].todo \ {h}, row |-> {<<e, h>>}] \in EmitType
        BY <3>1, EmitTodo DEF EmitType
      <4>2. [emit[e] EXCEPT !.pc = "done"] \in EmitType
        BY DEF TypeOK, EmitType
      <4> QED BY <2>3, <4>1, <4>2 DEF TypeOK, EmitCreate
    <3>3. rows' \in [Rows -> RowType]
      BY <2>3, <3>1, NoRowType DEF TypeOK, EmitCreate
    <3> QED BY <2>3, <3>2, <3>3 DEF TypeOK, EmitCreate
  <2>4. ASSUME NEW e \in Events, NEW r \in Rows, EmitAdd(e, r) PROVE TypeOK'
    <3>1. [pc |-> AfterAdd(emit[e].todo), todo |-> emit[e].todo, row |-> {}] \in EmitType
      BY EmitTodo DEF EmitType, AfterAdd
    <3>2. emit' \in [Events -> EmitType]
      BY <2>4, <3>1 DEF TypeOK, EmitAdd
    <3> QED BY <2>4, <3>2 DEF TypeOK, EmitAdd, Add
  <2> QED BY <1>1, <2>1, <2>2, <2>3, <2>4 DEF Dispatcher
<1>2. CASE Processor
  <2>1. ASSUME NEW w \in Workers, NEW j \in JobIds, Take(w, j) PROVE TypeOK'
    <3>1. [Idle EXCEPT !.pc = "row", !.job = j] \in WorkerType
      BY DEF Idle, WorkerType, Outcomes
    <3> QED BY <2>1, <3>1 DEF TypeOK, Take, Idle
  <2>2. ASSUME NEW w \in Workers, ReadRow(w) PROVE TypeOK'
    <3>1. RowOf(w) \in Rows /\ worker[w].job \in JobIds
      BY <2>2, RowOfIsRow DEF ReadRow, TypeOK
    <3>2. rows[RowOf(w)].attemptCount \in Nat
      BY <3>1 DEF TypeOK, RowType
    <3>3. CASE Deliverable(RowOf(w))
      <4>1. worker' \in [Workers -> WorkerType]
        BY <2>2, <3>2, <3>3, WorkerFields DEF TypeOK, ReadRow, WorkerType
      <4>2. \A v \in Workers : worker'[v].pc /= "idle" => worker'[v].job \in JobIds
        BY <2>2, <3>1, <3>3 DEF TypeOK, ReadRow, WorkerType
      <4> QED BY <2>2, <3>3, <4>1, <4>2 DEF TypeOK, ReadRow
    <3>4. CASE ~Deliverable(RowOf(w))
      BY <2>2, <3>4, IdleType DEF TypeOK, ReadRow, Finish, Idle
    <3> QED BY <3>3, <3>4
  <2>3. ASSUME NEW w \in Workers, ReadHook(w) PROVE TypeOK'
    <3>1. RowOf(w) \in Rows /\ worker[w].job \in JobIds
      BY <2>3, RowOfIsRow DEF ReadHook, TypeOK
    <3>2. worker' \in [Workers -> WorkerType]
      BY <2>3 DEF TypeOK, ReadHook, WorkerType, Outcomes
    <3>3. tries' \in [Rows -> Nat]
      BY <2>3, <3>1 DEF TypeOK, ReadHook
    <3>4. \A v \in Workers : worker'[v].pc /= "idle" => worker'[v].job \in JobIds
      BY <2>3, <3>1 DEF TypeOK, ReadHook, WorkerType
    <3> QED BY <2>3, <3>2, <3>3, <3>4 DEF TypeOK, ReadHook
  <2>4. ASSUME NEW w \in Workers, Post(w) PROVE TypeOK'
    <3>1. RowOf(w) \in Rows /\ worker[w].job \in JobIds
      BY <2>4, RowOfIsRow DEF Post, TypeOK
    <3>2. worker' \in [Workers -> WorkerType]
      <4>1. \A o \in {"ok", "retry", "permanent"} :
              [worker[w] EXCEPT !.pc = "write", !.outcome = o] \in WorkerType
        BY DEF TypeOK, WorkerType, Outcomes
      <4> QED BY <2>4, <4>1 DEF TypeOK, Post
    <3>3. tries' \in [Rows -> Nat]
      BY <2>4, <3>1 DEF TypeOK, Post
    <3>4. \A v \in Workers : worker'[v].pc /= "idle" => worker'[v].job \in JobIds
      BY <2>4, <3>1 DEF TypeOK, Post, WorkerType
    <3> QED BY <2>4, <3>2, <3>3, <3>4 DEF TypeOK, Post
  <2>5. ASSUME NEW w \in Workers, Write(w) PROVE TypeOK'
    <3>1. RowOf(w) \in Rows /\ worker[w].job \in JobIds
      BY <2>5, RowOfIsRow DEF Write, TypeOK
    <3>2. Updated(rows[RowOf(w)], worker[w].attempt, worker[w].outcome) \in RowType
      <4>1. rows[RowOf(w)] \in RowType /\ worker[w] \in WorkerType
        BY <3>1 DEF TypeOK
      <4> QED BY <4>1, UpdatedType DEF WorkerType
    <3>3. rows' \in [Rows -> RowType]
      BY <2>5, <3>1, <3>2 DEF TypeOK, Write
    <3>4. worker' \in [Workers -> WorkerType]
      BY <2>5, IdleType DEF TypeOK, Write, Finish, WorkerType
    <3>5. \A v \in Workers : worker'[v].pc /= "idle" => worker'[v].job \in JobIds
      <4>1. CASE rows[RowOf(w)].there
        BY <2>5, <3>1, <4>1 DEF TypeOK, Write, WorkerType
      <4>2. CASE ~rows[RowOf(w)].there
        BY <2>5, <4>2 DEF TypeOK, Write, Finish, Idle
      <4> QED BY <4>1, <4>2
    <3>6. jobs' \in [JobIds -> {"absent", "delayed", "waiting", "active", "kept"}]
      BY <2>5 DEF TypeOK, Write, Finish
    <3> QED BY <2>5, <3>3, <3>4, <3>5, <3>6 DEF TypeOK, Write
  <2>6. ASSUME NEW w \in Workers, AddRetry(w) PROVE TypeOK'
    <3>1. worker' \in [Workers -> WorkerType]
      BY <2>6 DEF TypeOK, AddRetry, WorkerType
    <3>2. \A v \in Workers : worker'[v].pc /= "idle" => worker'[v].job \in JobIds
      BY <2>6 DEF TypeOK, AddRetry, WorkerType
    <3> QED BY <2>6, <3>1, <3>2 DEF TypeOK, AddRetry, Add
  <2>7. ASSUME NEW w \in Workers, Return(w) PROVE TypeOK'
    BY <2>7, IdleType DEF TypeOK, Return, Finish, Idle
  <2> QED BY <1>2, <2>1, <2>2, <2>3, <2>4, <2>5, <2>6, <2>7 DEF Processor
<1>3. CASE RetryScheduler
  <2>1. CASE SweepRead
    <3>1. \A r \in Rows : Due(r) => rows[r].attemptCount + 1 \in 0 .. MaxAttempts
      BY DEF TypeOK, Due, RowType
    <3> QED BY <2>1, <3>1 DEF TypeOK, SweepRead
  <2>2. CASE SweepAddFails
    BY <2>2 DEF TypeOK, SweepAddFails, Fault
  <2>3. ASSUME NEW r \in Rows, SweepAdd(r) PROVE TypeOK'
    <3>1. sweep' \in [Rows -> 0 .. MaxAttempts]
      BY <2>3 DEF TypeOK, SweepAdd
    <3> QED BY <2>3, <3>1 DEF TypeOK, SweepAdd, Add
  <2> QED BY <1>3, <2>1, <2>2, <2>3 DEF RetryScheduler
<1>4. CASE Admin
  <2>1. ASSUME NEW h \in Hooks, Create(h) PROVE TypeOK'
    BY <2>1 DEF TypeOK, Create
  <2>2. ASSUME NEW h \in Hooks, SetActive(h) PROVE TypeOK'
    BY <2>2 DEF TypeOK, SetActive
  <2>3. ASSUME NEW h \in Hooks, RotateSecret(h) PROVE TypeOK'
    BY <2>3 DEF TypeOK, RotateSecret
  <2>4. ASSUME NEW h \in Hooks, Remove(h) PROVE TypeOK'
    BY <2>4, NoRowType DEF TypeOK, Remove
  <2>5. ASSUME NEW r \in Rows, RedeliverWrite(r) PROVE TypeOK'
    <3>1. rows' \in [Rows -> RowType]
      <4> DEFINE back == [rows[r] EXCEPT !.succeeded = FALSE, !.next = "now"]
      <4>1. rows[r] \in RowType
        BY DEF TypeOK
      <4>2. back \in RowType
        BY <4>1 DEF RowType
      <4>3. rows' = [rows EXCEPT ![r] = back]
        BY <2>5 DEF RedeliverWrite
      <4> HIDE DEF back
      <4> QED BY <4>2, <4>3 DEF TypeOK
    <3>2. redeliver' \in [Rows -> RedeliverType]
      BY <2>5 DEF TypeOK, RedeliverWrite, RedeliverType
    <3> QED BY <2>5, <3>1, <3>2 DEF TypeOK, RedeliverWrite
  <2>6. ASSUME NEW r \in Rows, RedeliverAdd(r) PROVE TypeOK'
    <3>1. redeliver' \in [Rows -> RedeliverType]
      BY <2>6 DEF TypeOK, RedeliverAdd, RedeliverType
    <3> QED BY <2>6, <3>1 DEF TypeOK, RedeliverAdd, Add
  <2>7. ASSUME NEW r \in Rows, RedeliverAddFails(r) PROVE TypeOK'
    <3>1. redeliver' \in [Rows -> RedeliverType]
      BY <2>7 DEF TypeOK, RedeliverAddFails, RedeliverType
    <3> QED BY <2>7, <3>1 DEF TypeOK, RedeliverAddFails, Fault
  <2> QED BY <1>4, <2>1, <2>2, <2>3, <2>4, <2>5, <2>6, <2>7 DEF Admin
<1>5. CASE Clock
  <2>1. ASSUME NEW r \in Rows, BecomesDue(r) PROVE TypeOK'
    <3>1. rows' \in [Rows -> RowType]
      BY <2>1 DEF TypeOK, BecomesDue, RowType
    <3> QED BY <2>1, <3>1 DEF TypeOK, BecomesDue
  <2>2. ASSUME NEW j \in JobIds, DelayEnds(j) PROVE TypeOK'
    BY <2>2 DEF TypeOK, DelayEnds
  <2> QED BY <1>5, <2>1, <2>2 DEF Clock
<1>6. CASE Environment
  <2>1. CASE Flush
    BY <2>1 DEF TypeOK, Flush, Fault
  <2>2. ASSUME NEW w \in Workers, Crash(w) PROVE TypeOK'
    BY <2>2, IdleType DEF TypeOK, Crash, Fault, Idle
  <2>3. ASSUME NEW w \in Workers, Throws(w) PROVE TypeOK'
    BY <2>3, IdleType DEF TypeOK, Throws, Finish, Fault, Idle
  <2>4. ASSUME NEW j \in JobIds, Evict(j) PROVE TypeOK'
    BY <2>4 DEF TypeOK, Evict, Fault
  <2> QED BY <1>6, <2>1, <2>2, <2>3, <2>4 DEF Environment
<1>7. CASE UNCHANGED vars
  BY <1>7 DEF TypeOK, vars
<1> QED BY <1>1, <1>2, <1>3, <1>4, <1>5, <1>6, <1>7 DEF Next

\* The state keeps its shape: in particular the sweep never asks for an attempt past
\* MAX_ATTEMPTS and a busy worker always holds a job of some delivery.
THEOREM TypeInvariant == Spec => []TypeOK
BY InitTypeOK, NextTypeOK, PTL DEF Spec

--------------------------------------------------------------------------------
\* A step that leaves rows, webhooks, workers and the history alone keeps the invariant.
LEMMA InvUntouched ==
    ASSUME DeliveryInv, TypeOK', UNCHANGED <<rows, hook, worker, tries>>
    PROVE  DeliveryInv'
BY DEF DeliveryInv, DeletedHasNoRows, WorkerReads, ReadsHold, OwedRowIsScheduled,
       DeliveredIsUnscheduled, AttemptsWereMade, RowOf

\* So does one in which a worker only moves to a place with nothing left to write.
LEMMA InvWorkerMoves ==
    ASSUME DeliveryInv, TypeOK', UNCHANGED <<rows, hook, tries>>,
           NEW w \in Workers,
           \A v \in Workers \ {w} : worker'[v] = worker[v],
           worker'[w].pc \in {"idle", "row", "add", "end"}
    PROVE  DeliveryInv'
<1>1. ReadsHold(w)'
  BY DEF ReadsHold
<1>2. \A v \in Workers \ {w} : ReadsHold(v)'
  BY DEF DeliveryInv, WorkerReads, ReadsHold, RowOf
<1>3. WorkerReads'
  BY <1>1, <1>2 DEF WorkerReads
<1> QED BY <1>3 DEF DeliveryInv, DeletedHasNoRows, OwedRowIsScheduled,
                    DeliveredIsUnscheduled, AttemptsWereMade

\* A slot that goes idle is one of those.
LEMMA InvWorkerIdles ==
    ASSUME DeliveryInv, TypeOK', UNCHANGED <<rows, hook, tries>>,
           NEW w \in Workers, worker' = [worker EXCEPT ![w] = Idle]
    PROVE  DeliveryInv'
<1>1. worker'[w].pc = "idle" /\ \A v \in Workers \ {w} : worker'[v] = worker[v]
  BY DEF DeliveryInv, TypeOK, Idle
<1> QED BY <1>1, InvWorkerMoves

\* The row after an update is scheduled exactly if it is still owed, provided the
\* worker does not take the webhook of a living row for deleted.
LEMMA UpdatedRow ==
    ASSUME NEW row \in RowType, NEW a \in Nat, NEW o \in Outcomes,
           o /= "none", o /= "deleted"
    PROVE  LET new == Updated(row, a, o) IN
           /\ new.there = row.there
           /\ new.succeeded => new.next = "none"
           /\ new.next = "none" /\ ~new.succeeded
                => \/ new.last \in {"permanent", "inactive", "undecryptable"}
                   \/ new.attemptCount >= MaxAttempts
           /\ new.attemptCount = IF o = "inactive" THEN row.attemptCount ELSE a
<1> DEFINE new == Updated(row, a, o)
<1>1. /\ new.there = row.there
      /\ new.last = o
      /\ new.succeeded = IF o = "inactive" THEN row.succeeded ELSE o = "ok"
      /\ new.next = IF Retries(a, o) THEN "later" ELSE "none"
      /\ new.attemptCount = IF o \in {"inactive", "deleted"} THEN row.attemptCount ELSE a
  BY DEF Updated, RowType
<1>2. o \in {"ok", "retry", "permanent", "inactive", "undecryptable"}
  BY DEF Outcomes
<1>3. Retries(a, o) <=> o = "retry" /\ a < MaxAttempts
  BY DEF Retries
<1> HIDE DEF new
<1>4. new.succeeded => new.next = "none"
  BY <1>1, <1>2, <1>3
<1>5. new.next = "none" /\ ~new.succeeded
         => \/ new.last \in {"permanent", "inactive", "undecryptable"}
            \/ new.attemptCount >= MaxAttempts
  <2>1. CASE o = "retry"
    BY <2>1, <1>1, <1>3, AttemptsAssumption
  <2>2. CASE o = "ok"
    BY <2>2, <1>1
  <2>3. CASE o \in {"permanent", "inactive", "undecryptable"}
    BY <2>3, <1>1
  <2> QED BY <2>1, <2>2, <2>3, <1>2
<1> QED BY <1>1, <1>4, <1>5 DEF new

\* While a webhook lives, only the insert of emit() makes a row, and it is due.
LEMMA InvEmitCreate ==
    ASSUME DeliveryInv, TypeOK', NEW e \in Events, NEW h \in Hooks, EmitCreate(e, h)
    PROVE  DeliveryInv'
<1>1. CASE hook[h] = "deleted"
  BY <1>1, InvUntouched DEF EmitCreate
<1>2. CASE hook[h] /= "deleted"
  <2>1. <<e, h>> \in Rows /\ <<e, h>>[2] = h
    BY DEF Rows
  <2>2. rows' = [rows EXCEPT ![<<e, h>>] = NewRow] /\ UNCHANGED <<hook, worker, tries>>
    BY <1>2 DEF EmitCreate
  <2>3. NewRow.there /\ ~NewRow.succeeded /\ NewRow.next = "now" /\ NewRow.attemptCount = 0
    BY DEF NewRow, NoRow
  <2>4. \A r \in Rows : rows'[r] = IF r = <<e, h>> THEN NewRow ELSE rows[r]
    BY <2>1, <2>2 DEF DeliveryInv, TypeOK
  <2>5. DeletedHasNoRows'
    BY <1>2, <2>1, <2>2, <2>4 DEF DeliveryInv, DeletedHasNoRows
  <2>6. WorkerReads'
    BY <2>2 DEF DeliveryInv, WorkerReads, ReadsHold, RowOf
  <2>7. OwedRowIsScheduled' /\ DeliveredIsUnscheduled'
    BY <2>3, <2>4 DEF DeliveryInv, OwedRowIsScheduled, DeliveredIsUnscheduled
  <2>8. AttemptsWereMade'
    BY <2>2, <2>3, <2>4 DEF DeliveryInv, TypeOK, AttemptsWereMade
  <2> QED BY <2>5, <2>6, <2>7, <2>8 DEF DeliveryInv
<1> QED BY <1>1, <1>2

LEMMA InvReadRow ==
    ASSUME DeliveryInv, TypeOK', NEW w \in Workers, ReadRow(w)
    PROVE  DeliveryInv'
<1>1. CASE Deliverable(RowOf(w))
  <2>1. RowOf(w) \in Rows
    BY RowOfIsRow DEF ReadRow, DeliveryInv
  <2>2. /\ worker' = [worker EXCEPT ![w].pc = "hook",
                                    ![w].attempt = rows[RowOf(w)].attemptCount + 1]
        /\ UNCHANGED <<rows, hook, tries>>
    BY <1>1 DEF ReadRow
  <2>3. /\ rows[RowOf(w)].attemptCount <= tries[RowOf(w)]
        /\ rows[RowOf(w)].attemptCount \in Nat /\ tries[RowOf(w)] \in Nat
    BY <2>1 DEF DeliveryInv, AttemptsWereMade, TypeOK, RowType
  <2>4. \A v \in Workers \ {w} : worker'[v] = worker[v] /\ RowOf(v)' = RowOf(v)
    BY <2>2 DEF DeliveryInv, TypeOK, RowOf
  <2>5. /\ worker'[w].pc = "hook" /\ RowOf(w)' = RowOf(w)
        /\ worker'[w].attempt = rows[RowOf(w)].attemptCount + 1
    BY <2>2 DEF DeliveryInv, TypeOK, WorkerType, RowOf
  <2>6. WorkerReads'
    <3> SUFFICES ASSUME NEW v \in Workers PROVE ReadsHold(v)'
      BY DEF WorkerReads
    <3>1. CASE v = w
      BY <3>1, <2>2, <2>3, <2>5 DEF ReadsHold
    <3>2. CASE v /= w
      BY <3>2, <2>2, <2>4 DEF DeliveryInv, WorkerReads, ReadsHold
    <3> QED BY <3>1, <3>2
  <2> QED BY <2>2, <2>6 DEF DeliveryInv, DeletedHasNoRows, OwedRowIsScheduled,
                           DeliveredIsUnscheduled, AttemptsWereMade
<1>2. CASE ~Deliverable(RowOf(w))
  BY <1>2, InvWorkerIdles DEF ReadRow, Finish
<1> QED BY <1>1, <1>2

\* The two steps that count a try: the worker's attempt stays within the tries made.
LEMMA InvReadHook ==
    ASSUME DeliveryInv, TypeOK', NEW w \in Workers, ReadHook(w)
    PROVE  DeliveryInv'
<1>1. RowOf(w) \in Rows
  BY RowOfIsRow DEF ReadHook, DeliveryInv
<1>2. UNCHANGED <<rows, hook>>
  BY DEF ReadHook
<1>3. worker[w].attempt <= tries[RowOf(w)] + 1 /\ worker[w].attempt \in Nat
  BY DEF ReadHook, DeliveryInv, WorkerReads, ReadsHold, TypeOK, WorkerType
<1>4. \A r \in Rows : tries'[r] \in Nat /\ tries[r] \in Nat /\ tries[r] <= tries'[r]
  BY <1>1 DEF ReadHook, DeliveryInv, TypeOK
<1>5. \A v \in Workers \ {w} : worker'[v] = worker[v] /\ RowOf(v)' = RowOf(v)
  BY DEF ReadHook, DeliveryInv, TypeOK, RowOf
<1>6. RowOf(w)' = RowOf(w) /\ worker'[w].attempt = worker[w].attempt
  BY DEF ReadHook, DeliveryInv, TypeOK, WorkerType, RowOf
<1>7. \/ worker'[w].pc = "post"
      \/ /\ worker'[w].pc = "write" /\ worker'[w].outcome = "inactive"
      \/ /\ worker'[w].pc = "write" /\ worker'[w].outcome = "deleted"
         /\ hook[RowOf(w)[2]] = "deleted"
      \/ /\ worker'[w].pc = "write" /\ worker'[w].outcome = "undecryptable"
         /\ tries'[RowOf(w)] = tries[RowOf(w)] + 1
  BY <1>1 DEF ReadHook, DeliveryInv, TypeOK, WorkerType
<1>8. ReadsHold(w)'
  BY <1>1, <1>2, <1>3, <1>4, <1>6, <1>7 DEF ReadsHold
<1>9. \A v \in Workers \ {w} : ReadsHold(v)'
  <2> SUFFICES ASSUME NEW v \in Workers \ {w} PROVE ReadsHold(v)'
    OBVIOUS
  <2>1. ReadsHold(v) /\ worker[v].attempt \in Nat
    BY DEF DeliveryInv, WorkerReads, TypeOK, WorkerType
  <2>2. worker[v].pc /= "idle" => RowOf(v) \in Rows
    BY RowOfIsRow DEF DeliveryInv
  <2> QED BY <2>1, <2>2, <1>2, <1>4, <1>5 DEF ReadsHold
<1>10. WorkerReads'
  BY <1>8, <1>9 DEF WorkerReads
<1>11. AttemptsWereMade'
  BY <1>2, <1>4 DEF DeliveryInv, AttemptsWereMade, TypeOK, RowType
<1> QED BY <1>2, <1>10, <1>11
        DEF DeliveryInv, DeletedHasNoRows, OwedRowIsScheduled, DeliveredIsUnscheduled

LEMMA InvPost ==
    ASSUME DeliveryInv, TypeOK', NEW w \in Workers, Post(w)
    PROVE  DeliveryInv'
<1>1. RowOf(w) \in Rows
  BY RowOfIsRow DEF Post, DeliveryInv
<1>2. UNCHANGED <<rows, hook>> /\ tries' = [tries EXCEPT ![RowOf(w)] = @ + 1]
  BY DEF Post
<1>3. worker[w].attempt <= tries[RowOf(w)] + 1 /\ worker[w].attempt \in Nat
  BY DEF Post, DeliveryInv, WorkerReads, ReadsHold, TypeOK, WorkerType
<1>4. \A r \in Rows : tries'[r] \in Nat /\ tries[r] \in Nat /\ tries[r] <= tries'[r]
  BY <1>1, <1>2 DEF DeliveryInv, TypeOK
<1>5. \A v \in Workers \ {w} : worker'[v] = worker[v] /\ RowOf(v)' = RowOf(v)
  BY DEF Post, DeliveryInv, TypeOK, RowOf
<1>6. /\ RowOf(w)' = RowOf(w) /\ worker'[w].attempt = worker[w].attempt
      /\ worker'[w].pc = "write" /\ worker'[w].outcome \in {"ok", "retry", "permanent"}
  BY DEF Post, DeliveryInv, TypeOK, WorkerType, RowOf
<1>7. ReadsHold(w)'
  <2>1. tries'[RowOf(w)] = tries[RowOf(w)] + 1
    BY <1>1, <1>2 DEF DeliveryInv, TypeOK
  <2> QED BY <2>1, <1>3, <1>6 DEF ReadsHold
<1>8. \A v \in Workers \ {w} : ReadsHold(v)'
  <2> SUFFICES ASSUME NEW v \in Workers \ {w} PROVE ReadsHold(v)'
    OBVIOUS
  <2>1. ReadsHold(v) /\ worker[v].attempt \in Nat
    BY DEF DeliveryInv, WorkerReads, TypeOK, WorkerType
  <2>2. worker[v].pc /= "idle" => RowOf(v) \in Rows
    BY RowOfIsRow DEF DeliveryInv
  <2> QED BY <2>1, <2>2, <1>2, <1>4, <1>5 DEF ReadsHold
<1>9. WorkerReads'
  BY <1>7, <1>8 DEF WorkerReads
<1>10. AttemptsWereMade'
  BY <1>2, <1>4 DEF DeliveryInv, AttemptsWereMade, TypeOK, RowType
<1> QED BY <1>2, <1>9, <1>10
        DEF DeliveryInv, DeletedHasNoRows, OwedRowIsScheduled, DeliveredIsUnscheduled

\* The update itself, made from whatever the worker read before its POST.
LEMMA InvWrite ==
    ASSUME DeliveryInv, TypeOK', NEW w \in Workers, Write(w)
    PROVE  DeliveryInv'
<1> DEFINE r == RowOf(w)
           a == worker[w].attempt
           o == worker[w].outcome
           new == Updated(rows[r], a, o)
<1>1. r \in Rows
  BY RowOfIsRow DEF Write, DeliveryInv
<1>2. CASE ~rows[r].there
  <2>1. worker' = [worker EXCEPT ![w] = Idle] /\ UNCHANGED <<rows, hook, tries>>
    BY <1>2 DEF Write, Finish
  <2> QED BY <2>1, InvWorkerIdles
<1>3. CASE rows[r].there
  <2>1. /\ rows' = [rows EXCEPT ![r] = new]
        /\ worker' = [worker EXCEPT ![w].pc = IF Retries(a, o) THEN "add" ELSE "end"]
        /\ UNCHANGED <<hook, tries>>
    BY <1>3 DEF Write
  <2>2. rows[r] \in RowType /\ a \in Nat /\ o \in Outcomes
    BY <1>1 DEF DeliveryInv, TypeOK, WorkerType
  <2>3. o /= "none" /\ (o \notin {"deleted", "inactive"} => a <= tries[r])
    BY DEF Write, DeliveryInv, WorkerReads, ReadsHold
  <2>4. o /= "deleted"
    BY <1>1, <1>3 DEF Write, DeliveryInv, WorkerReads, ReadsHold, DeletedHasNoRows
  <2>5. /\ new.there = rows[r].there
        /\ new.succeeded => new.next = "none"
        /\ new.next = "none" /\ ~new.succeeded
             => \/ new.last \in {"permanent", "inactive", "undecryptable"}
                \/ new.attemptCount >= MaxAttempts
        /\ new.attemptCount = IF o = "inactive" THEN rows[r].attemptCount ELSE a
    BY <2>2, <2>3, <2>4, UpdatedRow
  <2>6. \A q \in Rows : rows'[q] = IF q = r THEN new ELSE rows[q]
    BY <1>1, <2>1 DEF DeliveryInv, TypeOK
  <2> HIDE DEF new, a, o, r
  <2>7. DeletedHasNoRows'
    BY <2>1, <2>5, <2>6 DEF DeliveryInv, DeletedHasNoRows
  <2>8. OwedRowIsScheduled' /\ DeliveredIsUnscheduled'
    BY <2>5, <2>6 DEF DeliveryInv, OwedRowIsScheduled, DeliveredIsUnscheduled
  <2>9. AttemptsWereMade'
    <3>1. new.attemptCount <= tries[r]
      BY <1>1, <2>3, <2>4, <2>5 DEF DeliveryInv, AttemptsWereMade
    <3> QED BY <3>1, <2>1, <2>6 DEF DeliveryInv, AttemptsWereMade
  <2>10. WorkerReads'
    <3> SUFFICES ASSUME NEW v \in Workers PROVE ReadsHold(v)'
      BY DEF WorkerReads
    <3>1. CASE v = w
      <4>1. worker'[w].pc \in {"add", "end"}
        BY <2>1 DEF DeliveryInv, TypeOK, WorkerType
      <4> QED BY <3>1, <4>1 DEF ReadsHold
    <3>2. CASE v /= w
      <4>1. worker'[v] = worker[v] /\ RowOf(v)' = RowOf(v)
        BY <3>2, <2>1 DEF DeliveryInv, TypeOK, RowOf
      <4> QED BY <4>1, <2>1 DEF DeliveryInv, WorkerReads, ReadsHold
    <3> QED BY <3>1, <3>2
  <2> QED BY <2>7, <2>8, <2>9, <2>10 DEF DeliveryInv
<1> QED BY <1>2, <1>3

\* The admin's calls: removal takes the rows along, the others keep every living row
\* scheduled or settled.
LEMMA InvAdminHooks ==
    ASSUME DeliveryInv, TypeOK', NEW h \in Hooks, Create(h) \/ SetActive(h)
    PROVE  DeliveryInv'
<1>1. UNCHANGED <<rows, worker, tries>>
  BY DEF Create, SetActive
<1>2. \A g \in Hooks : hook'[g] = "deleted" <=> hook[g] = "deleted"
  BY DEF Create, SetActive, DeliveryInv, TypeOK
<1>3. \A r \in Rows : r[2] \in Hooks
  BY DEF Rows
<1>4. DeletedHasNoRows'
  BY <1>1, <1>2, <1>3 DEF DeliveryInv, DeletedHasNoRows
<1>5. WorkerReads'
  <2> SUFFICES ASSUME NEW w \in Workers PROVE ReadsHold(w)'
    BY DEF WorkerReads
  <2>1. RowOf(w)' = RowOf(w)
    BY <1>1 DEF RowOf
  <2>2. worker[w].pc = "write" => RowOf(w)[2] \in Hooks
    BY <1>3, RowOfIsRow DEF DeliveryInv
  <2> QED BY <1>1, <1>2, <2>1, <2>2 DEF DeliveryInv, WorkerReads, ReadsHold
<1> QED BY <1>1, <1>4, <1>5
        DEF DeliveryInv, OwedRowIsScheduled, DeliveredIsUnscheduled, AttemptsWereMade

LEMMA InvRemove ==
    ASSUME DeliveryInv, TypeOK', NEW h \in Hooks, Remove(h)
    PROVE  DeliveryInv'
<1>1. /\ hook' = [hook EXCEPT ![h] = "deleted"] /\ UNCHANGED <<worker, tries>>
      /\ \A r \in Rows : rows'[r] = IF r[2] = h THEN NoRow ELSE rows[r]
  BY DEF Remove
<1>2. ~NoRow.there /\ ~NoRow.succeeded /\ NoRow.attemptCount = 0
  BY DEF NoRow
<1>3. \A g \in Hooks : hook'[g] = IF g = h THEN "deleted" ELSE hook[g]
  BY <1>1 DEF DeliveryInv, TypeOK
<1>4. \A r \in Rows : r[2] \in Hooks
  BY DEF Rows
<1>5. DeletedHasNoRows'
  BY <1>1, <1>2, <1>3, <1>4 DEF DeliveryInv, DeletedHasNoRows
<1>6. OwedRowIsScheduled' /\ DeliveredIsUnscheduled'
  BY <1>1, <1>2 DEF DeliveryInv, OwedRowIsScheduled, DeliveredIsUnscheduled
<1>7. AttemptsWereMade'
  BY <1>1, <1>2 DEF DeliveryInv, TypeOK, AttemptsWereMade
<1>8. WorkerReads'
  <2> SUFFICES ASSUME NEW w \in Workers PROVE ReadsHold(w)'
    BY DEF WorkerReads
  <2>1. RowOf(w)' = RowOf(w)
    BY <1>1 DEF RowOf
  <2>2. worker[w].pc = "write" => RowOf(w)[2] \in Hooks
    BY <1>4, RowOfIsRow DEF DeliveryInv
  <2> QED BY <1>1, <1>3, <2>1, <2>2 DEF DeliveryInv, WorkerReads, ReadsHold
<1> QED BY <1>5, <1>6, <1>7, <1>8 DEF DeliveryInv

LEMMA InvReschedule ==
    ASSUME DeliveryInv, TypeOK', NEW r \in Rows, RedeliverWrite(r) \/ BecomesDue(r)
    PROVE  DeliveryInv'
<1>1. UNCHANGED <<hook, worker, tries>>
  BY DEF RedeliverWrite, BecomesDue
<1>2. \A q \in Rows : /\ rows'[q].there = rows[q].there
                      /\ rows'[q].attemptCount = rows[q].attemptCount
                      /\ q /= r => rows'[q] = rows[q]
  BY DEF RedeliverWrite, BecomesDue, DeliveryInv, TypeOK, RowType
<1>3. rows'[r].next = "now" /\ ~rows'[r].succeeded
  <2>1. CASE RedeliverWrite(r)
    BY <2>1 DEF RedeliverWrite, DeliveryInv, TypeOK, RowType
  <2>2. CASE BecomesDue(r)
    <3>1. ~rows[r].succeeded
      BY <2>2 DEF BecomesDue, DeliveryInv, DeliveredIsUnscheduled
    <3> QED BY <3>1, <2>2 DEF BecomesDue, DeliveryInv, TypeOK, RowType
  <2> QED BY <2>1, <2>2
<1>4. DeletedHasNoRows'
  BY <1>1, <1>2 DEF DeliveryInv, DeletedHasNoRows
<1>5. WorkerReads'
  BY <1>1 DEF DeliveryInv, WorkerReads, ReadsHold, RowOf
<1>6. OwedRowIsScheduled' /\ DeliveredIsUnscheduled'
  BY <1>2, <1>3 DEF DeliveryInv, OwedRowIsScheduled, DeliveredIsUnscheduled
<1>7. AttemptsWereMade'
  BY <1>1, <1>2 DEF DeliveryInv, AttemptsWereMade
<1> QED BY <1>4, <1>5, <1>6, <1>7 DEF DeliveryInv

\* The inductive invariant: in every reachable state of any number of webhooks, events
\* and workers, under any number of faults and redeliveries.
THEOREM DeliveryInvariant == Spec => []DeliveryInv
<1>1. Init => DeliveryInv
  <2> SUFFICES ASSUME Init PROVE DeliveryInv
    OBVIOUS
  <2>1. TypeOK
    BY InitTypeOK
  <2> QED BY <2>1 DEF Init, DeliveryInv, DeletedHasNoRows, WorkerReads, ReadsHold,
                      OwedRowIsScheduled, DeliveredIsUnscheduled, AttemptsWereMade,
                      NoRow, Idle
<1>2. DeliveryInv /\ [Next]_vars => DeliveryInv'
  <2> SUFFICES ASSUME DeliveryInv, [Next]_vars PROVE DeliveryInv'
    OBVIOUS
  <2> TypeOK'
    BY NextTypeOK DEF DeliveryInv
  <2>1. CASE Dispatcher
    <3>1. ASSUME NEW e \in Events, EmitRead(e) \/ EmitAddFails(e) PROVE DeliveryInv'
      BY <3>1, InvUntouched DEF EmitRead, EmitAddFails
    <3>2. ASSUME NEW e \in Events, NEW r \in Rows, EmitAdd(e, r) PROVE DeliveryInv'
      BY <3>2, InvUntouched DEF EmitAdd
    <3> QED BY <2>1, <3>1, <3>2, InvEmitCreate DEF Dispatcher
  <2>2. CASE Processor
    <3>1. ASSUME NEW w \in Workers, NEW j \in JobIds, Take(w, j) PROVE DeliveryInv'
      <4>1. worker'[w].pc = "row" /\ \A v \in Workers \ {w} : worker'[v] = worker[v]
        BY <3>1 DEF Take, Idle, DeliveryInv, TypeOK
      <4> QED BY <3>1, <4>1, InvWorkerMoves DEF Take
    <3>2. ASSUME NEW w \in Workers, AddRetry(w) PROVE DeliveryInv'
      <4>1. worker'[w].pc = "end" /\ \A v \in Workers \ {w} : worker'[v] = worker[v]
        BY <3>2 DEF AddRetry, DeliveryInv, TypeOK, WorkerType
      <4> QED BY <3>2, <4>1, InvWorkerMoves DEF AddRetry
    <3>3. ASSUME NEW w \in Workers, Return(w) PROVE DeliveryInv'
      BY <3>3, InvWorkerIdles DEF Return, Finish
    <3> QED BY <2>2, <3>1, <3>2, <3>3, InvReadRow, InvReadHook, InvPost, InvWrite
            DEF Processor
  <2>3. CASE RetryScheduler
    BY <2>3, InvUntouched DEF RetryScheduler, SweepRead, SweepAddFails, SweepAdd
  <2>4. CASE Admin
    <3>1. ASSUME NEW h \in Hooks, RotateSecret(h) PROVE DeliveryInv'
      BY <3>1, InvUntouched DEF RotateSecret
    <3>2. ASSUME NEW r \in Rows, RedeliverAdd(r) \/ RedeliverAddFails(r) PROVE DeliveryInv'
      BY <3>2, InvUntouched DEF RedeliverAdd, RedeliverAddFails
    <3> QED BY <2>4, <3>1, <3>2, InvAdminHooks, InvRemove, InvReschedule DEF Admin
  <2>5. CASE Clock
    <3>1. ASSUME NEW j \in JobIds, DelayEnds(j) PROVE DeliveryInv'
      BY <3>1, InvUntouched DEF DelayEnds
    <3> QED BY <2>5, <3>1, InvReschedule DEF Clock
  <2>6. CASE Environment
    <3>1. ASSUME NEW w \in Workers, Crash(w) \/ Throws(w) PROVE DeliveryInv'
      BY <3>1, InvWorkerIdles DEF Crash, Throws, Finish
    <3>2. ASSUME NEW j \in JobIds, Evict(j) PROVE DeliveryInv'
      BY <3>2, InvUntouched DEF Evict
    <3>3. CASE Flush
      BY <3>3, InvUntouched DEF Flush
    <3> QED BY <2>6, <3>1, <3>2, <3>3 DEF Environment
  <2>7. CASE UNCHANGED vars
    BY <2>7, InvUntouched DEF vars
  <2> QED BY <2>1, <2>2, <2>3, <2>4, <2>5, <2>6, <2>7 DEF Next
<1> QED BY <1>1, <1>2, PTL DEF Spec

\* No interleaving leaves a delivery that is still to be retried without a schedule.
THEOREM OwedIsScheduled == Spec => []OwedRowIsScheduled
BY DeliveryInvariant, PTL DEF DeliveryInv

\* No delivery marked succeeded is on the schedule.
THEOREM DeliveredUnscheduled == Spec => []DeliveredIsUnscheduled
BY DeliveryInvariant, PTL DEF DeliveryInv

\* attemptCount never exceeds the requests that were made.
THEOREM AttemptsMade == Spec => []AttemptsWereMade
BY DeliveryInvariant, PTL DEF DeliveryInv

--------------------------------------------------------------------------------
(* The bound on requests, while Redis keeps the ids of finished jobs *)

IdsKept == Faults \cap {"flush", "evict"} = {}

\* A worker has made the request of this job, or found that none is to be made
Handled(j) == \E w \in Workers : worker[w].pc \in {"write", "add", "end"} /\ worker[w].job = j

\* The job ids of a row that may still lead to a request
OpenIds(r) ==
    {j \in JobIds : /\ j[2] = r /\ (j[1] = "redeliver" => j[3] <= redeliver[r].calls)
                    /\ jobs[j] # "kept" /\ ~Handled(j)}

\* Every busy worker has a job of its own, which is active; and redeliver() adds one per call
JobsHeld ==
    /\ \A w \in Workers : worker[w].pc # "idle" => jobs[worker[w].job] = "active"
    /\ \A v, w \in Workers :
         worker[v].pc # "idle" /\ worker[w].pc # "idle" /\ worker[v].job = worker[w].job => v = w
    /\ \A j \in JobIds : j[1] = "redeliver" /\ jobs[j] # "absent" => j[3] <= redeliver[j[2]].calls

\* What was requested, and what may yet be, stays within the ids there are, one more for
\* each call of redeliver() and each fault
Budget(r) ==
    /\ IsFiniteSet(OpenIds(r))
    /\ tries[r] + Cardinality(OpenIds(r)) <= MaxAttempts + 1 + redeliver[r].calls + faults

RequestsInv == TypeOK /\ JobsHeld /\ \A r \in Rows : Budget(r)

LEMMA JobParts ==
    ASSUME NEW j \in JobIds
    PROVE  /\ j[1] \in {"deliver", "redeliver"} /\ j[2] \in Rows
           /\ j[1] = "deliver" => j[3] \in 0 .. MaxAttempts
           /\ j[1] = "redeliver" => j[3] \in 1 .. MaxRedeliver
           /\ j = <<j[1], j[2], j[3]>>
BY DEF JobIds

LEMMA CountFields ==
    ASSUME TypeOK, NEW r \in Rows
    PROVE  redeliver[r].calls \in Nat /\ tries[r] \in Nat /\ faults \in Nat /\ MaxAttempts \in Nat
<1>1. redeliver[r] \in RedeliverType
  BY DEF TypeOK
<1> QED BY <1>1, AttemptsAssumption, BoundsAssumption DEF TypeOK, RedeliverType

LEMMA BudgetStays ==
    ASSUME TypeOK, TypeOK', NEW r \in Rows, Budget(r), OpenIds(r)' \subseteq OpenIds(r),
           tries'[r] = tries[r], redeliver[r].calls <= redeliver'[r].calls, faults <= faults'
    PROVE  Budget(r)'
<1>1. /\ IsFiniteSet(OpenIds(r)) /\ Cardinality(OpenIds(r)) \in Nat
      /\ tries[r] + Cardinality(OpenIds(r)) <= MaxAttempts + 1 + redeliver[r].calls + faults
  BY FS_CardinalityType DEF Budget
<1>2. /\ IsFiniteSet(OpenIds(r)') /\ Cardinality(OpenIds(r)') \in Nat
      /\ Cardinality(OpenIds(r)') <= Cardinality(OpenIds(r))
  BY <1>1, FS_Subset, FS_CardinalityType
<1>3. tries[r] \in Nat /\ redeliver[r].calls \in Nat /\ faults \in Nat /\ MaxAttempts \in Nat
  BY CountFields
<1>4. redeliver'[r].calls \in Nat /\ faults' \in Nat
  <2>1. redeliver'[r] \in RedeliverType /\ faults' \in 0 .. MaxFaults
    BY DEF TypeOK
  <2> QED BY <2>1, BoundsAssumption DEF RedeliverType
<1> QED BY <1>1, <1>2, <1>3, <1>4 DEF Budget

\* A call of redeliver() or a crash opens one id, and counts one
LEMMA BudgetGrows ==
    ASSUME TypeOK, NEW r \in Rows, NEW j, Budget(r), OpenIds(r)' \subseteq OpenIds(r) \cup {j},
           tries'[r] = tries[r],
           \/ redeliver'[r].calls = redeliver[r].calls + 1 /\ faults' = faults
           \/ redeliver'[r].calls = redeliver[r].calls /\ faults' = faults + 1
    PROVE  Budget(r)'
<1>1. /\ IsFiniteSet(OpenIds(r)) /\ Cardinality(OpenIds(r)) \in Nat
      /\ tries[r] + Cardinality(OpenIds(r)) <= MaxAttempts + 1 + redeliver[r].calls + faults
  BY FS_CardinalityType DEF Budget
<1> DEFINE more == OpenIds(r) \cup {j}
<1>2. /\ IsFiniteSet(more)
      /\ Cardinality(more) = IF j \in OpenIds(r) THEN Cardinality(OpenIds(r))
                             ELSE Cardinality(OpenIds(r)) + 1
  BY <1>1, FS_AddElement
<1>3. OpenIds(r)' \subseteq more
  OBVIOUS
<1> HIDE DEF more
<1>4. /\ IsFiniteSet(OpenIds(r)') /\ Cardinality(OpenIds(r)') \in Nat
      /\ Cardinality(OpenIds(r)') <= Cardinality(more)
  BY <1>2, <1>3, FS_Subset, FS_CardinalityType
<1>5. Cardinality(OpenIds(r)') <= Cardinality(OpenIds(r)) + 1
  BY <1>1, <1>2, <1>4
<1>6. tries[r] \in Nat /\ redeliver[r].calls \in Nat /\ faults \in Nat /\ MaxAttempts \in Nat
  BY CountFields
<1> QED BY <1>1, <1>4, <1>5, <1>6 DEF Budget

\* A request uses up an id
LEMMA BudgetSpent ==
    ASSUME TypeOK, NEW r \in Rows, NEW j \in OpenIds(r), Budget(r),
           OpenIds(r)' \subseteq OpenIds(r) \ {j}, tries'[r] = tries[r] + 1,
           UNCHANGED <<redeliver, faults>>
    PROVE  Budget(r)'
<1>1. /\ IsFiniteSet(OpenIds(r)) /\ Cardinality(OpenIds(r)) \in Nat
      /\ tries[r] + Cardinality(OpenIds(r)) <= MaxAttempts + 1 + redeliver[r].calls + faults
  BY FS_CardinalityType DEF Budget
<1> DEFINE fewer == OpenIds(r) \ {j}
<1>2. IsFiniteSet(fewer) /\ Cardinality(fewer) = Cardinality(OpenIds(r)) - 1
  BY <1>1, FS_RemoveElement
<1>3. OpenIds(r)' \subseteq fewer
  OBVIOUS
<1> HIDE DEF fewer
<1>4. /\ IsFiniteSet(OpenIds(r)') /\ Cardinality(OpenIds(r)') \in Nat
      /\ Cardinality(OpenIds(r)') <= Cardinality(fewer)
  BY <1>2, <1>3, FS_Subset, FS_CardinalityType
<1>5. tries[r] \in Nat /\ redeliver[r].calls \in Nat /\ faults \in Nat /\ MaxAttempts \in Nat
  BY CountFields
<1> QED BY <1>1, <1>2, <1>4, <1>5 DEF Budget

\* The ids of the first jobs: MAX_ATTEMPTS + 1 of them
LEMMA RequestsInit == Init => RequestsInv
<1> SUFFICES ASSUME Init PROVE RequestsInv
  OBVIOUS
<1>1. TypeOK
  BY InitTypeOK
<1>2. /\ \A w \in Workers : worker[w].pc = "idle"
      /\ \A j \in JobIds : jobs[j] = "absent"
      /\ \A r \in Rows : redeliver[r].calls = 0 /\ tries[r] = 0
      /\ faults = 0
  BY DEF Init, Idle
<1>3. JobsHeld
  BY <1>2 DEF JobsHeld
<1>4. ASSUME NEW r \in Rows PROVE Budget(r)
  <2> DEFINE f == [n \in 0 .. MaxAttempts |-> <<"deliver", r, n>>]
  <2>1. MaxAttempts \in Nat
    BY AttemptsAssumption
  <2>2. IsFiniteSet(0 .. MaxAttempts) /\ Cardinality(0 .. MaxAttempts) = MaxAttempts + 1
    BY <2>1, FS_Interval
  <2>3. ASSUME NEW j \in OpenIds(r) PROVE \E n \in 0 .. MaxAttempts : f[n] = j
    <3>1. j \in JobIds /\ j[2] = r /\ j[1] # "redeliver"
      <4>1. j \in JobIds /\ j[2] = r /\ (j[1] = "redeliver" => j[3] <= 0)
        BY <1>2, <2>3 DEF OpenIds
      <4>2. j[1] = "redeliver" => j[3] \in 1 .. MaxRedeliver
        BY <4>1, JobParts
      <4> QED BY <4>1, <4>2, BoundsAssumption
    <3>2. j = <<"deliver", r, j[3]>> /\ j[3] \in 0 .. MaxAttempts
      BY <3>1, JobParts
    <3> QED BY <3>2
  <2>4. \A n \in 0 .. MaxAttempts : f[n] \in OpenIds(r)
    <3>1. \A n \in 0 .. MaxAttempts : <<"deliver", r, n>> \in JobIds
      BY DEF JobIds
    <3> QED BY <1>2, <3>1 DEF OpenIds, Handled
  <2>5. f \in Surjection(0 .. MaxAttempts, OpenIds(r))
    BY <2>3, <2>4 DEF Surjection
  <2>6. IsFiniteSet(OpenIds(r)) /\ Cardinality(OpenIds(r)) <= MaxAttempts + 1
    BY <2>2, <2>5, FS_Surjection
  <2>7. Cardinality(OpenIds(r)) \in Nat
    BY <2>6, FS_CardinalityType
  <2> QED BY <1>2, <2>1, <2>6, <2>7 DEF Budget
<1> QED BY <1>1, <1>3, <1>4 DEF RequestsInv

\* Ids that are kept stay kept, and a job that was handled is, or is kept
LEMMA OpenStays ==
    ASSUME NEW r \in Rows, redeliver'[r].calls = redeliver[r].calls,
           \A j \in JobIds : jobs[j] = "kept" => jobs'[j] = "kept",
           \A j \in JobIds : Handled(j) => Handled(j)' \/ jobs'[j] = "kept"
    PROVE  OpenIds(r)' \subseteq OpenIds(r)
BY DEF OpenIds

\* Jobs are added and come due
LEMMA QueueMoves ==
    ASSUME RequestsInv, TypeOK', UNCHANGED <<worker, tries>>,
           \A r \in Rows : redeliver'[r].calls = redeliver[r].calls, faults <= faults',
           \A j \in JobIds : jobs'[j] # jobs[j] =>
               /\ jobs[j] \in {"absent", "delayed"}
               /\ j[1] = "redeliver" =>
                    jobs[j] # "absent" \/ j[3] <= redeliver[j[2]].calls
    PROVE  RequestsInv'
<1>1. /\ TypeOK /\ JobsHeld /\ \A r \in Rows : Budget(r)
      /\ \A w \in Workers : worker[w].pc # "idle" => worker[w].job \in JobIds
  BY DEF RequestsInv, TypeOK
<1>2. JobsHeld'
  <2>1. \A w \in Workers : worker[w].pc # "idle" => jobs'[worker[w].job] = "active"
    BY <1>1 DEF JobsHeld
  <2>2. \A j \in JobIds : j[1] = "redeliver" /\ jobs'[j] # "absent" => j[3] <= redeliver'[j[2]].calls
    <3> SUFFICES ASSUME NEW j \in JobIds, j[1] = "redeliver", jobs'[j] # "absent"
                 PROVE  j[3] <= redeliver'[j[2]].calls
      OBVIOUS
    <3>1. redeliver'[j[2]].calls = redeliver[j[2]].calls
      BY JobParts
    <3> QED BY <1>1, <3>1 DEF JobsHeld
  <2> QED BY <1>1, <2>1, <2>2 DEF JobsHeld
<1>3. ASSUME NEW r \in Rows PROVE Budget(r)'
  <2>1. \A j \in JobIds : Handled(j)' <=> Handled(j)
    BY DEF Handled
  <2>2. OpenIds(r)' \subseteq OpenIds(r)
    BY <2>1, OpenStays
  <2>3. redeliver[r].calls <= redeliver'[r].calls
    BY <1>1, CountFields
  <2> QED BY <1>1, <2>2, <2>3, BudgetStays
<1> QED BY <1>2, <1>3 DEF RequestsInv

LEMMA JobAdded ==
    ASSUME TypeOK, NEW j, NEW where, where # "kept", Add(j, where)
    PROVE  \A i \in JobIds : jobs'[i] # jobs[i] => i = j /\ jobs[i] = "absent"
BY DEF Add, TypeOK

\* What workers, sweep, dispatcher and admin do to the rows leaves the jobs as they are,
\* but for a job that is added
LEMMA RequestsRest ==
    ASSUME RequestsInv, TypeOK',
           \/ Dispatcher \/ RetryScheduler \/ Clock
           \/ \E h \in Hooks : Create(h) \/ SetActive(h) \/ RotateSecret(h) \/ Remove(h)
           \/ \E r \in Rows : RedeliverAdd(r) \/ RedeliverAddFails(r)
    PROVE  RequestsInv'
<1>1. TypeOK /\ faults \in Nat
  BY BoundsAssumption DEF RequestsInv, TypeOK
<1>2. CASE Dispatcher
  <2>a. UNCHANGED <<worker, tries, redeliver>> /\ (faults' = faults \/ faults' = faults + 1)
    BY <1>2 DEF Dispatcher, EmitRead, EmitAddFails, EmitCreate, EmitAdd, Fault
  <2>1. UNCHANGED <<worker, tries, redeliver>> /\ faults <= faults'
    BY <1>1, <2>a
  <2>2. UNCHANGED jobs \/ \E r \in Rows : Add(FirstId(r), "waiting")
    BY <1>2 DEF Dispatcher, EmitRead, EmitAddFails, EmitCreate, EmitAdd
  <2>3. \A j \in JobIds : jobs'[j] # jobs[j] => jobs[j] = "absent" /\ j[1] # "redeliver"
    <3>1. \A r \in Rows : FirstId(r)[1] = "deliver"
      BY DEF FirstId
    <3>2. CASE UNCHANGED jobs
      BY <3>2
    <3>3. ASSUME NEW r \in Rows, Add(FirstId(r), "waiting")
          PROVE  \A j \in JobIds : jobs'[j] # jobs[j] => jobs[j] = "absent" /\ j[1] # "redeliver"
      BY <1>1, <3>1, <3>3, JobAdded
    <3> QED BY <2>2, <3>2, <3>3
  <2> QED BY <2>1, <2>3, QueueMoves
<1>3. CASE RetryScheduler
  <2>1. UNCHANGED <<worker, tries, redeliver>> /\ faults <= faults'
    BY <1>1, <1>3 DEF RetryScheduler, SweepRead, SweepAddFails, SweepAdd, Fault
  <2>2. UNCHANGED jobs \/ \E r \in Rows : Add(AttemptId(r, sweep[r]), "waiting")
    BY <1>3 DEF RetryScheduler, SweepRead, SweepAddFails, SweepAdd
  <2>3. \A j \in JobIds : jobs'[j] # jobs[j] => jobs[j] = "absent" /\ j[1] # "redeliver"
    <3>1. \A r \in Rows : AttemptId(r, sweep[r])[1] = "deliver"
      BY DEF AttemptId
    <3>2. CASE UNCHANGED jobs
      BY <3>2
    <3>3. ASSUME NEW r \in Rows, Add(AttemptId(r, sweep[r]), "waiting")
          PROVE  \A j \in JobIds : jobs'[j] # jobs[j] => jobs[j] = "absent" /\ j[1] # "redeliver"
      BY <1>1, <3>1, <3>3, JobAdded
    <3> QED BY <2>2, <3>2, <3>3
  <2> QED BY <2>1, <2>3, QueueMoves
<1>4. CASE Clock
  <2>1. UNCHANGED <<worker, tries, redeliver, faults>>
    BY <1>4 DEF Clock, BecomesDue, DelayEnds
  <2>2. \A j \in JobIds : jobs'[j] # jobs[j] => jobs[j] = "delayed"
    BY <1>1, <1>4 DEF Clock, BecomesDue, DelayEnds, TypeOK
  <2> QED BY <1>1, <2>1, <2>2, QueueMoves
<1>5. CASE \E h \in Hooks : Create(h) \/ SetActive(h) \/ RotateSecret(h) \/ Remove(h)
  <2>1. UNCHANGED <<worker, tries, redeliver, faults, jobs>>
    BY <1>5 DEF Create, SetActive, RotateSecret, Remove
  <2> QED BY <1>1, <2>1, QueueMoves
<1>6. ASSUME NEW r \in Rows, RedeliverAdd(r) \/ RedeliverAddFails(r) PROVE RequestsInv'
  <2>1. UNCHANGED <<worker, tries>> /\ faults <= faults'
    BY <1>1, <1>6 DEF RedeliverAdd, RedeliverAddFails, Fault
  <2>2. redeliver \in [Rows -> RedeliverType] /\ redeliver' = [redeliver EXCEPT ![r].adding = FALSE]
    BY <1>1, <1>6 DEF RedeliverAdd, RedeliverAddFails, TypeOK
  <2>3. \A q \in Rows : redeliver'[q].calls = redeliver[q].calls
    BY <2>2 DEF RedeliverType
  <2>4. UNCHANGED jobs \/ Add(RedeliverId(r, redeliver[r].calls), "waiting")
    BY <1>6 DEF RedeliverAdd, RedeliverAddFails
  <2>5. redeliver[r].calls \in Nat
    BY <1>1, CountFields
  <2>6. \A j \in JobIds : jobs'[j] # jobs[j] =>
               /\ jobs[j] \in {"absent", "delayed"}
               /\ j[1] = "redeliver" => jobs[j] # "absent" \/ j[3] <= redeliver[j[2]].calls
    BY <1>1, <2>4, <2>5, JobAdded DEF RedeliverId
  <2> QED BY <2>1, <2>3, <2>6, QueueMoves
<1> QED BY <1>2, <1>3, <1>4, <1>5, <1>6

\* A worker that takes a job, reads the row, moves on without a request
LEMMA WorkerGoesOn ==
    ASSUME RequestsInv, TypeOK', NEW w \in Workers, UNCHANGED <<tries, redeliver, faults>>,
           \A v \in Workers \ {w} : worker'[v] = worker[v],
           worker'[w].pc # "idle", worker'[w].job \in JobIds,
           \/ worker[w].pc # "idle" /\ worker'[w].job = worker[w].job
           \/ worker[w].pc = "idle" /\ jobs[worker'[w].job] = "waiting",
           worker[w].pc \in {"write", "add", "end"} => worker'[w].pc \in {"write", "add", "end"},
           jobs'[worker'[w].job] = "active",
           \A j \in JobIds \ {worker'[w].job} :
             jobs'[j] # jobs[j] => jobs[j] = "absent" /\ j[1] # "redeliver"
    PROVE  RequestsInv'
<1>1. /\ TypeOK /\ JobsHeld /\ \A r \in Rows : Budget(r)
      /\ \A v \in Workers : worker[v].pc # "idle" => worker[v].job \in JobIds
  BY DEF RequestsInv, TypeOK
<1>2. \A v \in Workers \ {w} : worker[v].pc # "idle" => worker[v].job # worker'[w].job
  BY <1>1 DEF JobsHeld
<1>3. JobsHeld'
  <2>1. \A v \in Workers : worker'[v].pc # "idle" => jobs'[worker'[v].job] = "active"
    BY <1>1, <1>2 DEF JobsHeld
  <2>2. \A u, v \in Workers :
         worker'[u].pc # "idle" /\ worker'[v].pc # "idle" /\ worker'[u].job = worker'[v].job => u = v
    BY <1>1, <1>2 DEF JobsHeld
  <2>3. \A j \in JobIds : j[1] = "redeliver" /\ jobs'[j] # "absent" => j[3] <= redeliver[j[2]].calls
    <3>1. jobs[worker'[w].job] # "absent"
      BY <1>1 DEF JobsHeld
    <3> QED BY <1>1, <3>1 DEF JobsHeld
  <2> QED BY <2>1, <2>2, <2>3 DEF JobsHeld
<1>4. ASSUME NEW r \in Rows PROVE Budget(r)'
  <2>1. \A j \in JobIds : Handled(j) => Handled(j)'
    <3>1. \A v \in Workers : worker[v].pc \in {"write", "add", "end"} =>
                             worker'[v].pc \in {"write", "add", "end"} /\ worker'[v].job = worker[v].job
      OBVIOUS
    <3> QED BY <3>1 DEF Handled
  <2>2. jobs[worker'[w].job] # "kept"
    BY <1>1 DEF JobsHeld
  <2>3. OpenIds(r)' \subseteq OpenIds(r)
    BY <2>1, <2>2, OpenStays
  <2>4. redeliver[r].calls <= redeliver'[r].calls /\ faults <= faults'
    BY <1>1, CountFields
  <2> QED BY <1>1, <2>3, <2>4, BudgetStays
<1> QED BY <1>3, <1>4 DEF RequestsInv

\* A job ends: its id is kept
LEMMA WorkerFinishes ==
    ASSUME RequestsInv, TypeOK', NEW w \in Workers, worker[w].pc # "idle", Finish(w),
           UNCHANGED <<tries, redeliver>>, faults <= faults'
    PROVE  RequestsInv'
<1>1. /\ TypeOK /\ JobsHeld /\ \A r \in Rows : Budget(r)
      /\ \A v \in Workers : worker[v].pc # "idle" => worker[v].job \in JobIds
  BY DEF RequestsInv, TypeOK
<1>2. /\ \A v \in Workers : worker'[v] = IF v = w THEN Idle ELSE worker[v]
      /\ \A j \in JobIds : jobs'[j] = IF j = worker[w].job THEN "kept" ELSE jobs[j]
      /\ Idle.pc = "idle"
  BY <1>1 DEF Finish, TypeOK, Idle, JobsHeld
<1>3. JobsHeld'
  <2>1. jobs[worker[w].job] = "active"
    BY <1>1 DEF JobsHeld
  <2> QED BY <1>1, <1>2, <2>1 DEF JobsHeld
<1>4. ASSUME NEW r \in Rows PROVE Budget(r)'
  <2>1. \A j \in JobIds : Handled(j) => Handled(j)' \/ jobs'[j] = "kept"
    BY <1>1, <1>2 DEF Handled
  <2>2. OpenIds(r)' \subseteq OpenIds(r)
    BY <1>2, <2>1, OpenStays
  <2>3. redeliver[r].calls <= redeliver'[r].calls
    BY <1>1, CountFields
  <2> QED BY <1>1, <2>2, <2>3, BudgetStays
<1> QED BY <1>3, <1>4 DEF RequestsInv

\* A request is made, or given up at decryption
LEMMA RequestMade ==
    ASSUME RequestsInv, TypeOK', NEW w \in Workers, worker[w].pc \in {"hook", "post"},
           \A v \in Workers \ {w} : worker'[v] = worker[v],
           worker'[w].pc = "write", worker'[w].job = worker[w].job,
           tries' = [tries EXCEPT ![RowOf(w)] = @ + 1],
           UNCHANGED <<jobs, redeliver, faults>>
    PROVE  RequestsInv'
<1>1. /\ TypeOK /\ JobsHeld /\ \A r \in Rows : Budget(r)
      /\ \A v \in Workers : worker[v].pc # "idle" => worker[v].job \in JobIds
  BY DEF RequestsInv, TypeOK
<1>2. JobsHeld'
  BY <1>1 DEF JobsHeld
<1>3. \A j \in JobIds : Handled(j)' <=> Handled(j) \/ j = worker[w].job
  BY <1>1 DEF Handled
<1>4. RowOf(w) \in Rows /\ \A r \in Rows : tries'[r] = IF r = RowOf(w) THEN tries[r] + 1 ELSE tries[r]
  BY <1>1, RowOfIsRow DEF TypeOK
<1>5. ASSUME NEW r \in Rows, r # RowOf(w) PROVE Budget(r)'
  <2>1. OpenIds(r)' \subseteq OpenIds(r)
    BY <1>3, OpenStays
  <2>2. redeliver[r].calls <= redeliver'[r].calls /\ faults <= faults'
    BY <1>1, CountFields
  <2> QED BY <1>1, <1>4, <1>5, <2>1, <2>2, BudgetStays
<1>6. Budget(RowOf(w))'
  <2>1. PICK r \in Rows : r = RowOf(w)
    BY <1>4
  <2>2. worker[w].job \in OpenIds(r)
    <3>1. worker[w].job \in JobIds /\ jobs[worker[w].job] = "active" /\ worker[w].job[2] = r
      BY <1>1, <2>1 DEF JobsHeld, RowOf
    <3>2. ~Handled(worker[w].job)
      BY <1>1 DEF Handled, JobsHeld
    <3>3. worker[w].job[1] = "redeliver" => worker[w].job[3] <= redeliver[r].calls
      BY <1>1, <3>1 DEF JobsHeld
    <3> QED BY <3>1, <3>2, <3>3 DEF OpenIds
  <2>3. OpenIds(r)' \subseteq OpenIds(r) \ {worker[w].job}
    BY <1>3 DEF OpenIds
  <2>4. Budget(r)'
    BY <1>1, <1>4, <2>1, <2>2, <2>3, BudgetSpent
  <2>5. RowOf(w)' = RowOf(w)
    BY DEF RowOf
  <2> QED BY <2>1, <2>4, <2>5 DEF Budget, OpenIds, Handled
<1> QED BY <1>2, <1>5, <1>6 DEF RequestsInv, RowOf

LEMMA RequestsWorker ==
    ASSUME RequestsInv, TypeOK', NEW w \in Workers,
           \/ \E j \in JobIds : Take(w, j)
           \/ ReadRow(w) \/ ReadHook(w) \/ Post(w) \/ Write(w) \/ AddRetry(w) \/ Return(w)
           \/ Throws(w)
    PROVE  RequestsInv'
<1>1. /\ TypeOK /\ JobsHeld /\ faults \in Nat /\ worker \in [Workers -> WorkerType]
      /\ worker[w] \in WorkerType
      /\ jobs \in [JobIds -> {"absent", "delayed", "waiting", "active", "kept"}]
      /\ worker[w].pc # "idle" => worker[w].job \in JobIds /\ jobs[worker[w].job] = "active"
  BY BoundsAssumption DEF RequestsInv, TypeOK, JobsHeld
<1>2. ASSUME NEW j \in JobIds, Take(w, j) PROVE RequestsInv'
  <2>1. /\ \A v \in Workers \ {w} : worker'[v] = worker[v]
        /\ worker'[w].pc = "row" /\ worker'[w].job = j /\ worker[w].pc = "idle"
    BY <1>1, <1>2 DEF Take, Idle
  <2>2. /\ jobs[j] = "waiting" /\ jobs'[j] = "active"
        /\ \A i \in JobIds \ {j} : jobs'[i] = jobs[i]
    BY <1>1, <1>2 DEF Take
  <2>3. UNCHANGED <<tries, redeliver, faults>>
    BY <1>2 DEF Take
  <2> QED BY <2>1, <2>2, <2>3, WorkerGoesOn
<1>3. CASE ReadRow(w)
  <2>1. UNCHANGED <<tries, redeliver, faults>> /\ worker[w].pc = "row"
    BY <1>3 DEF ReadRow
  <2>2. CASE Deliverable(RowOf(w))
    <3>1. /\ \A v \in Workers \ {w} : worker'[v] = worker[v]
          /\ worker'[w].pc = "hook" /\ worker'[w].job = worker[w].job /\ UNCHANGED jobs
      BY <1>1, <1>3, <2>2 DEF ReadRow, WorkerType
    <3> QED BY <1>1, <2>1, <3>1, WorkerGoesOn
  <2>3. CASE ~Deliverable(RowOf(w))
    <3>1. Finish(w)
      BY <1>3, <2>3 DEF ReadRow
    <3> QED BY <1>1, <2>1, <3>1, WorkerFinishes
  <2> QED BY <2>2, <2>3
<1>4. CASE ReadHook(w)
  <2>1. /\ UNCHANGED <<jobs, redeliver, faults>> /\ worker[w].pc = "hook"
        /\ \A v \in Workers \ {w} : worker'[v] = worker[v]
        /\ worker'[w].job = worker[w].job
    BY <1>1, <1>4 DEF ReadHook, WorkerType
  <2>2. CASE tries' = tries
    <3>1. worker'[w].pc \in {"write", "post"}
      BY <1>1, <1>4 DEF ReadHook, WorkerType
    <3> QED BY <1>1, <2>1, <2>2, <3>1, WorkerGoesOn
  <2>3. CASE tries' # tries
    <3>1. tries' = [tries EXCEPT ![RowOf(w)] = @ + 1] /\ worker'[w].pc = "write"
      BY <1>1, <1>4, <2>3 DEF ReadHook, WorkerType
    <3> QED BY <2>1, <3>1, RequestMade
  <2> QED BY <2>2, <2>3
<1>5. CASE Post(w)
  <2>1. /\ UNCHANGED <<jobs, redeliver, faults>> /\ worker[w].pc = "post"
        /\ \A v \in Workers \ {w} : worker'[v] = worker[v]
        /\ worker'[w].job = worker[w].job /\ worker'[w].pc = "write"
        /\ tries' = [tries EXCEPT ![RowOf(w)] = @ + 1]
    BY <1>1, <1>5 DEF Post, WorkerType
  <2> QED BY <2>1, RequestMade
<1>6. CASE Write(w)
  <2>1. UNCHANGED <<tries, redeliver, faults>> /\ worker[w].pc = "write"
    BY <1>6 DEF Write
  <2>2. CASE rows[RowOf(w)].there
    <3>1. /\ \A v \in Workers \ {w} : worker'[v] = worker[v]
          /\ worker'[w].pc \in {"add", "end"} /\ worker'[w].job = worker[w].job /\ UNCHANGED jobs
      BY <1>1, <1>6, <2>2 DEF Write, WorkerType
    <3> QED BY <1>1, <2>1, <3>1, WorkerGoesOn
  <2>3. CASE ~rows[RowOf(w)].there
    <3>1. Finish(w)
      BY <1>6, <2>3 DEF Write
    <3> QED BY <1>1, <2>1, <3>1, WorkerFinishes
  <2> QED BY <2>2, <2>3
<1>7. CASE AddRetry(w)
  <2>1. /\ UNCHANGED <<tries, redeliver, faults>> /\ worker[w].pc = "add"
        /\ \A v \in Workers \ {w} : worker'[v] = worker[v]
        /\ worker'[w].pc = "end" /\ worker'[w].job = worker[w].job
    BY <1>1, <1>7 DEF AddRetry, WorkerType
  <2>2. Add(AttemptId(RowOf(w), worker[w].attempt + 1), "delayed")
    BY <1>7 DEF AddRetry
  <2>3. AttemptId(RowOf(w), worker[w].attempt + 1)[1] = "deliver"
    BY DEF AttemptId
  <2>4. \A i \in JobIds : jobs'[i] # jobs[i] => jobs[i] = "absent" /\ i[1] # "redeliver"
    BY <1>1, <2>2, <2>3, JobAdded
  <2>5. jobs'[worker[w].job] = "active"
    BY <1>1, <2>1, <2>4
  <2> QED BY <1>1, <2>1, <2>4, <2>5, WorkerGoesOn
<1>8. CASE Return(w) \/ Throws(w)
  <2>1. UNCHANGED <<tries, redeliver>> /\ worker[w].pc # "idle" /\ Finish(w)
    BY <1>8 DEF Return, Throws
  <2>2. faults <= faults'
    BY <1>1, <1>8 DEF Return, Throws, Fault
  <2> QED BY <2>1, <2>2, WorkerFinishes
<1> QED BY <1>2, <1>3, <1>4, <1>5, <1>6, <1>7, <1>8

\* The job of a dead worker may be given back, and its request made again
LEMMA RequestsCrash ==
    ASSUME RequestsInv, TypeOK', NEW w \in Workers, Crash(w)
    PROVE  RequestsInv'
<1>1. /\ TypeOK /\ JobsHeld /\ \A r \in Rows : Budget(r)
      /\ \A v \in Workers : worker[v].pc # "idle" => worker[v].job \in JobIds
      /\ worker[w].pc # "idle" /\ UNCHANGED <<redeliver, tries>> /\ faults' = faults + 1
  BY DEF RequestsInv, TypeOK, Crash, Fault
<1>2. PICK j \in JobIds : j = worker[w].job
  BY <1>1
<1>3. /\ \A v \in Workers : worker'[v] = IF v = w THEN Idle ELSE worker[v]
      /\ \A i \in JobIds \ {j} : jobs'[i] = jobs[i]
      /\ jobs'[j] \in {"kept", "waiting"} /\ jobs[j] = "active" /\ Idle.pc = "idle"
  <2>1. jobs[j] = "active"
    BY <1>1, <1>2 DEF JobsHeld
  <2> QED BY <1>1, <1>2, <2>1 DEF Crash, TypeOK, Idle
<1>4. JobsHeld'
  BY <1>1, <1>2, <1>3 DEF JobsHeld
<1>5. ASSUME NEW r \in Rows PROVE Budget(r)'
  <2>1. \A i \in JobIds \ {j} : Handled(i)' <=> Handled(i)
    BY <1>2, <1>3 DEF Handled
  <2>2. OpenIds(r)' \subseteq OpenIds(r) \cup {j}
    BY <1>1, <1>3, <2>1 DEF OpenIds
  <2> QED BY <1>1, <2>2, BudgetGrows
<1> QED BY <1>4, <1>5 DEF RequestsInv

LEMMA RequestsRedeliver ==
    ASSUME RequestsInv, TypeOK', NEW r \in Rows, RedeliverWrite(r)
    PROVE  RequestsInv'
<1>1. /\ TypeOK /\ JobsHeld /\ \A q \in Rows : Budget(q)
      /\ UNCHANGED <<worker, jobs, tries, faults>> /\ redeliver \in [Rows -> RedeliverType]
      /\ redeliver' = [redeliver EXCEPT ![r] = [calls |-> @.calls + 1, adding |-> TRUE]]
  BY DEF RequestsInv, TypeOK, RedeliverWrite
<1>2. \A q \in Rows : redeliver[q].calls \in Nat
  BY <1>1, CountFields
<1>3. \A q \in Rows : redeliver'[q].calls = redeliver[q].calls + (IF q = r THEN 1 ELSE 0)
  BY <1>1, <1>2
<1>4. JobsHeld'
  <2>1. ASSUME NEW j \in JobIds, j[1] = "redeliver", jobs[j] # "absent"
        PROVE  j[3] <= redeliver'[j[2]].calls
    <3>1. j[2] \in Rows /\ j[3] \in Nat /\ j[3] <= redeliver[j[2]].calls
      BY <1>1, <2>1, JobParts, BoundsAssumption DEF JobsHeld
    <3> QED BY <1>2, <1>3, <3>1
  <2> QED BY <1>1, <2>1 DEF JobsHeld
<1>5. \A j \in JobIds : Handled(j)' <=> Handled(j)
  BY <1>1 DEF Handled
<1>6. ASSUME NEW q \in Rows, q # r PROVE Budget(q)'
  <2>1. redeliver'[q].calls = redeliver[q].calls /\ faults <= faults'
    BY <1>1, <1>2, <1>3, <1>6, CountFields
  <2>2. OpenIds(q)' \subseteq OpenIds(q)
    BY <1>1, <1>5, <2>1, OpenStays
  <2> QED BY <1>1, <1>2, <2>1, <2>2, BudgetStays
<1>7. Budget(r)'
  <2>1. OpenIds(r)' \subseteq OpenIds(r) \cup {RedeliverId(r, redeliver[r].calls + 1)}
    <3> SUFFICES ASSUME NEW j \in OpenIds(r)', j \notin OpenIds(r)
                 PROVE  j = RedeliverId(r, redeliver[r].calls + 1)
      OBVIOUS
    <3>1. /\ j \in JobIds /\ j[2] = r /\ j[1] = "redeliver"
          /\ j[3] <= redeliver'[r].calls /\ ~(j[3] <= redeliver[r].calls)
      BY <1>1, <1>5 DEF OpenIds
    <3>2. j = <<"redeliver", r, j[3]>> /\ j[3] \in Nat
      BY <3>1, JobParts, BoundsAssumption
    <3>3. j[3] = redeliver[r].calls + 1
      BY <1>2, <1>3, <3>1, <3>2
    <3> QED BY <3>2, <3>3 DEF RedeliverId
  <2>2. redeliver'[r].calls = redeliver[r].calls + 1
    BY <1>3
  <2> QED BY <1>1, <2>1, <2>2, BudgetGrows
<1> QED BY <1>4, <1>6, <1>7 DEF RequestsInv

\* While Redis keeps the job ids, a delivery is requested at most MAX_ATTEMPTS + 1 times, once
\* more per redeliver() and once more per fault, for any webhooks, workers and sweeps: a
\* request uses up the id of its job, and only a crash gives one back.
THEOREM RequestsStayBounded == IdsKept => (Spec => []RequestsBounded)
<1> SUFFICES ASSUME IdsKept PROVE Spec => []RequestsBounded
  OBVIOUS
<1>1. RequestsInv /\ [Next]_vars => RequestsInv'
  <2> SUFFICES ASSUME RequestsInv, [Next]_vars PROVE RequestsInv'
    OBVIOUS
  <2>1. TypeOK /\ TypeOK'
    BY NextTypeOK DEF RequestsInv
  <2>2. CASE Dispatcher \/ RetryScheduler \/ Clock
    BY <2>1, <2>2, RequestsRest
  <2>3. CASE Processor
    BY <2>1, <2>3, RequestsWorker DEF Processor
  <2>4. CASE Admin
    BY <2>1, <2>4, RequestsRest, RequestsRedeliver DEF Admin
  <2>5. CASE Environment
    <3>1. ~Flush /\ \A j \in JobIds : ~Evict(j)
      BY DEF IdsKept, Flush, Evict, Fault
    <3> QED BY <2>1, <2>5, <3>1, RequestsWorker, RequestsCrash DEF Environment
  <2>6. CASE UNCHANGED vars
    <3>1. faults \in Nat
      BY <2>1, BoundsAssumption DEF TypeOK
    <3> QED BY <2>1, <2>6, <3>1, QueueMoves DEF vars
  <2> QED BY <2>2, <2>3, <2>4, <2>5, <2>6 DEF Next
<1>2. RequestsInv => RequestsBounded
  <2> SUFFICES ASSUME RequestsInv, NEW r \in Rows
               PROVE  tries[r] <= MaxAttempts + 1 + redeliver[r].calls + faults
    BY DEF RequestsBounded
  <2>1. /\ Cardinality(OpenIds(r)) \in Nat
        /\ tries[r] + Cardinality(OpenIds(r)) <= MaxAttempts + 1 + redeliver[r].calls + faults
    BY FS_CardinalityType DEF RequestsInv, Budget
  <2>2. tries[r] \in Nat /\ redeliver[r].calls \in Nat /\ faults \in Nat /\ MaxAttempts \in Nat
    BY CountFields DEF RequestsInv
  <2> QED BY <2>1, <2>2
<1> QED BY <1>1, <1>2, RequestsInit, PTL DEF Spec

--------------------------------------------------------------------------------
(* One worker *)

OneSlot == \A v, w \in Workers : v = w

\* A worker between its read of the row and its update
Reads(w) == worker[w].pc \in {"hook", "post", "write"}

\* emit() has not come to the webhook
NotYet(e, h) ==
    emit[e].pc = "idle" \/ (emit[e].pc \in {"create", "add"} /\ h \in emit[e].todo)

FinalInv ==
    /\ TypeOK
    /\ \A r \in Rows : rows[r].succeeded => rows[r].there
    /\ \A w \in Workers : Reads(w) => ~rows[RowOf(w)].succeeded
    /\ \A e \in Events, h \in Hooks : NotYet(e, h) => ~rows[<<e, h>>].there

LEMMA RowSteps ==
    ASSUME TypeOK, [Next]_vars
    PROVE  \/ UNCHANGED rows
           \/ \E e \in Events, h \in Hooks : EmitCreate(e, h)
           \/ \E w \in Workers : Write(w)
           \/ \E h \in Hooks : Remove(h)
           \/ \E r \in Rows : RedeliverWrite(r) \/ BecomesDue(r)
<1>1. CASE Dispatcher
  BY <1>1 DEF Dispatcher, EmitRead, EmitAddFails, EmitAdd
<1>2. CASE Processor
  BY <1>2 DEF Processor, Take, ReadRow, ReadHook, Post, AddRetry, Return
<1>3. CASE RetryScheduler
  BY <1>3 DEF RetryScheduler, SweepRead, SweepAddFails, SweepAdd
<1>4. CASE Admin
  BY <1>4 DEF Admin, Create, SetActive, RotateSecret, RedeliverAdd, RedeliverAddFails
<1>5. CASE Clock
  BY <1>5 DEF Clock, DelayEnds
<1>6. CASE Environment
  BY <1>6 DEF Environment, Flush, Crash, Throws, Evict
<1>7. CASE UNCHANGED vars
  BY <1>7 DEF vars
<1> QED BY <1>1, <1>2, <1>3, <1>4, <1>5, <1>6, <1>7 DEF Next

\* Only a worker's update makes a row succeed, only emit() makes one be there, and only an
\* update or redeliver() takes success away
RowGoes(r) ==
    /\ rows'[r].succeeded =>
         rows[r].succeeded \/ \E w \in Workers : Write(w) /\ worker[w].job[2] = r
    /\ rows'[r].there =>
         rows[r].there \/ \E e \in Events, h \in Hooks : r = <<e, h>> /\ EmitCreate(e, h)
    /\ rows'[r].succeeded => rows'[r].there
    /\ rows[r].succeeded /\ rows'[r].there /\ ~rows'[r].succeeded =>
         \/ \E w \in Workers : Write(w) /\ worker[w].job[2] = r
         \/ RedeliverWrite(r)
         \/ \E e \in Events, h \in Hooks : r = <<e, h>> /\ EmitCreate(e, h)

LEMMA RowsGo ==
    ASSUME FinalInv, [Next]_vars, NEW r \in Rows
    PROVE  RowGoes(r)
<1>1. TypeOK /\ rows[r] \in RowType /\ (rows[r].succeeded => rows[r].there)
  BY DEF FinalInv, TypeOK
<1>2. CASE UNCHANGED rows
  BY <1>1, <1>2 DEF RowGoes
<1>3. ASSUME NEW e \in Events, NEW h \in Hooks, EmitCreate(e, h) PROVE RowGoes(r)
  <2>1. CASE rows' = rows
    BY <1>2, <2>1
  <2>2. CASE rows' = [rows EXCEPT ![<<e, h>>] = NewRow]
    <3>1. NewRow.there /\ ~NewRow.succeeded
      BY DEF NewRow, NoRow
    <3>2. rows'[r] = IF r = <<e, h>> THEN NewRow ELSE rows[r]
      BY <1>1, <2>2 DEF TypeOK
    <3> QED BY <1>1, <1>3, <3>1, <3>2 DEF RowGoes
  <2> QED BY <1>3, <2>1, <2>2 DEF EmitCreate
<1>4. ASSUME NEW w \in Workers, Write(w) PROVE RowGoes(r)
  <2>1. CASE rows' = rows
    BY <1>2, <2>1
  <2>2. CASE rows' # rows
    <3> DEFINE q == RowOf(w)
               new == Updated(rows[q], worker[w].attempt, worker[w].outcome)
    <3>1. rows[q].there /\ rows' = [rows EXCEPT ![q] = new] /\ q \in Rows
      BY <1>1, <1>4, <2>2, RowOfIsRow DEF Write
    <3>2. new.there = rows[q].there
      <4>1. rows[q] \in RowType
        BY <1>1, <3>1 DEF TypeOK
      <4> QED BY <4>1 DEF Updated, RowType
    <3> HIDE DEF new
    <3>3. rows'[r] = IF r = q THEN new ELSE rows[r]
      BY <1>1, <3>1 DEF TypeOK
    <3>4. q = worker[w].job[2]
      BY DEF RowOf
    <3> HIDE DEF q
    <3> QED BY <1>1, <1>4, <3>1, <3>2, <3>3, <3>4 DEF RowGoes
  <2> QED BY <2>1, <2>2
<1>5. ASSUME NEW h \in Hooks, Remove(h) PROVE RowGoes(r)
  <2>1. rows'[r] = (IF r[2] = h THEN NoRow ELSE rows[r]) /\ ~NoRow.there /\ ~NoRow.succeeded
    BY <1>5 DEF Remove, NoRow
  <2> QED BY <1>1, <2>1 DEF RowGoes
<1>6. ASSUME NEW s \in Rows, RedeliverWrite(s) PROVE RowGoes(r)
  <2>1. /\ rows'[r].there = rows[r].there /\ (rows'[r].succeeded => rows[r].succeeded)
        /\ r # s => rows'[r] = rows[r]
    BY <1>1, <1>6 DEF RedeliverWrite, TypeOK, RowType
  <2> QED BY <1>1, <1>6, <2>1 DEF RowGoes
<1>7. ASSUME NEW s \in Rows, BecomesDue(s) PROVE RowGoes(r)
  <2>1. rows'[r].there = rows[r].there /\ rows'[r].succeeded = rows[r].succeeded
    BY <1>1, <1>7 DEF BecomesDue, TypeOK, RowType
  <2> QED BY <1>1, <2>1 DEF RowGoes
<1> QED BY <1>1, <1>2, <1>3, <1>4, <1>5, <1>6, <1>7, RowSteps

\* A worker is between read and update because it was, of the same row, or because it has
\* just read a row that did not succeed; after its update it is no more
LEMMA WorkersRead ==
    ASSUME TypeOK, [Next]_vars, NEW w \in Workers, Reads(w)'
    PROVE  /\ worker'[w].job = worker[w].job /\ ~Write(w)
           /\ Reads(w) \/ (UNCHANGED rows /\ ~rows[RowOf(w)].succeeded)
<1> DEFINE Goal == /\ worker'[w].job = worker[w].job /\ ~Write(w)
                   /\ Reads(w) \/ (UNCHANGED rows /\ ~rows[RowOf(w)].succeeded)
<1> USE DEF Reads
<1>6. ~Write(w)
  <2> SUFFICES ASSUME Write(w) PROVE FALSE
    OBVIOUS
  <2>1. worker' = [worker EXCEPT ![w] = Idle]
        \/ worker' = [worker EXCEPT ![w].pc = "add"] \/ worker' = [worker EXCEPT ![w].pc = "end"]
    BY DEF Write, Finish
  <2>2. worker'[w].pc \in {"idle", "add", "end"}
    BY <2>1 DEF Idle, TypeOK, WorkerType
  <2> QED BY <2>2
<1>1. CASE UNCHANGED worker
  BY <1>1, <1>6
<1>2. CASE Processor
  <2>1. PICK v \in Workers : \/ \E j \in JobIds : Take(v, j)
                             \/ ReadRow(v) \/ ReadHook(v) \/ Post(v) \/ Write(v) \/ AddRetry(v) \/ Return(v)
    BY <1>2 DEF Processor
  <2>2. ASSUME NEW j \in JobIds, Take(v, j) PROVE Goal
    BY <1>6, <2>2 DEF Take, Idle, TypeOK, WorkerType
  <2>3. CASE ReadRow(v)
    BY <1>6, <2>3 DEF ReadRow, Deliverable, Finish, Idle, TypeOK, WorkerType, RowOf
  <2>4. CASE ReadHook(v)
    BY <1>6, <2>4 DEF ReadHook, TypeOK, WorkerType
  <2>5. CASE Post(v)
    BY <1>6, <2>5 DEF Post, TypeOK, WorkerType
  <2>6. CASE Write(v)
    BY <1>6, <2>6 DEF Write, Finish, Idle, TypeOK, WorkerType
  <2>7. CASE AddRetry(v)
    BY <1>6, <2>7 DEF AddRetry, TypeOK, WorkerType
  <2>8. CASE Return(v)
    BY <1>6, <2>8 DEF Return, Finish, Idle, TypeOK, WorkerType
  <2> QED BY <2>1, <2>2, <2>3, <2>4, <2>5, <2>6, <2>7, <2>8
<1>3. CASE Environment
  <2>1. CASE Flush \/ \E j \in JobIds : Evict(j)
    BY <1>1, <2>1 DEF Flush, Evict
  <2>2. ASSUME NEW v \in Workers, Crash(v) PROVE Goal
    <3>1. worker' = [worker EXCEPT ![v] = Idle] /\ UNCHANGED rows
      BY <2>2 DEF Crash
    <3>2. w # v /\ worker'[w] = worker[w]
      BY <3>1 DEF Idle, TypeOK
    <3> QED BY <1>6, <3>2
  <2>3. ASSUME NEW v \in Workers, Throws(v) PROVE Goal
    <3>1. worker' = [worker EXCEPT ![v] = Idle] /\ UNCHANGED rows
      BY <2>3 DEF Throws, Finish
    <3>2. w # v /\ worker'[w] = worker[w]
      BY <3>1 DEF Idle, TypeOK
    <3> QED BY <1>6, <3>2
  <2> QED BY <1>3, <2>1, <2>2, <2>3 DEF Environment
<1>4. CASE Dispatcher \/ RetryScheduler \/ Admin \/ Clock
  <2>1. UNCHANGED worker
    <3>1. CASE Dispatcher
      BY <3>1 DEF Dispatcher, EmitRead, EmitAddFails, EmitAdd, EmitCreate
    <3>2. CASE RetryScheduler
      BY <3>2 DEF RetryScheduler, SweepRead, SweepAddFails, SweepAdd
    <3>3. CASE Admin
      BY <3>3 DEF Admin, Create, SetActive, RotateSecret, Remove, RedeliverWrite, RedeliverAdd,
                  RedeliverAddFails
    <3>4. CASE Clock
      BY <3>4 DEF Clock, BecomesDue, DelayEnds
    <3> QED BY <1>4, <3>1, <3>2, <3>3, <3>4
  <2> QED BY <1>1, <2>1
<1>5. CASE UNCHANGED vars
  BY <1>1, <1>5 DEF vars
<1> QED BY <1>1, <1>2, <1>3, <1>4, <1>5 DEF Next

\* emit() does not come back to a webhook
LEMMA EmitGoesOn ==
    ASSUME TypeOK, [Next]_vars, NEW e \in Events, NEW h \in Hooks, NotYet(e, h)'
    PROVE  NotYet(e, h) /\ (EmitCreate(e, h) => UNCHANGED rows)
<1> USE DEF NotYet
<1> DEFINE Goal == NotYet(e, h) /\ (EmitCreate(e, h) => UNCHANGED rows)
<1>1. CASE UNCHANGED emit
  BY <1>1 DEF EmitCreate, TypeOK, EmitType
<1>2. CASE Dispatcher
  <2>1. PICK d \in Events : \/ EmitRead(d) \/ EmitAddFails(d)
                            \/ \E k \in Hooks : EmitCreate(d, k)
                            \/ \E r \in Rows : EmitAdd(d, r)
    BY <1>2 DEF Dispatcher
  <2>2. CASE EmitRead(d)
    BY <2>2 DEF EmitRead, EmitCreate, TypeOK, EmitType
  <2>3. CASE EmitAddFails(d)
    BY <2>3 DEF EmitAddFails, EmitCreate, TypeOK, EmitType
  <2>4. ASSUME NEW k \in Hooks, EmitCreate(d, k) PROVE Goal
    BY <2>4 DEF EmitCreate, TypeOK, EmitType
  <2>5. ASSUME NEW r \in Rows, EmitAdd(d, r) PROVE Goal
    BY <2>5 DEF EmitAdd, AfterAdd, EmitCreate, TypeOK, EmitType
  <2> QED BY <2>1, <2>2, <2>3, <2>4, <2>5
<1>3. CASE Processor
  <2>1. UNCHANGED emit
    BY <1>3 DEF Processor, Take, ReadRow, ReadHook, Post, Write, AddRetry, Return
  <2> QED BY <1>1, <2>1
<1>4. CASE RetryScheduler \/ Admin \/ Clock \/ Environment
  <2>1. UNCHANGED emit
    <3>1. CASE Environment
      BY <3>1 DEF Environment, Flush, Crash, Throws, Evict
    <3>2. CASE RetryScheduler
      BY <3>2 DEF RetryScheduler, SweepRead, SweepAddFails, SweepAdd
    <3>3. CASE Admin
      BY <3>3 DEF Admin, Create, SetActive, RotateSecret, Remove, RedeliverWrite, RedeliverAdd,
                  RedeliverAddFails
    <3>4. CASE Clock
      BY <3>4 DEF Clock, BecomesDue, DelayEnds
    <3> QED BY <1>4, <3>1, <3>2, <3>3, <3>4
  <2> QED BY <1>1, <2>1
<1>5. CASE UNCHANGED vars
  BY <1>1, <1>5 DEF vars
<1> QED BY <1>1, <1>2, <1>3, <1>4, <1>5 DEF Next

LEMMA FinalInit == Init => FinalInv
<1> SUFFICES ASSUME Init PROVE FinalInv
  OBVIOUS
<1>1. TypeOK
  BY InitTypeOK
<1>2. \A r \in Rows : ~rows[r].succeeded /\ ~rows[r].there
  BY DEF Init, NoRow
<1>3. \A w \in Workers : ~Reads(w)
  BY DEF Init, Idle, Reads
<1>4. \A e \in Events, h \in Hooks : <<e, h>> \in Rows
  BY DEF Rows
<1> QED BY <1>1, <1>2, <1>3, <1>4 DEF FinalInv

LEMMA FinalStep == OneSlot /\ FinalInv /\ [Next]_vars => FinalInv'
<1> SUFFICES ASSUME OneSlot, FinalInv, [Next]_vars PROVE FinalInv'
  OBVIOUS
<1>1. TypeOK /\ TypeOK'
  BY NextTypeOK DEF FinalInv
<1>2. \A r \in Rows : RowGoes(r)
  BY RowsGo
<1>3. \A r \in Rows : rows'[r].succeeded => rows'[r].there
  BY <1>2 DEF RowGoes
<1>4. ASSUME NEW w \in Workers, Reads(w)' PROVE ~rows'[RowOf(w)'].succeeded
  <2>1. /\ worker'[w].job = worker[w].job /\ ~Write(w)
        /\ Reads(w) \/ (UNCHANGED rows /\ ~rows[RowOf(w)].succeeded)
    BY <1>1, <1>4, WorkersRead
  <2>2. RowOf(w)' = RowOf(w) /\ RowOf(w) = worker[w].job[2]
    BY <2>1 DEF RowOf
  <2>3. CASE Reads(w)
    <3>1. RowOf(w) \in Rows /\ ~rows[RowOf(w)].succeeded
      BY <1>1, <2>3, RowOfIsRow DEF FinalInv, Reads
    <3>2. \A v \in Workers : ~Write(v)
      BY <2>1 DEF OneSlot
    <3> QED BY <1>2, <2>2, <3>1, <3>2 DEF RowGoes
  <2> QED BY <2>1, <2>2, <2>3
<1>5. ASSUME NEW e \in Events, NEW h \in Hooks, NotYet(e, h)' PROVE ~rows'[<<e, h>>].there
  <2>1. NotYet(e, h) /\ (EmitCreate(e, h) => UNCHANGED rows)
    BY <1>1, <1>5, EmitGoesOn
  <2>2. <<e, h>> \in Rows /\ ~rows[<<e, h>>].there
    BY <2>1 DEF FinalInv, Rows
  <2>3. rows'[<<e, h>>].there =>
          \E d \in Events, k \in Hooks : <<e, h>> = <<d, k>> /\ EmitCreate(d, k)
    BY <1>2, <2>2 DEF RowGoes
  <2>4. rows'[<<e, h>>].there => EmitCreate(e, h)
    BY <2>3
  <2> QED BY <2>1, <2>2, <2>4
<1> QED BY <1>1, <1>3, <1>4, <1>5 DEF FinalInv

\* With one worker, no job of a row takes its success back: what the worker read before its
\* update was not delivered and is not until then, and redeliver() alone resets it.
THEOREM SuccessStays == OneSlot => (Spec => SuccessIsFinal)
<1> SUFFICES ASSUME OneSlot PROVE Spec => SuccessIsFinal
  OBVIOUS
<1> DEFINE Takes == \A r \in Rows :
                        rows[r].succeeded /\ rows'[r].there /\ ~rows'[r].succeeded
                          => redeliver'[r].calls > redeliver[r].calls
<1>1. ASSUME FinalInv, [Next]_vars, NEW r \in Rows,
             rows[r].succeeded, rows'[r].there, ~rows'[r].succeeded
      PROVE  redeliver'[r].calls > redeliver[r].calls
  <2>1. RowGoes(r) /\ TypeOK
    BY <1>1, RowsGo DEF FinalInv
  <2>2. \A w \in Workers : ~(Write(w) /\ worker[w].job[2] = r)
    BY <1>1 DEF FinalInv, Reads, Write, RowOf
  <2>3. \A e \in Events, h \in Hooks : ~(r = <<e, h>> /\ EmitCreate(e, h))
    <3> SUFFICES ASSUME NEW e \in Events, NEW h \in Hooks, r = <<e, h>>, EmitCreate(e, h) PROVE FALSE
      OBVIOUS
    <3>1. NotYet(e, h)
      BY DEF EmitCreate, NotYet
    <3> QED BY <1>1, <3>1 DEF FinalInv
  <2>4. RedeliverWrite(r)
    BY <1>1, <2>1, <2>2, <2>3 DEF RowGoes
  <2> QED BY <2>1, <2>4 DEF RedeliverWrite, TypeOK, RedeliverType
<1>2. FinalInv /\ [Next]_vars => [Takes]_vars
  BY <1>1
<1>3. FinalInv /\ [Next]_vars => FinalInv'
  BY FinalStep
<1> HIDE DEF Takes
<1>4. Spec => [][Takes]_vars
  BY <1>2, <1>3, FinalInit, PTL DEF Spec
<1> QED BY <1>4 DEF SuccessIsFinal, Takes
================================================================================
