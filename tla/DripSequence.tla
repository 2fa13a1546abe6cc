----------------------------- MODULE DripSequence -----------------------------
(***************************************************************************)
(* A drip sequence: sequences/sequences.service.ts, its scheduler and its  *)
(* queue processor.                                                        *)
(*                                                                         *)
(* An enrollment walks the positions of its sequence.  The scheduler       *)
(* queues a job for its current position; the job reads, mails and commits *)
(* in one transaction, which the mail does not belong to, while people     *)
(* pause the sequence, edit its steps and unenroll recipients.             *)
(***************************************************************************)
EXTENDS Integers, FiniteSets

CONSTANTS Steppers,   \* jobs in progress at one time
          Enrollees,
          LastPosition,
          MaxRollbacks  \* bound: transactions that fail

VARIABLES
    sequence,   \* "none" | "draft" | "active" | "paused" | "deleted"
    step,       \* sequence_steps.type by position, "none" for no step
    removing,   \* a remove() that has read a draft
    enrollment, \* a row with status, position and whether it is due, or NotEnrolled
    executed,   \* the number of sequence_step_executions by enrollee and position
    posted,     \* history: emails queued, by enrollee and position
    stepJob,    \* the BullMQ job seq:<id>:step:<n>: "none" | "waiting" | "active" | "kept"
    stepper,    \* what each running job holds
    rollbacks   \* history: failed transactions

sequenceVars == <<sequence, step, removing, enrollment, executed, posted, stepJob, stepper,
                  rollbacks>>
jobVars      == <<executed, posted, stepJob, stepper, rollbacks>>

Positions == 0..LastPosition
Steps     == Enrollees \X Positions

Idle        == [pc |-> "idle"]
NotEnrolled == [status |-> "none", at |-> 0, due |-> FALSE]

Init ==
    /\ sequence = "none" /\ removing = FALSE /\ rollbacks = 0
    /\ step = [n \in Positions |-> "none"]
    /\ enrollment = [e \in Enrollees |-> NotEnrolled]
    /\ executed = [s \in Steps |-> 0] /\ posted = [s \in Steps |-> 0]
    /\ stepJob = [s \in Steps |-> "none"]
    /\ stepper = [w \in Steppers |-> Idle]

--------------------------------------------------------------------------------
(* People: each operation reads the row and writes it later, but the writes look at
   nothing that was read *)

Create ==
    /\ sequence = "none" /\ sequence' = "draft"
    /\ UNCHANGED <<removing, step, enrollment, jobVars>>

RemoveRead ==
    /\ sequence = "draft" /\ removing' = TRUE
    /\ UNCHANGED <<sequence, step, enrollment, jobVars>>

\* Active by now, perhaps: its enrollments and their executions go along
RemoveWrite ==
    /\ removing /\ removing' = FALSE
    /\ sequence' = "deleted"
    /\ step' = [n \in Positions |-> "none"]
    /\ enrollment' = [e \in Enrollees |->
                        IF enrollment[e] = NotEnrolled THEN NotEnrolled
                        ELSE [enrollment[e] EXCEPT !.status = "deleted", !.due = FALSE]]
    /\ UNCHANGED jobVars

Exists == sequence \in {"draft", "active", "paused"}

Activate ==
    /\ Exists /\ \E n \in Positions : step[n] # "none"
    /\ sequence' = "active"
    /\ UNCHANGED <<removing, step, enrollment, jobVars>>

Pause ==
    /\ Exists /\ sequence' = "paused"
    /\ UNCHANGED <<removing, step, enrollment, jobVars>>

Resume ==
    /\ sequence = "paused" /\ sequence' = "active"
    /\ UNCHANGED <<removing, step, enrollment, jobVars>>

\* addStep, updateStep, removeStep, at any time; a position is taken once
EditStep(n) ==
    /\ Exists
    /\ \E type \in {"none", "email", "other"} \ {step[n]} : step' = [step EXCEPT ![n] = type]
    /\ UNCHANGED <<removing, sequence, enrollment, jobVars>>

\* updateStep to a free position
MoveStep(m, n) ==
    /\ Exists /\ step[m] # "none" /\ step[n] = "none"
    /\ step' = [step EXCEPT ![m] = "none", ![n] = step[m]]
    /\ UNCHANGED <<removing, sequence, enrollment, jobVars>>

Compact(s) == \A n \in Positions : n > 0 /\ s[n] # "none" => s[n - 1] # "none"
Count(s, type) == Cardinality({n \in Positions : s[n] = type})

\* The same steps in any order, on the positions from 0
ReorderSteps ==
    /\ Exists /\ \E n \in Positions : step[n] # "none"
    /\ step' \in {s \in [Positions -> {"none", "email", "other"}] :
                    Compact(s) /\ \A t \in {"email", "other"} : Count(s, t) = Count(step, t)}
    /\ UNCHANGED <<removing, sequence, enrollment, jobVars>>

\* Once per sequence and recipient
Enroll(e) ==
    /\ sequence = "active" /\ step[0] # "none"
    /\ enrollment[e] = NotEnrolled
    /\ \E due \in BOOLEAN :
         enrollment' = [enrollment EXCEPT ![e] = [status |-> "active", at |-> 0, due |-> due]]
    /\ UNCHANGED <<removing, sequence, step, jobVars>>

Unenroll(e) ==
    /\ enrollment[e].status \notin {"none", "deleted"}
    /\ enrollment' = [enrollment EXCEPT ![e].status = "unenrolled", ![e].due = FALSE]
    /\ UNCHANGED <<removing, sequence, step, jobVars>>

--------------------------------------------------------------------------------
(* The scheduler *)

\* nextStepAt passes
BecomesDue(e) ==
    /\ enrollment[e].status = "active" /\ ~enrollment[e].due
    /\ enrollment' = [enrollment EXCEPT ![e].due = TRUE]
    /\ UNCHANGED <<removing, sequence, step, jobVars>>

\* scanDue; an id BullMQ knows is ignored
ScanDue(e) ==
    LET s == <<e, enrollment[e].at>> IN
    /\ sequence = "active" /\ enrollment[e].status = "active" /\ enrollment[e].due
    /\ s[2] \in Positions /\ stepJob[s] = "none"
    /\ stepJob' = [stepJob EXCEPT ![s] = "waiting"]
    /\ UNCHANGED <<removing, sequence, step, enrollment, executed, posted, stepper, rollbacks>>

\* A hundred later jobs push a finished one out
Evict(s) ==
    /\ stepJob[s] = "kept"
    /\ stepJob' = [stepJob EXCEPT ![s] = "none"]
    /\ UNCHANGED <<removing, sequence, step, enrollment, executed, posted, stepper, rollbacks>>

--------------------------------------------------------------------------------
(* The processor: executeStep *)

Current(s) == enrollment[s[1]].status = "active" /\ enrollment[s[1]].at = s[2]

\* What is to be done for a step, from the rows as they are
Task(s) ==
    IF ~Current(s) \/ sequence # "active" THEN "skip"
    ELSE IF executed[s] > 0 THEN "advance"
    ELSE IF step[s[2]] = "none" THEN "fail"
    ELSE step[s[2]]

Take(w, s) ==
    /\ stepper[w] = Idle /\ stepJob[s] = "waiting"
    /\ IF Task(s) = "skip"
         THEN stepJob' = [stepJob EXCEPT ![s] = "kept"] /\ UNCHANGED stepper
         ELSE /\ stepJob' = [stepJob EXCEPT ![s] = "active"]
              /\ stepper' = [stepper EXCEPT ![w] = [pc |-> Task(s), step |-> s]]
    /\ UNCHANGED <<removing, sequence, step, enrollment, executed, posted, rollbacks>>

\* The address is suppressed, or emails.queue() accepts, or it throws and yet accepts
Email(w) ==
    LET s == stepper[w].step IN
    /\ stepper[w].pc = "email"
    /\ posted' \in {posted, [posted EXCEPT ![s] = @ + 1]}
    /\ stepper' = [stepper EXCEPT ![w].pc = "mailed"]
    /\ UNCHANGED <<removing, sequence, step, enrollment, executed, stepJob, rollbacks>>

Executions(pc) == IF pc \in {"other", "mailed", "fail"} THEN 1 ELSE 0

\* Mutant: the date is moved and the position is not
AdvancedInPlace(row, n) == {[row EXCEPT !.due = due] : due \in BOOLEAN}

\* advance(): the next position or the end; the status is not looked at
Advanced(row, n) ==
    IF n \in Positions /\ step[n] # "none"
      THEN {[row EXCEPT !.at = n, !.due = due] : due \in BOOLEAN}
      ELSE {[row EXCEPT !.at = n, !.status = "completed", !.due = FALSE]}

Failed(row) == [row EXCEPT !.status = "failed", !.due = FALSE]

CountRollback == rollbacks < MaxRollbacks /\ rollbacks' = rollbacks + 1

\* The execution row and the enrollment, in one transaction; a process that dies before
\* it has reported the end leaves a stalled job, which is run again
Commit(w) ==
    LET s == stepper[w].step
        row == enrollment[s[1]] IN
    /\ stepper[w].pc \in {"other", "mailed", "advance", "fail"} /\ row.status # "deleted"
    /\ executed' = [executed EXCEPT ![s] = @ + Executions(stepper[w].pc)]
    /\ \E new \in IF stepper[w].pc = "fail" THEN {Failed(row)} ELSE Advanced(row, s[2] + 1) :
         enrollment' = [enrollment EXCEPT ![s[1]] = new]
    /\ stepper' = [stepper EXCEPT ![w] = Idle]
    /\ \/ stepJob' = [stepJob EXCEPT ![s] = "kept"] /\ UNCHANGED rollbacks
       \/ stepJob' = [stepJob EXCEPT ![s] = "waiting"] /\ CountRollback
    /\ UNCHANGED <<removing, sequence, step, posted>>

\* The transaction fails or the process dies: BullMQ tries again, up to a limit
Rollback(w) ==
    LET s == stepper[w].step IN
    /\ stepper[w] # Idle
    /\ \/ CountRollback
       \/ enrollment[s[1]].status = "deleted" /\ UNCHANGED rollbacks
    /\ \E after \in {"waiting", "kept"} : stepJob' = [stepJob EXCEPT ![s] = after]
    /\ stepper' = [stepper EXCEPT ![w] = Idle]
    /\ UNCHANGED <<removing, sequence, step, enrollment, executed, posted>>

--------------------------------------------------------------------------------
People ==
    \/ Create \/ RemoveRead \/ RemoveWrite \/ Activate \/ Pause \/ Resume \/ ReorderSteps
    \/ \E n \in Positions : EditStep(n)
    \/ \E m, n \in Positions : MoveStep(m, n)
    \/ \E e \in Enrollees : Enroll(e) \/ Unenroll(e)

Next ==
    \/ People
    \/ \E e \in Enrollees : BecomesDue(e) \/ ScanDue(e)
    \/ \E s \in Steps : Evict(s)
    \/ \E w \in Steppers, s \in Steps : Take(w, s)
    \/ \E w \in Steppers : Email(w) \/ Commit(w) \/ Rollback(w)

Spec == Init /\ [][Next]_sequenceVars

--------------------------------------------------------------------------------
(* Properties *)

TypeOK ==
    /\ sequence \in {"none", "draft", "active", "paused", "deleted"}
    /\ step \in [Positions -> {"none", "email", "other"}]
    /\ enrollment \in [Enrollees ->
         [status : {"none", "active", "completed", "unenrolled", "failed",
                   "deleted"},
          at : 0..LastPosition + 1, due : BOOLEAN]]
    /\ executed \in [Steps -> Nat] /\ posted \in [Steps -> Nat]
    /\ stepJob \in [Steps -> {"none", "waiting", "active", "kept"}]
    /\ stepper \in [Steppers -> {Idle}
         \cup [pc : {"email", "mailed", "other", "advance", "fail"}, step : Steps]]
    /\ removing \in BOOLEAN /\ rollbacks \in 0..MaxRollbacks

\* "executeStep is idempotent so a retry won't double-execute a step": however jobs are
\* retried, evicted and queued again, steps edited and moved and recipients unenrolled,
\* the executions of an enrollment are the positions it has passed, once each, and the
\* one it failed at; and no email goes out twice but for a transaction that failed.
FailedAt(s) ==
    /\ enrollment[s[1]].at = s[2] /\ enrollment[s[1]].status \in {"failed", "unenrolled"}
    /\ executed[s] > 0

StepsRunOnce ==
    \A s \in Steps :
        /\ enrollment[s[1]].status # "deleted" =>
             executed[s] = IF s[2] < enrollment[s[1]].at THEN 1
                           ELSE IF FailedAt(s) THEN 1 ELSE 0
        /\ posted[s] <= 1 + rollbacks

================================================================================
