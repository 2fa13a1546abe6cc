------------------------------ MODULE BillingProofs ------------------------------
(***************************************************************************)
(* Proofs about RecurringInvoices, SubscriptionBilling and Drafting as     *)
(* MCServices composes them, for any number of runs, ticks and requests    *)
(* and any bounds.                                                         *)
(***************************************************************************)
EXTENDS MCServices, FunctionTheorems, SumLemmas

\* Whatever part a behaviour is of, the rows of a service move as its own steps move them
LEMMA SourceMoves == [ServicesNext]_vars => [R!Next]_sourceRows
BY DEF ServicesNext, vars, BillingSteps, SourceSteps, DraftingSteps, BillingRests

LEMMA BillingMoves == [ServicesNext]_vars => [B!Next]_billingRows
BY DEF ServicesNext, vars, BillingSteps, SourceSteps, DraftingSteps, BillingRests

LEMMA DraftingMoves == [ServicesNext]_vars => [E!Next]_draftingRows
BY DEF ServicesNext, vars, BillingSteps, SourceSteps, DraftingSteps, BillingRests

--------------------------------------------------------------------------------
(* Recurring invoices *)

Invoice == [there : {TRUE}, status : {"draft", "open", "cancelled"}, recurring : BOOLEAN,
            cap : R!Caps, due : {"never", "later", "now"}, completed : 0 .. MaxDrafts]

HeldRun == [pc : {"held"}, by : {"user", "job"}, cap : R!Caps, completed : 0 .. MaxDrafts]

Holds(w) == run[w].pc = "held"

\* A run has read a count that the drafts have reached, and the limit of the invoice unless
\* it was edited since
RunsKnow ==
    \A w \in Workers : Holds(w) =>
        /\ source.there /\ run[w].completed <= drafts
        /\ ~recapped => run[w].cap = source.cap

CyclesInv == R!TypeOK /\ RunsKnow /\ R!CyclesCounted /\ (~source.there => drafts = 0)

\* What the invoice and the runs are, by the type invariant
LEMMA SourceFields ==
    ASSUME R!TypeOK
    PROVE  /\ source \in {R!Absent} \cup Invoice /\ source.there \in BOOLEAN
           /\ source.there => source \in Invoice
           /\ source = R!Absent <=> ~source.there
           /\ run \in [Workers -> {R!Resting} \cup HeldRun]
           /\ \A w \in Workers : /\ Holds(w) => run[w] \in HeldRun
                                 /\ run[w] = R!Resting <=> ~Holds(w)
           /\ MaxDrafts \in Nat /\ MaxCap \in Nat /\ MaxChecks \in Nat
           /\ drafts \in 0 .. MaxDrafts /\ checks \in 0 .. MaxChecks
           /\ raced \in BOOLEAN /\ recapped \in BOOLEAN
<1>1. ~R!Absent.there /\ R!Absent.there \in BOOLEAN /\ \A i \in Invoice : i.there = TRUE
  BY DEF R!Absent, Invoice
<1>2. source \in {R!Absent} \cup Invoice
  BY DEF R!TypeOK, R!SourceType, Invoice
<1>3. R!Resting.pc # "held" /\ \A r \in HeldRun : r.pc = "held"
  BY DEF R!Resting, HeldRun
<1>4. run \in [Workers -> {R!Resting} \cup HeldRun]
  BY DEF R!TypeOK, HeldRun
<1>5. \A w \in Workers : (Holds(w) => run[w] \in HeldRun) /\ (run[w] = R!Resting <=> ~Holds(w))
  BY <1>3, <1>4 DEF Holds
<1>6. MaxDrafts \in Nat /\ MaxCap \in Nat /\ MaxChecks \in Nat
  BY ServicesBounds
<1> QED BY <1>1, <1>2, <1>4, <1>5, <1>6 DEF R!TypeOK

LEMMA CyclesInit == R!Init => CyclesInv
<1>1. MaxDrafts \in Nat /\ MaxChecks \in Nat
  BY ServicesBounds
<1>2. R!Init => ~source.there /\ \A w \in Workers : ~Holds(w)
  BY DEF R!Init, R!Absent, R!Resting, Holds
<1>3. R!Init => R!TypeOK
  <2>1. 0 \in 0 .. MaxDrafts /\ 0 \in 0 .. MaxChecks
    BY <1>1
  <2> QED BY <2>1 DEF R!Init, R!TypeOK, R!SourceType
<1> QED BY <1>2, <1>3 DEF R!Init, CyclesInv, RunsKnow, R!CyclesCounted

\* The invoice is edited and nothing else happens
LEMMA SourceEdited ==
    ASSUME CyclesInv,
           R!Create \/ R!Update \/ R!StatusMoves \/ R!StopRecurring \/ R!BecomesDue
    PROVE  CyclesInv'
<1>1. /\ R!TypeOK /\ MaxDrafts \in Nat /\ UNCHANGED <<drafts, checks, run, raced>>
      /\ drafts \in Nat
      /\ source.there => source \in Invoice
      /\ source = R!Absent <=> ~source.there
  <2>1. R!TypeOK /\ UNCHANGED <<drafts, checks, run, raced>>
    BY DEF CyclesInv, R!Create, R!Update, R!StatusMoves, R!StopRecurring, R!BecomesDue
  <2> QED BY <2>1, SourceFields
<1>2. CASE R!Create
  <2>1. source' \in Invoice /\ source'.completed = 0 /\ UNCHANGED recapped
    BY <1>1, <1>2 DEF R!Create, Invoice
  <2>2. ~source.there /\ drafts = 0 /\ \A w \in Workers : ~Holds(w)
    BY <1>1, <1>2 DEF R!Create, CyclesInv, RunsKnow
  <2>3. R!TypeOK'
    BY <1>1, <2>1 DEF R!TypeOK, R!SourceType, Invoice
  <2>4. source'.cap = R!NoCap \/ 0 <= source'.cap
    BY <2>1, ServicesBounds DEF Invoice, R!Caps, R!NoCap
  <2> QED BY <1>1, <2>1, <2>2, <2>3, <2>4
       DEF CyclesInv, RunsKnow, Holds, R!CyclesCounted, Invoice
<1>3. CASE ~R!Create
  <2>0. source \in Invoice /\ recapped \in BOOLEAN
    <3>1. source.there
      BY <1>3 DEF R!Update, R!StatusMoves, R!StopRecurring, R!BecomesDue
    <3> QED BY <1>1, <3>1 DEF R!TypeOK
  <2>1. /\ source' \in Invoice /\ source'.completed = source.completed
        /\ recapped' \in BOOLEAN
        /\ recapped => recapped'
        /\ source'.cap = source.cap \/ recapped'
    <3>1. CASE R!Update
      BY <2>0, <3>1 DEF R!Update, Invoice
    <3>2. CASE R!StatusMoves \/ R!StopRecurring \/ R!BecomesDue
      BY <2>0, <3>2 DEF R!StatusMoves, R!StopRecurring, R!BecomesDue, Invoice
    <3> QED BY <1>3, <3>1, <3>2
  <2>2. R!TypeOK'
    <3>1. source' \in R!SourceType
      BY <2>1 DEF R!SourceType, Invoice
    <3> QED BY <1>1, <2>1, <3>1 DEF R!TypeOK
  <2>3. source.there /\ source'.there
    BY <2>0, <2>1 DEF Invoice
  <2>4. RunsKnow'
    BY <1>1, <2>1, <2>3 DEF CyclesInv, RunsKnow, Holds
  <2>5. R!CyclesCounted'
    BY <1>1, <2>1, <2>3 DEF CyclesInv, R!CyclesCounted
  <2> QED BY <1>1, <2>2, <2>3, <2>4, <2>5 DEF CyclesInv
<1> QED BY <1>2, <1>3

\* A run takes the invoice as it is
LEMMA RunBegins ==
    ASSUME CyclesInv, NEW w \in Workers, R!RunNowRead(w) \/ R!Process(w)
    PROVE  CyclesInv'
<1>1. /\ R!TypeOK /\ UNCHANGED <<source, drafts, raced, recapped>>
      /\ source.there => source \in Invoice
      /\ run \in [Workers -> {R!Resting} \cup HeldRun] /\ source.there \in BOOLEAN
      /\ MaxDrafts \in Nat /\ MaxChecks \in Nat
  BY SourceFields DEF CyclesInv, R!RunNowRead, R!Process
<1>2. checks' \in 0 .. MaxChecks
  BY <1>1 DEF R!TypeOK, R!RunNowRead, R!Process
<1>3. \/ UNCHANGED run
      \/ source.there /\ \E by \in {"user", "job"} : run' = [run EXCEPT ![w] = R!Held(by)]
  BY <1>1 DEF R!RunNowRead, R!Process, R!Due
<1>4. CASE UNCHANGED run
  BY <1>1, <1>2, <1>4 DEF CyclesInv, R!TypeOK, RunsKnow, Holds, R!CyclesCounted
<1>5. ASSUME source.there, NEW by \in {"user", "job"}, run' = [run EXCEPT ![w] = R!Held(by)]
      PROVE  CyclesInv'
  <2>1. /\ R!Held(by) \in HeldRun /\ R!Held(by).cap = source.cap
        /\ R!Held(by).completed = source.completed
    BY <1>1, <1>5 DEF R!Held, HeldRun, Invoice
  <2>2. R!TypeOK'
    BY <1>1, <1>2, <1>5, <2>1 DEF R!TypeOK, HeldRun
  <2>3. source.completed <= drafts
    BY <1>5 DEF CyclesInv, R!CyclesCounted
  <2>4. \A v \in Workers : run'[v] = IF v = w THEN R!Held(by) ELSE run[v]
    BY <1>1, <1>5
  <2>5. RunsKnow'
    BY <1>1, <1>5, <2>1, <2>3, <2>4 DEF CyclesInv, RunsKnow, Holds
  <2> QED BY <1>1, <2>2, <2>5 DEF CyclesInv, R!CyclesCounted
<1> QED BY <1>3, <1>4, <1>5

\* A run ends, and has written nothing or stopped the recurrence
LEMMA RunEnds ==
    ASSUME CyclesInv, NEW w \in Workers, Holds(w), R!Release(w), checks' \in 0 .. MaxChecks,
           UNCHANGED <<drafts, raced, recapped>>,
           source' \in {source, [source EXCEPT !.recurring = FALSE]}
    PROVE  CyclesInv'
<1>1. /\ R!TypeOK /\ source.there /\ source \in Invoice
      /\ run \in [Workers -> {R!Resting} \cup HeldRun]
  BY SourceFields DEF CyclesInv, RunsKnow
<1>2. /\ source' \in Invoice /\ source'.completed = source.completed /\ source'.cap = source.cap
      /\ source'.there
  BY <1>1 DEF Invoice
<1>3. /\ run' \in [Workers -> {R!Resting} \cup HeldRun]
      /\ \A v \in Workers : Holds(v)' => Holds(v) /\ run'[v] = run[v]
  BY <1>1 DEF R!Release, R!Resting, Holds
<1>4. R!TypeOK'
  BY <1>1, <1>2, <1>3 DEF R!TypeOK, R!SourceType, Invoice, HeldRun
<1> QED BY <1>1, <1>2, <1>3, <1>4 DEF CyclesInv, RunsKnow, R!CyclesCounted

\* A draft is made, and the count is the one read plus one
LEMMA RunCommits ==
    ASSUME CyclesInv, NEW w \in Workers, Holds(w), R!Commit(w), R!Release(w),
           checks' \in 0 .. MaxChecks, UNCHANGED recapped
    PROVE  CyclesInv'
<1>1. /\ R!TypeOK /\ source.there /\ source \in Invoice /\ run[w] \in HeldRun
      /\ run \in [Workers -> {R!Resting} \cup HeldRun] /\ MaxDrafts \in Nat /\ MaxCap \in Nat
      /\ drafts \in Nat /\ run[w].completed \in Nat /\ source.completed \in Nat
      /\ run[w].completed <= drafts /\ raced \in BOOLEAN
  <2>1. /\ R!TypeOK /\ source.there /\ source \in Invoice /\ run[w] \in HeldRun
        /\ run[w].completed <= drafts
    BY SourceFields DEF CyclesInv, RunsKnow
  <2>2. run[w].completed \in 0 .. MaxDrafts /\ source.completed \in 0 .. MaxDrafts
    BY <2>1 DEF HeldRun, Invoice
  <2> QED BY <2>1, <2>2, SourceFields
<1>2. /\ drafts' = drafts + 1 /\ drafts' \in 0 .. MaxDrafts
      /\ source' = [source EXCEPT !.due = "later", !.completed = run[w].completed + 1]
      /\ raced' = (raced \/ run[w].completed # source.completed)
  BY <1>1 DEF R!Commit, R!Counted
<1>3. run[w].completed + 1 \in 0 .. MaxDrafts
  BY <1>1, <1>2
<1>4. /\ source' \in Invoice /\ source'.completed = run[w].completed + 1
      /\ source'.cap = source.cap /\ source'.there
  BY <1>1, <1>2, <1>3 DEF Invoice
<1>5. /\ run' \in [Workers -> {R!Resting} \cup HeldRun]
      /\ \A v \in Workers : Holds(v)' => Holds(v) /\ run'[v] = run[v]
  BY <1>1 DEF R!Release, R!Resting, Holds
<1>6. R!TypeOK'
  BY <1>1, <1>2, <1>4, <1>5 DEF R!TypeOK, R!SourceType, Invoice, HeldRun
<1>7. RunsKnow'
  <2>1. \A v \in Workers : Holds(v) => run[v].completed \in Nat
    BY <1>1, SourceFields DEF HeldRun
  <2> QED BY <1>1, <1>2, <1>4, <1>5, <2>1 DEF CyclesInv, RunsKnow
<1>8. R!CyclesCounted'
  <2>1. ~raced' => ~raced /\ run[w].completed = source.completed /\ source.completed = drafts
    BY <1>1, <1>2 DEF CyclesInv, R!CyclesCounted
  <2>2. ~recapped => run[w].cap = source.cap
    BY DEF CyclesInv, RunsKnow
  <2>3. run[w].cap = R!NoCap \/ run[w].completed < run[w].cap
    BY <1>1 DEF R!Commit, R!Capped, HeldRun, R!Caps, R!NoCap
  <2>4. source.cap \in Nat
    BY <1>1 DEF Invoice, R!Caps, R!NoCap
  <2> QED BY <1>1, <1>2, <1>4, <2>1, <2>2, <2>3, <2>4 DEF R!CyclesCounted, R!NoCap
<1> QED BY <1>4, <1>6, <1>7, <1>8 DEF CyclesInv

LEMMA CyclesInvariant == ServicesSpec => []CyclesInv
<1>1. ServicesInit => CyclesInv
  BY CyclesInit DEF ServicesInit
<1>2. CyclesInv /\ UNCHANGED sourceRows => CyclesInv'
  BY DEF CyclesInv, sourceRows, R!TypeOK, RunsKnow, R!CyclesCounted, Holds
<1>3. ASSUME CyclesInv, R!Next PROVE CyclesInv'
  <2>1. /\ checks \in 0 .. MaxChecks /\ MaxChecks \in Nat
        /\ \A w \in Workers : run[w].pc = "held" <=> Holds(w)
    BY <1>3, SourceFields DEF CyclesInv, Holds
  <2>2. CASE R!ScheduleCheck
    BY <1>3, <2>1, <2>2 DEF CyclesInv, R!TypeOK, RunsKnow, R!CyclesCounted, Holds, R!ScheduleCheck
  <2>3. ASSUME NEW w \in Workers, R!Disable(w) PROVE CyclesInv'
    BY <1>3, <2>1, <2>3, RunEnds DEF R!Disable
  <2>4. ASSUME NEW w \in Workers, R!GenerateFails(w) PROVE CyclesInv'
    BY <1>3, <2>1, <2>4, RunEnds DEF R!GenerateFails
  <2>5. ASSUME NEW w \in Workers, R!Generate(w) PROVE CyclesInv'
    BY <1>3, <2>1, <2>5, RunCommits DEF R!Generate
  <2>6. ASSUME NEW w \in Workers, R!Crash(w) PROVE CyclesInv'
    <3>1. checks' \in 0 .. MaxChecks
      BY <2>1, <2>6 DEF R!Crash
    <3> QED BY <1>3, <2>1, <2>6, <3>1, RunCommits, RunEnds DEF R!Crash
  <2> QED BY <1>3, <2>2, <2>3, <2>4, <2>5, <2>6, SourceEdited, RunBegins DEF R!Next
<1>4. CyclesInv /\ [ServicesNext]_vars => CyclesInv'
  BY <1>2, <1>3, SourceMoves
<1> QED BY <1>1, <1>4, PTL DEF ServicesSpec

\* totalCyclesCompleted is the number of drafts made of the invoice, however runs fail, die
\* and are run again; runs that read the same count lose cycles, and add none.  totalCycles
\* bounds the drafts but for such runs, and for a limit edited later.
THEOREM RecurringCyclesCounted == ServicesSpec => []CyclesCounted
<1>1. CyclesInv => CyclesCounted
  BY DEF CyclesInv, CyclesCounted
<1> QED BY <1>1, CyclesInvariant, PTL

--------------------------------------------------------------------------------
(* Subscriptions *)

TickType == [pc : {"generate", "advance"}, at : B!Dates]

IsGenerating(billing, d) == billing.pc = "generate" /\ billing.at = d

\* The ticks about to draft the invoice of d
Generating(d) == {t \in Ticks : IsGenerating(biller[t], d)}

\* A tick that has still to read the row may find d there: the row is at d or before, or a
\* tick at an earlier date will put it back; but when the row is at d and so is every tick
\* at work, they will all move it on
MayBillAgain(d) ==
    \/ \E t \in B!Busy : biller[t].at < d
    \/ subscription.next \in 0 .. d - 1
    \/ subscription.next = d /\ (B!Busy = {} \/ \E t \in B!Busy : biller[t].at # d)

Again(d) == IF MayBillAgain(d) THEN 1 ELSE 0

Slips == overlaps + halfDone + redates

\* The invoices of d, those being drafted and the one that may follow
Ledger(d) == billed[d] + Cardinality(Generating(d)) + Again(d) <= 1 + Slips

BilledUpTo(n) == \A d \in since .. n : billed[d] > 0

\* Until the date is edited, everything before the row and before each tick is billed
NothingLeftOut ==
    redates = 0 /\ subscription # B!Absent =>
        /\ BilledUpTo(subscription.next - 1)
        /\ \A t \in B!Busy : BilledUpTo(IF biller[t].pc = "advance" THEN biller[t].at
                                        ELSE biller[t].at - 1)

NothingYet == subscription = B!Absent => B!Busy = {} /\ \A d \in B!Dates : billed[d] = 0

BillingInv ==
    /\ B!TypeOK /\ IsFiniteSet(B!Busy)
    /\ NothingYet /\ NothingLeftOut /\ \A d \in B!Dates : Ledger(d)

\* What the row and the ticks are, by the type invariant
LEMMA BillingFields ==
    ASSUME B!TypeOK
    PROVE  /\ Horizon \in Nat /\ MaxRedates \in Nat /\ MaxHalfDone \in Nat /\ MaxOverlaps \in Nat
           /\ B!Dates \subseteq Nat /\ now \in Nat /\ since \in Nat
           /\ subscription.next \in B!Dates \cup {B!Never} /\ subscription.next \in Int
           /\ biller \in [Ticks -> {B!Resting} \cup TickType]
           /\ \A t \in B!Busy : /\ t \in Ticks /\ biller[t] \in TickType
                                /\ biller[t].at \in Nat /\ biller[t].at \in B!Dates
                                /\ biller[t].pc \in {"generate", "advance"}
           /\ \A t \in Ticks : biller[t].pc \in {"generate", "advance"} => t \in B!Busy
           /\ \A d \in B!Dates : billed[d] \in Nat
           /\ redates \in Nat /\ halfDone \in Nat /\ overlaps \in Nat
<1>1. Horizon \in Nat /\ MaxRedates \in Nat /\ MaxHalfDone \in Nat /\ MaxOverlaps \in Nat
  BY ServicesBounds
<1>2. B!Dates \subseteq Nat
  BY <1>1 DEF B!Dates
<1>3. subscription.next \in B!Dates \cup {B!Never} /\ subscription.next \in Int
  <2>1. subscription = B!Absent \/ subscription \in [status : B!Statuses, next : B!Dates \cup {B!Never}]
    BY DEF B!TypeOK
  <2>2. subscription.next \in B!Dates \cup {B!Never}
    BY <2>1 DEF B!Absent
  <2>3. B!Never \in Int
    BY DEF B!Never
  <2>4. \A d \in B!Dates : d \in Int
    BY <1>2
  <2> QED BY <2>2, <2>3, <2>4
<1>4. biller \in [Ticks -> {B!Resting} \cup TickType]
  BY DEF B!TypeOK, TickType
<1>5. \A t \in B!Busy : /\ t \in Ticks /\ biller[t] \in TickType
                        /\ biller[t].at \in Nat /\ biller[t].at \in B!Dates
                        /\ biller[t].pc \in {"generate", "advance"}
  BY <1>2, <1>4 DEF B!Busy, TickType
<1>6. \A t \in Ticks : biller[t].pc \in {"generate", "advance"} => t \in B!Busy
  BY <1>4 DEF B!Busy, B!Resting
<1> QED BY <1>1, <1>2, <1>3, <1>4, <1>5, <1>6 DEF B!TypeOK

\* How the ticks at work are counted when one of them moves
LEMMA OneTickMoves ==
    ASSUME B!TypeOK, IsFiniteSet(B!Busy), NEW t \in Ticks, NEW billing \in {B!Resting} \cup TickType,
           biller' = [biller EXCEPT ![t] = billing]
    PROVE  /\ biller' \in [Ticks -> {B!Resting} \cup TickType]
           /\ B!Busy' = IF billing = B!Resting THEN B!Busy \ {t} ELSE B!Busy \cup {t}
           /\ IsFiniteSet(B!Busy')
           /\ \A r \in Ticks : biller'[r] = IF r = t THEN billing ELSE biller[r]
           /\ \A d \in B!Dates :
                /\ Cardinality(Generating(d)) \in Nat /\ Cardinality(Generating(d)') \in Nat
                /\ Cardinality(Generating(d)') + (IF IsGenerating(biller[t], d) THEN 1 ELSE 0)
                     = Cardinality(Generating(d)) + (IF IsGenerating(billing, d) THEN 1 ELSE 0)
<1>1. /\ biller \in [Ticks -> {B!Resting} \cup TickType]
      /\ \A r \in Ticks : biller[r].pc \in {"generate", "advance"} => r \in B!Busy
  BY BillingFields
<1>2. \A r \in Ticks : biller'[r] = IF r = t THEN billing ELSE biller[r]
  BY <1>1
<1>3. B!Busy' = IF billing = B!Resting THEN B!Busy \ {t} ELSE B!Busy \cup {t}
  BY <1>2 DEF B!Busy
<1>4. IsFiniteSet(B!Busy')
  BY <1>3, FS_AddElement, FS_RemoveElement
<1>5. ASSUME NEW d \in B!Dates
      PROVE  /\ Cardinality(Generating(d)) \in Nat /\ Cardinality(Generating(d)') \in Nat
             /\ Cardinality(Generating(d)') + (IF IsGenerating(biller[t], d) THEN 1 ELSE 0)
                  = Cardinality(Generating(d)) + (IF IsGenerating(billing, d) THEN 1 ELSE 0)
  <2> DEFINE others == Generating(d) \ {t}
  <2>1. others \subseteq B!Busy /\ t \notin others
    BY <1>1 DEF Generating, IsGenerating
  <2>2. IsFiniteSet(others) /\ Cardinality(others) \in Nat
    BY <2>1, FS_Subset, FS_CardinalityType
  <2>3. Generating(d) = IF IsGenerating(biller[t], d) THEN others \cup {t} ELSE others
    BY DEF Generating
  <2>4. Generating(d)' = IF IsGenerating(billing, d) THEN others \cup {t} ELSE others
    BY <1>2 DEF Generating, IsGenerating
  <2>5. Cardinality(others \cup {t}) = Cardinality(others) + 1
    BY <2>1, <2>2, FS_AddElement
  <2> HIDE DEF others
  <2>6. Cardinality(Generating(d)) = Cardinality(others) + (IF IsGenerating(biller[t], d) THEN 1 ELSE 0)
    BY <2>2, <2>3, <2>5
  <2>7. Cardinality(Generating(d)') = Cardinality(others) + (IF IsGenerating(billing, d) THEN 1 ELSE 0)
    BY <2>2, <2>4, <2>5
  <2> QED BY <2>2, <2>6, <2>7
<1>6. biller' \in [Ticks -> {B!Resting} \cup TickType]
  BY <1>1
<1> QED BY <1>2, <1>3, <1>4, <1>5, <1>6

LEMMA BillingInit == B!Init => BillingInv
<1> SUFFICES ASSUME B!Init PROVE BillingInv
  OBVIOUS
<1>1. /\ Horizon \in Nat /\ MaxRedates \in Nat /\ MaxHalfDone \in Nat /\ MaxOverlaps \in Nat
      /\ 0 \in B!Dates
  BY ServicesBounds DEF B!Dates
<1>2. B!TypeOK
  BY <1>1 DEF B!Init, B!TypeOK
<1>3. B!Busy = {}
  BY DEF B!Init, B!Busy
<1>4. IsFiniteSet(B!Busy)
  BY <1>3, FS_EmptySet
<1>5. ASSUME NEW d \in B!Dates PROVE Ledger(d)
  <2>1. Generating(d) = {}
    BY <1>2, <1>3, BillingFields DEF Generating, IsGenerating
  <2>2. Cardinality(Generating(d)) = 0 /\ billed[d] = 0 /\ Slips = 0
    BY <2>1, FS_EmptySet DEF B!Init, Slips
  <2> QED BY <2>2 DEF Ledger, Again
<1> QED BY <1>2, <1>3, <1>4, <1>5 DEF BillingInv, NothingYet, NothingLeftOut, B!Init

\* The ticks rest and the row keeps its date: time
\* passes, or the status changes
LEMMA BillingRowRests ==
    ASSUME BillingInv, B!TypeOK', UNCHANGED <<biller, billed, since, redates, halfDone, overlaps>>,
           subscription'.next = subscription.next,
           subscription' = B!Absent => subscription = B!Absent,
           subscription = B!Absent => subscription' = B!Absent
    PROVE  BillingInv'
<1>1. B!Busy' = B!Busy /\ \A d \in B!Dates : Generating(d)' = Generating(d)
  BY DEF B!Busy, Generating, IsGenerating
<1>2. \A d \in B!Dates : Ledger(d)'
  BY <1>1 DEF BillingInv, Ledger, Again, MayBillAgain, Slips
<1> QED BY <1>1, <1>2 DEF BillingInv, NothingYet, NothingLeftOut, BilledUpTo

\* The first date
LEMMA SubscriptionCreated ==
    ASSUME BillingInv, B!Create
    PROVE  BillingInv'
<1>1. /\ B!TypeOK /\ B!Busy = {} /\ subscription' # B!Absent
      /\ subscription'.next \in B!Dates /\ since' = subscription'.next
      /\ UNCHANGED <<now, biller, billed, redates, halfDone, overlaps>>
      /\ \A d \in B!Dates : billed[d] = 0
  BY DEF BillingInv, NothingYet, B!Create, B!Absent
<1>2. B!TypeOK'
  BY <1>1 DEF B!TypeOK, B!Create, B!Statuses
<1>3. B!Busy' = {} /\ IsFiniteSet(B!Busy')
  BY <1>1, FS_EmptySet DEF B!Busy
<1>4. ASSUME NEW d \in B!Dates PROVE Ledger(d)'
  <2>1. Generating(d) = {}
    BY <1>1, BillingFields DEF Generating, IsGenerating
  <2>2. Cardinality(Generating(d)') = 0
    BY <1>1, <2>1, FS_EmptySet DEF Generating, IsGenerating
  <2>3. billed'[d] = 0 /\ Slips' \in Nat
    BY <1>1, BillingFields DEF Slips
  <2>4. Again(d)' \in {0, 1}
    BY DEF Again
  <2> QED BY <2>2, <2>3, <2>4 DEF Ledger
<1>5. NothingLeftOut'
  <2>1. since' \in Nat
    BY <1>1, BillingFields
  <2> QED BY <1>1, <1>3, <2>1 DEF NothingLeftOut, BilledUpTo
<1> QED BY <1>1, <1>2, <1>3, <1>4, <1>5 DEF BillingInv, NothingYet

\* The date is edited, which is counted
LEMMA SubscriptionRedated ==
    ASSUME BillingInv, B!Update
    PROVE  BillingInv'
<1>1. PICK s \in B!Statuses, d \in B!Dates \cup {B!Never, subscription.next} :
        /\ d # subscription.next => redates < MaxRedates
        /\ redates' = IF d # subscription.next THEN redates + 1 ELSE redates
        /\ subscription' = [status |-> s, next |-> d]
  BY DEF B!Update
<1>2. /\ subscription # B!Absent /\ subscription' # B!Absent /\ subscription'.next = d
      /\ UNCHANGED <<now, biller, billed, since, halfDone, overlaps>>
  BY <1>1 DEF B!Update, B!Absent, B!Statuses
<1>3. B!TypeOK'
  <2>1. d \in B!Dates \cup {B!Never} /\ redates' \in 0 .. MaxRedates
    BY <1>1, BillingFields DEF BillingInv, B!TypeOK
  <2> QED BY <1>1, <1>2, <2>1 DEF BillingInv, B!TypeOK
<1>4. CASE d = subscription.next
  BY <1>1, <1>2, <1>3, <1>4, BillingRowRests
<1>5. CASE d # subscription.next
  <2>1. redates' = redates + 1 /\ redates \in Nat /\ overlaps \in Nat /\ halfDone \in Nat
    BY <1>1, <1>5, BillingFields DEF BillingInv
  <2>2. B!Busy' = B!Busy /\ \A e \in B!Dates : Generating(e)' = Generating(e)
    BY <1>2 DEF B!Busy, Generating, IsGenerating
  <2>3. ASSUME NEW e \in B!Dates PROVE Ledger(e)'
    <3>1. Slips' = Slips + 1 /\ Slips \in Nat /\ billed[e] \in Nat
      BY <1>2, <2>1, BillingFields DEF Slips, BillingInv
    <3>2. Cardinality(Generating(e)) \in Nat
      <4>1. Generating(e) \subseteq B!Busy
        BY BillingFields DEF Generating, IsGenerating, BillingInv
      <4> QED BY <4>1, FS_Subset, FS_CardinalityType DEF BillingInv
    <3>3. Ledger(e)
      BY DEF BillingInv
    <3> QED BY <1>2, <2>2, <3>1, <3>2, <3>3 DEF Ledger, Again
  <2> QED BY <1>2, <1>3, <2>1, <2>2, <2>3 DEF BillingInv, NothingYet, NothingLeftOut
<1> QED BY <1>4, <1>5

\* A tick reads the row: it was to be billed from there anyway, but for another tick at work
LEMMA TickScans ==
    ASSUME BillingInv, NEW t \in Ticks, B!Scan(t)
    PROVE  BillingInv'
<1> DEFINE billing == [pc |-> "generate", at |-> subscription.next]
<1>1. /\ B!TypeOK /\ IsFiniteSet(B!Busy) /\ t \notin B!Busy /\ biller[t] = B!Resting
      /\ subscription.next \in B!Dates /\ subscription.next \in Nat
      /\ UNCHANGED <<subscription, now, billed, since, redates, halfDone>>
      /\ biller' = [biller EXCEPT ![t] = billing]
  BY BillingFields DEF BillingInv, B!Scan, B!Due, B!Busy, B!Never
<1>2. billing \in TickType /\ billing # B!Resting /\ billing.pc = "generate" /\ billing.at = subscription.next
  BY <1>1 DEF TickType, B!Resting
<1> HIDE DEF billing
<1>3. /\ overlaps' \in 0 .. MaxOverlaps
      /\ overlaps' = IF B!Busy # {} THEN overlaps + 1 ELSE overlaps
      /\ overlaps \in Nat /\ redates \in Nat /\ halfDone \in Nat
  BY BillingFields DEF BillingInv, B!Scan, B!TypeOK
<1>4. /\ B!Busy' = B!Busy \cup {t} /\ IsFiniteSet(B!Busy')
      /\ \A r \in Ticks : biller'[r] = IF r = t THEN billing ELSE biller[r]
      /\ \A r \in B!Busy : biller'[r] = biller[r] /\ biller[r].at \in Nat
  BY <1>1, <1>2, OneTickMoves, BillingFields
<1>5. B!TypeOK'
  BY <1>1, <1>2, <1>3, OneTickMoves DEF B!TypeOK, TickType
<1>6. ASSUME NEW d \in B!Dates PROVE Ledger(d)'
  <2>1. /\ Cardinality(Generating(d)) \in Nat
        /\ Cardinality(Generating(d)')
             = Cardinality(Generating(d)) + (IF d = subscription.next THEN 1 ELSE 0)
    <3>1. ~IsGenerating(B!Resting, d) /\ (IsGenerating(billing, d) <=> d = subscription.next)
      BY <1>2 DEF IsGenerating, B!Resting
    <3>2. /\ Cardinality(Generating(d)) \in Nat /\ Cardinality(Generating(d)') \in Nat
          /\ Cardinality(Generating(d)') + (IF IsGenerating(biller[t], d) THEN 1 ELSE 0)
               = Cardinality(Generating(d)) + (IF IsGenerating(billing, d) THEN 1 ELSE 0)
      BY <1>1, <1>2, OneTickMoves
    <3> QED BY <1>1, <3>1, <3>2
  <2>2. d \in Nat /\ billed[d] \in Nat /\ Ledger(d) /\ Slips \in Nat
    BY <1>1, <1>3, BillingFields DEF BillingInv, Slips
  <2>3. CASE d # subscription.next
    <3>1. MayBillAgain(d)' => MayBillAgain(d)
      BY <1>1, <1>2, <1>4, <2>2, <2>3 DEF MayBillAgain
    <3> QED BY <1>1, <1>3, <2>1, <2>2, <2>3, <3>1 DEF Ledger, Again, Slips
  <2>4. CASE d = subscription.next /\ B!Busy = {}
    <3>1. MayBillAgain(d) /\ ~MayBillAgain(d)'
      BY <1>1, <1>2, <1>4, <2>2, <2>4 DEF MayBillAgain
    <3> QED BY <1>1, <1>3, <2>1, <2>2, <2>4, <3>1 DEF Ledger, Again, Slips
  <2>5. CASE d = subscription.next /\ B!Busy # {}
    <3>1. MayBillAgain(d)' => MayBillAgain(d)
      BY <1>1, <1>2, <1>4, <2>2, <2>5 DEF MayBillAgain
    <3> QED BY <1>1, <1>3, <2>1, <2>2, <2>5, <3>1 DEF Ledger, Again, Slips
  <2> QED BY <2>3, <2>4, <2>5
<1>7. NothingLeftOut'
  <2>1. \A r \in B!Busy' : r = t \/ r \in B!Busy
    BY <1>4
  <2> QED BY <1>1, <1>2, <1>4, <2>1 DEF BillingInv, NothingLeftOut, BilledUpTo
<1>8. subscription # B!Absent
  BY <1>1 DEF B!Absent, B!Never
<1> QED BY <1>1, <1>4, <1>5, <1>6, <1>7, <1>8 DEF BillingInv, NothingYet

\* The invoice is drafted
LEMMA TickGenerates ==
    ASSUME BillingInv, NEW t \in Ticks, B!Generate(t)
    PROVE  BillingInv'
<1> DEFINE billing == [biller[t] EXCEPT !.pc = "advance"]
           at == biller[t].at
<1>1. /\ B!TypeOK /\ IsFiniteSet(B!Busy) /\ t \in B!Busy /\ biller[t] \in TickType
      /\ at \in B!Dates /\ biller[t].pc = "generate"
      /\ UNCHANGED <<subscription, now, since, redates, halfDone, overlaps>>
      /\ biller' = [biller EXCEPT ![t] = billing]
      /\ billed' = [billed EXCEPT ![at] = @ + 1] /\ billed \in [B!Dates -> Nat]
  BY BillingFields DEF BillingInv, B!Generate, B!TypeOK
<1>2. billing \in TickType /\ billing # B!Resting /\ billing.pc = "advance" /\ billing.at = at
  BY <1>1 DEF TickType, B!Resting
<1> HIDE DEF billing
<1>3. /\ B!Busy' = B!Busy
      /\ \A r \in Ticks : biller'[r] = IF r = t THEN billing ELSE biller[r]
      /\ \A r \in B!Busy : biller'[r].at = biller[r].at
      /\ \A d \in B!Dates : billed'[d] = IF d = at THEN billed[d] + 1 ELSE billed[d]
  <2>1. \A r \in Ticks : biller'[r] = IF r = t THEN billing ELSE biller[r]
    BY <1>1, <1>2, OneTickMoves
  <2>2. B!Busy' = B!Busy
    <3>1. B!Busy' = B!Busy \cup {t}
      BY <1>1, <1>2, OneTickMoves
    <3> QED BY <1>1, <3>1
  <2>3. \A r \in B!Busy : r \in Ticks
    BY DEF B!Busy
  <2> QED BY <1>1, <1>2, <2>1, <2>2, <2>3
<1>4. B!TypeOK'
  <2>1. billed' \in [B!Dates -> Nat]
    BY <1>1
  <2> QED BY <1>1, <1>2, <2>1, OneTickMoves DEF B!TypeOK, TickType
<1>5. ASSUME NEW d \in B!Dates PROVE Ledger(d)'
  <2>1. /\ Cardinality(Generating(d)) \in Nat /\ Cardinality(Generating(d)') \in Nat
        /\ Cardinality(Generating(d)') + (IF d = at THEN 1 ELSE 0) = Cardinality(Generating(d))
    <3>1. ~IsGenerating(billing, d) /\ (IsGenerating(biller[t], d) <=> d = at)
      BY <1>1, <1>2 DEF IsGenerating
    <3>2. /\ Cardinality(Generating(d)) \in Nat /\ Cardinality(Generating(d)') \in Nat
          /\ Cardinality(Generating(d)') + (IF IsGenerating(biller[t], d) THEN 1 ELSE 0)
               = Cardinality(Generating(d)) + (IF IsGenerating(billing, d) THEN 1 ELSE 0)
      BY <1>1, <1>2, OneTickMoves
    <3> QED BY <3>1, <3>2
  <2>2. MayBillAgain(d)' <=> MayBillAgain(d)
    BY <1>1, <1>3 DEF MayBillAgain
  <2>3. billed[d] \in Nat /\ Ledger(d) /\ Slips \in Nat /\ Slips' = Slips
    BY <1>1, BillingFields DEF BillingInv, Slips
  <2> QED BY <1>3, <2>1, <2>2, <2>3 DEF Ledger, Again
<1>6. NothingLeftOut'
  <2>1. SUFFICES ASSUME redates = 0, subscription # B!Absent
                 PROVE  /\ BilledUpTo(subscription.next - 1)'
                        /\ \A r \in B!Busy : BilledUpTo(IF biller[r].pc = "advance" THEN biller[r].at
                                                        ELSE biller[r].at - 1)'
    BY <1>1, <1>3 DEF NothingLeftOut
  <2>2. ASSUME NEW n \in Int, BilledUpTo(n), n <= Horizon PROVE BilledUpTo(n)'
    <3>1. since .. n \subseteq B!Dates
      BY <2>2, BillingFields DEF B!Dates, BillingInv
    <3> QED BY <1>1, <1>3, <2>2, <3>1, BillingFields DEF BilledUpTo
  <2>3. subscription.next \in Int /\ subscription.next <= Horizon /\ Horizon \in Nat /\ since \in Nat
        /\ \A r \in B!Busy : biller[r].at \in Nat /\ biller[r].at <= Horizon
    BY <1>1, BillingFields DEF B!Dates, B!Never
  <2>4. BilledUpTo(subscription.next - 1)'
    BY <1>1, <2>1, <2>2, <2>3 DEF BillingInv, NothingLeftOut
  <2>5. ASSUME NEW r \in B!Busy, r # t
        PROVE  BilledUpTo(IF biller[r].pc = "advance" THEN biller[r].at ELSE biller[r].at - 1)'
    <3>1. biller'[r] = biller[r]
      BY <1>3, BillingFields, <1>1, <2>5
    <3> QED BY <2>1, <2>2, <2>3, <3>1 DEF BillingInv, NothingLeftOut
  <2>6. BilledUpTo(at)'
    <3>1. BilledUpTo(at - 1) /\ at \in Nat
      BY <1>1, <2>1, <2>3 DEF BillingInv, NothingLeftOut
    <3>2. since .. at \subseteq B!Dates
      BY <1>1, <2>3 DEF B!Dates
    <3> QED BY <1>1, <1>3, <2>3, <3>1, <3>2 DEF BilledUpTo
  <2>7. biller'[t].pc = "advance" /\ biller'[t].at = at
    BY <1>2, <1>3
  <2> QED BY <2>4, <2>5, <2>6, <2>7
<1>7. NothingYet'
  BY <1>1 DEF BillingInv, NothingYet
<1> QED BY <1>1, <1>3, <1>4, <1>5, <1>6, <1>7 DEF BillingInv

\* A tick is done: with it goes its draft, or the one invoice its date may have had again
LEMMA TickLeaves ==
    ASSUME BillingInv, NEW t \in B!Busy, biller' = [biller EXCEPT ![t] = B!Resting]
    PROVE  /\ t \in Ticks /\ biller[t].at \in Nat /\ biller[t].at \in B!Dates
           /\ biller' \in [Ticks -> {B!Resting} \cup TickType]
           /\ B!Busy' = B!Busy \ {t} /\ IsFiniteSet(B!Busy')
           /\ \A r \in B!Busy : /\ r # t => biller'[r] = biller[r]
                                /\ biller[r].at \in Nat
           /\ \A d \in B!Dates :
                /\ d \in Nat /\ billed[d] \in Nat /\ Slips \in Nat /\ Ledger(d)
                /\ Cardinality(Generating(d)) \in Nat /\ Cardinality(Generating(d)') \in Nat
                /\ Cardinality(Generating(d)') + (IF IsGenerating(biller[t], d) THEN 1 ELSE 0)
                     = Cardinality(Generating(d))
<1>1. /\ B!TypeOK /\ IsFiniteSet(B!Busy) /\ t \in Ticks
      /\ biller[t].at \in Nat /\ biller[t].at \in B!Dates
  BY BillingFields DEF BillingInv
<1>2. /\ biller' \in [Ticks -> {B!Resting} \cup TickType]
      /\ B!Busy' = B!Busy \ {t} /\ IsFiniteSet(B!Busy')
      /\ \A r \in Ticks : r # t => biller'[r] = biller[r]
  BY <1>1, OneTickMoves
<1>3. \A r \in B!Busy : r \in Ticks /\ biller[r].at \in Nat
  BY <1>1, BillingFields
<1>4. ASSUME NEW d \in B!Dates
      PROVE  /\ d \in Nat /\ billed[d] \in Nat /\ Slips \in Nat /\ Ledger(d)
             /\ Cardinality(Generating(d)) \in Nat /\ Cardinality(Generating(d)') \in Nat
             /\ Cardinality(Generating(d)') + (IF IsGenerating(biller[t], d) THEN 1 ELSE 0)
                  = Cardinality(Generating(d))
  <2>1. d \in Nat /\ billed[d] \in Nat /\ Slips \in Nat /\ Ledger(d)
    BY <1>1, BillingFields DEF BillingInv, Slips
  <2>2. ~IsGenerating(B!Resting, d)
    BY DEF IsGenerating, B!Resting
  <2>3. /\ Cardinality(Generating(d)) \in Nat /\ Cardinality(Generating(d)') \in Nat
        /\ Cardinality(Generating(d)') + (IF IsGenerating(biller[t], d) THEN 1 ELSE 0)
             = Cardinality(Generating(d)) + (IF IsGenerating(B!Resting, d) THEN 1 ELSE 0)
    BY <1>1, OneTickMoves
  <2> QED BY <2>1, <2>2, <2>3
<1> QED BY <1>1, <1>2, <1>3, <1>4

\* The draft fails
LEMMA TickGivesUp ==
    ASSUME BillingInv, NEW t \in Ticks, B!GenerateFails(t)
    PROVE  BillingInv'
<1>1. /\ B!TypeOK /\ t \in B!Busy /\ biller[t].pc = "generate"
      /\ biller' = [biller EXCEPT ![t] = B!Resting]
      /\ UNCHANGED <<subscription, now, billed, since, redates, halfDone, overlaps>>
  BY BillingFields DEF BillingInv, B!GenerateFails
<1>2. B!TypeOK'
  BY <1>1, TickLeaves DEF B!TypeOK, TickType
<1>3. ASSUME NEW d \in B!Dates PROVE Ledger(d)'
  <2>1. Slips' = Slips
    BY <1>1 DEF Slips
  <2>2. MayBillAgain(d)' => MayBillAgain(d) \/ biller[t].at = d
    BY <1>1, TickLeaves DEF MayBillAgain
  <2>3. biller[t].at = d => IsGenerating(biller[t], d)
    BY <1>1 DEF IsGenerating
  <2>4. /\ billed[d] \in Nat /\ Slips \in Nat /\ Ledger(d)
        /\ Cardinality(Generating(d)) \in Nat /\ Cardinality(Generating(d)') \in Nat
        /\ Cardinality(Generating(d)') + (IF IsGenerating(biller[t], d) THEN 1 ELSE 0)
             = Cardinality(Generating(d))
    BY <1>1, TickLeaves
  <2> QED BY <1>1, <2>1, <2>2, <2>3, <2>4 DEF Ledger, Again
<1>4. NothingLeftOut' /\ NothingYet'
  BY <1>1, TickLeaves DEF BillingInv, NothingLeftOut, BilledUpTo, NothingYet
<1> QED BY <1>1, <1>2, <1>3, <1>4, TickLeaves DEF BillingInv

\* The row does not move on, which is counted: its date is billed again
LEMMA TickStopsHalfWay ==
    ASSUME BillingInv, NEW t \in Ticks, B!AdvanceFails(t)
    PROVE  BillingInv'
<1>1. /\ B!TypeOK /\ t \in B!Busy
      /\ biller' = [biller EXCEPT ![t] = B!Resting]
      /\ UNCHANGED <<subscription, now, billed, since, redates, overlaps>>
      /\ halfDone' = halfDone + 1 /\ halfDone < MaxHalfDone
      /\ overlaps \in Nat /\ redates \in Nat /\ halfDone \in Nat /\ MaxHalfDone \in Nat
  BY BillingFields DEF BillingInv, B!AdvanceFails
<1>2. B!TypeOK'
  <2>1. halfDone' \in 0 .. MaxHalfDone
    BY <1>1
  <2> QED BY <1>1, <2>1, TickLeaves DEF B!TypeOK, TickType
<1>3. ASSUME NEW d \in B!Dates PROVE Ledger(d)'
  <2>1. Slips' = Slips + 1
    BY <1>1 DEF Slips
  <2>2. Again(d) \in {0, 1} /\ Again(d)' \in {0, 1}
    BY DEF Again
  <2>3. /\ billed[d] \in Nat /\ Slips \in Nat /\ Ledger(d)
        /\ Cardinality(Generating(d)) \in Nat /\ Cardinality(Generating(d)') \in Nat
        /\ Cardinality(Generating(d)') <= Cardinality(Generating(d))
    <3>1. /\ billed[d] \in Nat /\ Slips \in Nat /\ Ledger(d)
          /\ Cardinality(Generating(d)) \in Nat /\ Cardinality(Generating(d)') \in Nat
          /\ Cardinality(Generating(d)') + (IF IsGenerating(biller[t], d) THEN 1 ELSE 0)
               = Cardinality(Generating(d))
      BY <1>1, TickLeaves
    <3> QED BY <3>1
  <2> QED BY <1>1, <2>1, <2>2, <2>3 DEF Ledger
<1>4. NothingLeftOut' /\ NothingYet'
  BY <1>1, TickLeaves DEF BillingInv, NothingLeftOut, BilledUpTo, NothingYet
<1> QED BY <1>1, <1>2, <1>3, <1>4, TickLeaves DEF BillingInv

\* The row moves to the date after the one that was read, wherever it is now
LEMMA TickAdvances ==
    ASSUME BillingInv, NEW t \in Ticks, B!Advance(t)
    PROVE  BillingInv'
<1> DEFINE at == biller[t].at
<1>1. /\ B!TypeOK /\ t \in B!Busy /\ biller[t].pc = "advance" /\ at \in Nat /\ at + 1 \in B!Dates
      /\ biller' = [biller EXCEPT ![t] = B!Resting]
      /\ subscription' = [subscription EXCEPT !.next = at + 1]
      /\ UNCHANGED <<now, billed, since, redates, halfDone, overlaps>>
  BY BillingFields DEF BillingInv, B!Advance, B!NextAt, B!Dates
<1>2. /\ subscription # B!Absent /\ subscription' # B!Absent /\ subscription'.next = at + 1
      /\ subscription' \in [status : B!Statuses, next : B!Dates \cup {B!Never}]
  <2>1. subscription # B!Absent
    BY <1>1 DEF BillingInv, NothingYet
  <2>2. subscription \in [status : B!Statuses, next : B!Dates \cup {B!Never}]
    BY <1>1, <2>1 DEF B!TypeOK
  <2>3. subscription'.status \in B!Statuses /\ "none" \notin B!Statuses
    BY <1>1, <2>2 DEF B!Statuses
  <2> QED BY <1>1, <2>1, <2>2, <2>3 DEF B!Absent
<1>3. B!TypeOK'
  BY <1>1, <1>2, TickLeaves DEF B!TypeOK, TickType
<1>4. ASSUME NEW d \in B!Dates PROVE Ledger(d)'
  <2>1. Slips' = Slips
    BY <1>1 DEF Slips
  <2>2. MayBillAgain(d)' => MayBillAgain(d)
    <3>1. CASE at < d
      BY <1>1, <3>1 DEF MayBillAgain
    <3>2. CASE ~(at < d)
      <4>1. d \in Nat /\ ~(subscription'.next \in 0 .. d - 1) /\ subscription'.next # d
        <5>1. d \in Nat
          BY <1>1, TickLeaves
        <5> QED BY <1>1, <1>2, <3>2, <5>1
      <4> QED BY <1>1, <4>1, TickLeaves DEF MayBillAgain
    <3> QED BY <3>1, <3>2
  <2>3. ~IsGenerating(biller[t], d)
    BY <1>1 DEF IsGenerating
  <2>4. /\ billed[d] \in Nat /\ Slips \in Nat /\ Ledger(d)
        /\ Cardinality(Generating(d)) \in Nat /\ Cardinality(Generating(d)') \in Nat
        /\ Cardinality(Generating(d)') + (IF IsGenerating(biller[t], d) THEN 1 ELSE 0)
             = Cardinality(Generating(d))
    BY <1>1, TickLeaves
  <2> QED BY <1>1, <2>1, <2>2, <2>3, <2>4 DEF Ledger, Again
<1>5. NothingLeftOut'
  <2>1. redates = 0 => BilledUpTo(at)
    BY <1>1, <1>2 DEF BillingInv, NothingLeftOut
  <2>2. subscription'.next - 1 = at
    BY <1>1, <1>2
  <2>3. \A r \in B!Busy' : r \in B!Busy /\ biller'[r] = biller[r]
    BY <1>1, TickLeaves
  <2>4. \A n : BilledUpTo(n)' <=> BilledUpTo(n)
    BY <1>1 DEF BilledUpTo
  <2> QED BY <1>1, <1>2, <2>1, <2>2, <2>3, <2>4 DEF BillingInv, NothingLeftOut
<1> QED BY <1>1, <1>2, <1>3, <1>4, <1>5, TickLeaves DEF BillingInv, NothingYet

LEMMA BillingInvariant == ServicesSpec => []BillingInv
<1>1. ServicesInit => BillingInv
  BY BillingInit DEF ServicesInit
<1>2. BillingInv /\ UNCHANGED billingRows => BillingInv'
  <2>1. BillingInv /\ UNCHANGED billingRows => B!TypeOK'
    BY DEF BillingInv, billingRows, B!TypeOK
  <2> QED BY <2>1, BillingRowRests DEF billingRows
<1>3. ASSUME BillingInv, B!PassTime \/ B!Cancel PROVE BillingInv'
  <2>1. B!TypeOK'
    <3>1. CASE B!PassTime
      BY <1>3, <3>1, BillingFields DEF BillingInv, B!TypeOK, B!PassTime, B!Dates
    <3>2. CASE B!Cancel
      BY <1>3, <3>2 DEF BillingInv, B!TypeOK, B!Cancel, B!Statuses
    <3> QED BY <1>3, <3>1, <3>2
  <2>2. CASE B!PassTime
    BY <1>3, <2>1, <2>2, BillingRowRests DEF B!PassTime
  <2>3. CASE B!Cancel
    <3>1. /\ subscription # B!Absent /\ subscription' # B!Absent
          /\ subscription'.next = subscription.next
      BY <1>3, <2>3 DEF BillingInv, B!TypeOK, B!Cancel, B!Absent
    <3> QED BY <1>3, <2>1, <2>3, <3>1, BillingRowRests DEF B!Cancel
  <2> QED BY <1>3, <2>2, <2>3
<1>4. BillingInv /\ B!Next => BillingInv'
  BY <1>3, SubscriptionCreated, SubscriptionRedated, TickScans, TickGenerates, TickGivesUp,
     TickAdvances, TickStopsHalfWay DEF B!Next
<1>5. BillingInv /\ [ServicesNext]_vars => BillingInv'
  BY <1>2, <1>4, BillingMoves
<1> QED BY <1>1, <1>5, PTL DEF ServicesSpec

\* Each period is billed, and once: a date has one invoice, and one more only for each tick
\* that overlapped another, each advance that failed and each edit of the date; and while
\* nobody edits it, everything before nextInvoiceAt has its invoice.
THEOREM EachPeriodBilledOnce == ServicesSpec => []PeriodsBilledOnce
<1>1. ASSUME BillingInv PROVE B!PeriodsBilledOnce
  <2>1. ASSUME NEW d \in B!Dates PROVE billed[d] <= 1 + overlaps + halfDone + redates
    <3>1. /\ billed[d] \in Nat /\ Ledger(d) /\ Again(d) \in {0, 1}
          /\ overlaps \in Nat /\ halfDone \in Nat /\ redates \in Nat
      BY <1>1, BillingFields DEF BillingInv, Again
    <3>2. Cardinality(Generating(d)) \in Nat
      <4>1. Generating(d) \subseteq B!Busy
        BY <1>1, BillingFields DEF Generating, IsGenerating, BillingInv
      <4> QED BY <1>1, <4>1, FS_Subset, FS_CardinalityType DEF BillingInv
    <3> QED BY <3>1, <3>2 DEF Ledger, Slips
  <2>2. ASSUME redates = 0 PROVE \A d \in since .. subscription.next - 1 : billed[d] > 0
    <3>1. CASE subscription # B!Absent
      BY <1>1, <2>2, <3>1 DEF BillingInv, NothingLeftOut, BilledUpTo
    <3>2. CASE subscription = B!Absent
      <4>1. subscription.next = -1 /\ since \in Nat
        BY <1>1, <3>2, BillingFields DEF BillingInv, B!Absent, B!Never
      <4> QED BY <4>1
    <3> QED BY <3>1, <3>2
  <2> QED BY <2>1, <2>2 DEF B!PeriodsBilledOnce
<1>2. BillingInv => PeriodsBilledOnce
  BY <1>1 DEF PeriodsBilledOnce
<1> QED BY <1>2, BillingInvariant, PTL

--------------------------------------------------------------------------------
(* Drafting.  That no expense is billed twice is not inductive: a request  *)
(* that has read may yet add the lines it found.  So every expense has a   *)
(* weight: its lines on live invoices and those that the requests at work  *)
(* promise.  A merge takes as many lines away as it adds, if nobody else   *)
(* has cancelled its sources, so for one request, whichever it is, only    *)
(* what it would add at once counts.  The weight of a request that begins  *)
(* alone is at most one line or nothing, and one that begins beside        *)
(* another at most doubles it; no other step raises it.                    *)

\* Powers of two, as the library counts subsets

LEMMA PowersDouble ==
    ASSUME NEW n \in Nat
    PROVE  2 ^ n \in Nat /\ 2 ^ n > 0 /\ 2 ^ (n + 1) = 2 * 2 ^ n
<1> DEFINE Sub == 1 .. n
           y == n + 1
           With == {s \cup {y} : s \in SUBSET Sub}
<1>1. IsFiniteSet(Sub) /\ Cardinality(Sub) = n /\ y \notin Sub
  BY FS_Interval
<1> HIDE DEF Sub
<1>2. IsFiniteSet(SUBSET Sub) /\ Cardinality(SUBSET Sub) = 2 ^ n
  BY <1>1, FS_SUBSET
<1>3. IsFiniteSet(Sub \cup {y}) /\ Cardinality(Sub \cup {y}) = y
  BY <1>1, FS_AddElement
<1>4. IsFiniteSet(SUBSET (Sub \cup {y})) /\ Cardinality(SUBSET (Sub \cup {y})) = 2 ^ y
  BY <1>3, FS_SUBSET
<1>5. IsFiniteSet(With) /\ Cardinality(With) = Cardinality(SUBSET Sub)
  <2> DEFINE f == [s \in SUBSET Sub |-> s \cup {y}]
  <2>1. f \in Bijection(SUBSET Sub, With)
    <3>1. f \in [SUBSET Sub -> With] /\ \A t \in With : \E s \in SUBSET Sub : f[s] = t
      OBVIOUS
    <3>2. ASSUME NEW s \in SUBSET Sub, NEW t \in SUBSET Sub, f[s] = f[t] PROVE s = t
      BY <1>1, <3>2
    <3> HIDE DEF f, With
    <3> QED BY <3>1, <3>2, Fun_IsBij
  <2> HIDE DEF f, With
  <2> QED BY <1>2, <2>1, FS_Bijection DEF ExistsBijection
<1>6. SUBSET (Sub \cup {y}) = (SUBSET Sub) \cup With /\ (SUBSET Sub) \cap With = {}
  <2>1. ASSUME NEW s \in SUBSET (Sub \cup {y}) PROVE s \in (SUBSET Sub) \cup With
    <3>1. CASE y \in s
      <4>1. s = (s \ {y}) \cup {y} /\ s \ {y} \in SUBSET Sub
        BY <3>1
      <4> QED BY <4>1
    <3>2. CASE y \notin s
      BY <3>2
    <3> QED BY <3>1, <3>2
  <2> QED BY <1>1, <2>1
<1>7. Cardinality((SUBSET Sub) \cup With)
      = Cardinality(SUBSET Sub) + Cardinality(With) - Cardinality((SUBSET Sub) \cap With)
  <2> HIDE DEF With
  <2> QED BY <1>2, <1>5, FS_Union
<1>8. Cardinality({}) = 0
  BY FS_EmptySet
<1>9. Cardinality(SUBSET Sub) \in Nat /\ Cardinality(SUBSET Sub) # 0
  <2>1. SUBSET Sub # {}
    OBVIOUS
  <2> QED BY <1>2, <2>1, FS_CardinalityType, FS_EmptySet
<1> DEFINE p == Cardinality(SUBSET Sub)
           q == Cardinality(SUBSET (Sub \cup {y}))
<1>10. q = p + p - 0 /\ p \in Nat /\ p # 0
  BY <1>5, <1>6, <1>7, <1>8, <1>9
<1>11. p = 2 ^ n /\ q = 2 ^ (n + 1)
  BY <1>2, <1>4
<1> HIDE DEF p, q
<1>12. p > 0 /\ q = 2 * p
  BY <1>10
<1> QED BY <1>10, <1>11, <1>12

LinesOn(l, e) == [i \in Drafts |-> l[i][e]]

\* The fold over the lines is a sum
LEMMA SumOfLines ==
    ASSUME NEW e, NEW Sub \in SUBSET Drafts, IsFiniteSet(Sub),
           \A i \in Sub : lines[i][e] \in Int
    PROVE  E!LinesFor(e, Sub) = SumOf(LinesOn(lines, e), Sub)
<1> DEFINE a == LinesOn(lines, e)
           IsFoldOfLines(g) ==
             g = [s \in SUBSET Sub |->
                   IF s = {} THEN 0 ELSE lines[Chosen(s)][e] + g[s \ {Chosen(s)}]]
           h == CHOOSE g : IsFoldOfLines(g)
<1>1. E!LinesFor(e, Sub) = h[Sub]
  BY DEF E!LinesFor, E!MapThenSumSet, E!MapThenFoldSet, Chosen
<1>2. \A i \in Sub : a[i] = lines[i][e] /\ a[i] \in Int
  BY DEF LinesOn
<1>3. PICK g : Tallies(g, a, Sub)
  <2> HIDE DEF a
  <2> QED BY <1>2, TallyExists
<1> HIDE DEF a
<1>4. \A s \in SUBSET Sub : s # {} => a[Chosen(s)] = lines[Chosen(s)][e]
  BY <1>2, ChosenIsIn
<1>5. ASSUME NEW f PROVE IsFold(f, a, Sub) <=> IsFoldOfLines(f)
  BY <1>4 DEF IsFold
<1>6. IsFold(g, a, Sub)
  BY <1>3, TallyFolds
<1>7. IsFoldOfLines(h)
  <2> HIDE DEF IsFoldOfLines
  <2> QED BY <1>5, <1>6
<1> HIDE DEF h
<1>8. IsFold(h, a, Sub)
  BY <1>5, <1>7
<1>9. h[Sub] = g[Sub]
  BY <1>6, <1>8, FoldIsUnique
<1> QED BY <1>1, <1>3, <1>9, SumIsTally DEF a

\* What a request holds was there when it read it, and what it merges had been marked
Knows(r, st, inv) ==
    /\ r.pc = "set" => \A i \in r.over : st[i] # "none"
    /\ r.pc = "delete" \/ r.pc = "find" \/ r.pc = "bill" => st[r.on] # "none"
    /\ r.pc = "merge" => /\ \A i \in r.from : st[i] # "none"
                         /\ \A e \in Expenses : r.union[e] > 0 => e \in inv

\* A line is of an invoice that was there and bills an expense that is marked
Marked(l, st, inv) ==
    \A i \in Drafts, e \in Expenses : l[i][e] > 0 => st[i] # "none" /\ e \in inv

AtWork(k) == {c \in Clerks : k[c] # E!Vacant}
Begun(st) == {i \in Drafts : st[i] # "none"}

DraftsKnow ==
    /\ E!TypeOK
    /\ IsFiniteSet(Begun(status)) /\ IsFiniteSet(AtWork(clerk))
    /\ \A c \in Clerks : Knows(clerk[c], status, invoiced)
    /\ Marked(lines, status, invoiced)

LEMMA ClerkFields ==
    ASSUME NEW r \in E!ClerkType
    PROVE  /\ r = E!Vacant <=> r.pc = "idle"
           /\ r.pc = "set" => r.over \in SUBSET Drafts /\ r.to \in {"open", "cancelled"}
           /\ r.pc = "delete" => r.on \in Drafts
           /\ r.pc = "find" => r.on \in Drafts /\ r.asked \in SUBSET Expenses
           /\ r.pc = "bill" => r.on \in Drafts /\ r.found \in SUBSET Expenses
           /\ r.pc = "merge" => r.from \in SUBSET Drafts /\ r.union \in [Expenses -> Nat]
           /\ \/ r.pc = "idle" \/ r.pc = "delete" \/ r.pc = "find" \/ r.pc = "bill"
              \/ r.pc = "merge" \/ r.pc = "set"
BY DEF E!ClerkType, E!Vacant

LEMMA VacantKnows == \A st, inv : Knows(E!Vacant, st, inv)
BY DEF Knows, E!Vacant

\* A request begins, goes on or ends and no row changes
LEMMA ClerkMoves ==
    ASSUME DraftsKnow, NEW c \in Clerks, NEW r \in E!ClerkType, Knows(r, status, invoiced),
           clerk' = [clerk EXCEPT ![c] = r], crossed' \in 0 .. MaxOverlaps,
           UNCHANGED <<status, lines, invoiced>>
    PROVE  DraftsKnow'
<1>1. E!TypeOK'
  BY DEF DraftsKnow, E!TypeOK
<1>2. IsFiniteSet(AtWork(clerk'))
  <2>1. IsFiniteSet(AtWork(clerk) \cup {c})
    BY FS_AddElement DEF DraftsKnow
  <2>2. AtWork(clerk') \subseteq AtWork(clerk) \cup {c}
    BY DEF AtWork, DraftsKnow, E!TypeOK
  <2> QED BY <2>1, <2>2, FS_Subset
<1>3. \A d \in Clerks : Knows(clerk'[d], status, invoiced)
  BY DEF DraftsKnow, E!TypeOK
<1> QED BY <1>1, <1>2, <1>3 DEF DraftsKnow

\* Rows change, and the request of c, if it is one's, ends
LEMMA RowsMove ==
    ASSUME DraftsKnow,
           status' \in [Drafts -> {"none", "draft", "open", "cancelled", "revived", "deleted"}],
           \A i \in Drafts : status[i] # "none" => status'[i] # "none",
           NEW n \in Drafts, \A i \in Drafts : status'[i] # "none" => status[i] # "none" \/ i = n,
           lines' \in [Drafts -> [Expenses -> Nat]],
           invoiced \subseteq invoiced', invoiced' \subseteq Expenses,
           Marked(lines', status', invoiced'),
           clerk' = clerk \/ \E c \in Clerks : clerk' = [clerk EXCEPT ![c] = E!Vacant],
           UNCHANGED crossed
    PROVE  DraftsKnow'
<1>1. /\ clerk' \in [Clerks -> E!ClerkType]
      /\ \A d \in Clerks : clerk'[d] = clerk[d] \/ clerk'[d] = E!Vacant
  <2>1. clerk \in [Clerks -> E!ClerkType] /\ E!Vacant \in E!ClerkType
    BY DEF DraftsKnow, E!TypeOK, E!ClerkType
  <2> QED BY <2>1
<1>2. E!TypeOK'
  BY <1>1 DEF DraftsKnow, E!TypeOK
<1>3. IsFiniteSet(AtWork(clerk'))
  <2>1. AtWork(clerk') \subseteq AtWork(clerk)
    BY <1>1 DEF AtWork
  <2> QED BY <2>1, FS_Subset DEF DraftsKnow
<1>4. IsFiniteSet(Begun(status'))
  <2>1. IsFiniteSet(Begun(status) \cup {n})
    BY FS_AddElement DEF DraftsKnow
  <2>2. Begun(status') \subseteq Begun(status) \cup {n}
    BY DEF Begun
  <2> QED BY <2>1, <2>2, FS_Subset
<1>5. ASSUME NEW d \in Clerks PROVE Knows(clerk'[d], status', invoiced')
  <2>1. CASE clerk'[d] = E!Vacant
    BY <2>1, VacantKnows
  <2>2. CASE clerk'[d] = clerk[d]
    <3>1. clerk[d] \in E!ClerkType /\ Knows(clerk[d], status, invoiced)
      BY DEF DraftsKnow, E!TypeOK
    <3> HIDE DEF DraftsKnow
    <3> DEFINE r == clerk[d]
    <3>2. r \in E!ClerkType /\ Knows(r, status, invoiced)
      BY <3>1
    <3> HIDE DEF r
    <3>3. Knows(r, status', invoiced')
      BY <3>2, ClerkFields DEF Knows
    <3> QED BY <2>2, <3>3 DEF r
  <2> QED BY <1>1, <2>1, <2>2
<1> QED BY <1>2, <1>3, <1>4, <1>5 DEF DraftsKnow

\* The lines of a set of drafts that had begun
LEMMA LinesOfBegun ==
    ASSUME DraftsKnow, NEW Sub \in SUBSET Begun(status), NEW e \in Expenses
    PROVE  /\ IsFiniteSet(Sub) /\ Sub \subseteq Drafts
           /\ E!LinesFor(e, Sub) = SumOf(LinesOn(lines, e), Sub)
           /\ E!LinesFor(e, Sub) \in Nat
           /\ E!LinesFor(e, Sub) > 0 => e \in invoiced
<1>1. IsFiniteSet(Sub) /\ Sub \in SUBSET Drafts
  BY FS_Subset DEF DraftsKnow, Begun
<1>2. \A i \in Sub : LinesOn(lines, e)[i] = lines[i][e] /\ lines[i][e] \in Nat
  BY <1>1 DEF DraftsKnow, E!TypeOK, LinesOn
<1>3. E!LinesFor(e, Sub) = SumOf(LinesOn(lines, e), Sub)
  BY <1>1, <1>2, SumOfLines
<1>4. SumOf(LinesOn(lines, e), Sub) \in Nat
  BY <1>1, <1>2, SumIsNatural
<1>5. e \notin invoiced => SumOf(LinesOn(lines, e), Sub) = 0
  <2>1. e \notin invoiced => \A i \in Sub : lines[i][e] = 0
    BY <1>1, <1>2 DEF DraftsKnow, Marked
  <2> QED BY <1>1, <1>2, <2>1, SumOfZeros
<1> QED BY <1>1, <1>3, <1>4, <1>5

\* What a request has just read
Joined(from) == [pc |-> "merge", from |-> from,
                 union |-> [e \in Expenses |-> E!LinesFor(e, from)]]

DraftSet == {i \in Drafts : status[i] = "draft"}

LEMMA JoinedKnows ==
    ASSUME DraftsKnow, NEW from \in SUBSET DraftSet
    PROVE  Joined(from) \in E!ClerkType /\ Knows(Joined(from), status, invoiced)
<1>1. from \in SUBSET Begun(status) /\ from \in SUBSET Drafts
  BY DEF DraftSet, Begun
<1>2. \A e \in Expenses : E!LinesFor(e, from) \in Nat /\ (E!LinesFor(e, from) > 0 => e \in invoiced)
  BY <1>1, LinesOfBegun
<1>3. \A i \in from : status[i] # "none"
  BY <1>1 DEF Begun
<1> DEFINE u == [e \in Expenses |-> E!LinesFor(e, from)]
<1>4. u \in [Expenses -> Nat] /\ \A e \in Expenses : u[e] > 0 => e \in invoiced
  BY <1>2
<1> HIDE DEF u
<1> DEFINE r == [pc |-> "merge", from |-> from, union |-> u]
<1>5. r \in E!ClerkType /\ Knows(r, status, invoiced)
  BY <1>1, <1>3, <1>4 DEF E!ClerkType, Knows
<1> QED BY <1>5 DEF Joined, u

\* A request that begins, by what it reads; one beside another, and a copy, are counted
Begins(c, r) ==
    /\ clerk[c] = E!Vacant
    /\ clerk' = [clerk EXCEPT ![c] = r]
    /\ UNCHANGED <<status, lines, invoiced>>

Alone(c, r)   == Begins(c, r) /\ AtWork(clerk) = {} /\ crossed' = crossed
Counted(c, r) == Begins(c, r) /\ crossed' = crossed + 1 /\ crossed < MaxOverlaps

Copied(i) == [pc |-> "merge", from |-> {}, union |-> lines[i]]

Reading ==
    {[pc |-> "set", over |-> over, to |-> to] :
       over \in SUBSET Begun(status), to \in {"open", "cancelled"}}
    \cup {[pc |-> "delete", on |-> i] : i \in DraftSet}
    \cup {[pc |-> "find", on |-> i, asked |-> asked] : i \in DraftSet, asked \in SUBSET Expenses}
    \cup {Joined(from) : from \in SUBSET DraftSet}

Copying == {Copied(i) : i \in Begun(status)}

Reads(c) ==
    \/ \E i \in Drafts : E!DeleteRead(c, i) \/ E!BillRead(c, i) \/ E!CopyRead(c, i)
    \/ E!SetRead(c) \/ E!MergeRead(c)

LEMMA ReadsBegin ==
    ASSUME NEW c \in Clerks, Reads(c)
    PROVE  (\E r \in Reading : Alone(c, r)) \/ (\E r \in Reading \cup Copying : Counted(c, r))
<1>1. \A call : E!Begins(c, call, E!Beside) /\ UNCHANGED <<status, lines, invoiced>> =>
        Alone(c, call) \/ Counted(c, call)
  BY DEF E!Begins, E!Beside, Begins, Alone, Counted, AtWork
<1>2. ASSUME NEW i \in Drafts, E!DeleteRead(c, i)
      PROVE  \E r \in Reading : E!Begins(c, r, E!Beside) /\ UNCHANGED <<status, lines, invoiced>>
  BY <1>2 DEF E!DeleteRead, Reading, DraftSet
<1>3. ASSUME NEW i \in Drafts, E!BillRead(c, i)
      PROVE  \E r \in Reading : E!Begins(c, r, E!Beside) /\ UNCHANGED <<status, lines, invoiced>>
  BY <1>3 DEF E!BillRead, Reading, DraftSet
<1>4. ASSUME E!MergeRead(c)
      PROVE  \E r \in Reading : E!Begins(c, r, E!Beside) /\ UNCHANGED <<status, lines, invoiced>>
  BY <1>4 DEF E!MergeRead, Reading, Joined, DraftSet
<1>5. ASSUME E!SetRead(c)
      PROVE  \E r \in Reading : E!Begins(c, r, E!Beside) /\ UNCHANGED <<status, lines, invoiced>>
  <2>1. PICK over \in SUBSET Begun(status), to \in {"open", "cancelled"} :
          E!Begins(c, [pc |-> "set", over |-> over, to |-> to], E!Beside)
          /\ UNCHANGED <<status, lines, invoiced>>
    BY <1>5 DEF E!SetRead, Begun
  <2>2. [pc |-> "set", over |-> over, to |-> to] \in Reading
    BY DEF Reading
  <2> QED BY <2>1, <2>2
<1>6. ASSUME NEW i \in Drafts, E!CopyRead(c, i)
      PROVE  \E r \in Copying : Counted(c, r)
  <2>1. i \in Begun(status) /\ Copied(i) \in Copying
    BY <1>6 DEF E!CopyRead, Copying, Begun
  <2>2. Counted(c, Copied(i))
    BY <1>6 DEF E!CopyRead, E!Begins, Counted, Begins, Copied
  <2> QED BY <2>1, <2>2
<1> QED BY <1>1, <1>2, <1>3, <1>4, <1>5, <1>6 DEF Reads

LEMMA ReadingKnows ==
    ASSUME DraftsKnow, NEW r \in Reading \cup Copying
    PROVE  r \in E!ClerkType /\ Knows(r, status, invoiced)
<1>1. ASSUME NEW i \in DraftSet, r = [pc |-> "delete", on |-> i]
      PROVE  r \in E!ClerkType /\ Knows(r, status, invoiced)
  BY <1>1 DEF E!ClerkType, Knows, DraftSet
<1>2. ASSUME NEW i \in DraftSet, NEW asked \in SUBSET Expenses,
             r = [pc |-> "find", on |-> i, asked |-> asked]
      PROVE  r \in E!ClerkType /\ Knows(r, status, invoiced)
  BY <1>2 DEF E!ClerkType, Knows, DraftSet
<1>3. ASSUME NEW over \in SUBSET Begun(status), NEW to \in {"open", "cancelled"},
             r = [pc |-> "set", over |-> over, to |-> to]
      PROVE  r \in E!ClerkType /\ Knows(r, status, invoiced)
  BY <1>3 DEF E!ClerkType, Knows, Begun
<1>4. ASSUME NEW i \in Begun(status), r = Copied(i)
      PROVE  r \in E!ClerkType /\ Knows(r, status, invoiced)
  <2> DEFINE u == lines[i]
  <2>1. u \in [Expenses -> Nat] /\ \A e \in Expenses : u[e] > 0 => e \in invoiced
    BY DEF DraftsKnow, E!TypeOK, Marked, Begun
  <2>2. r = [pc |-> "merge", from |-> {}, union |-> u]
    BY <1>4 DEF Copied
  <2> HIDE DEF u
  <2> QED BY <2>1, <2>2 DEF E!ClerkType, Knows
<1> QED BY <1>1, <1>2, <1>3, <1>4, JoinedKnows DEF Reading, Copying

LEMMA ReadsKnow ==
    ASSUME DraftsKnow, NEW c \in Clerks, Reads(c)
    PROVE  DraftsKnow'
<1>1. PICK r \in Reading \cup Copying : Alone(c, r) \/ Counted(c, r)
  BY ReadsBegin
<1>2. crossed' \in 0 .. MaxOverlaps
  <2>1. crossed \in 0 .. MaxOverlaps /\ MaxOverlaps \in Nat
    BY ServicesBounds DEF DraftsKnow, E!TypeOK
  <2> QED BY <1>1, <2>1 DEF Alone, Counted
<1> QED BY <1>1, <1>2, ReadingKnows, ClerkMoves DEF Begins, Alone, Counted

LEMMA LifeKnows ==
    ASSUME DraftsKnow, NEW n \in Drafts, E!Create(n) \/ E!Pay(n)
    PROVE  DraftsKnow'
<1>1. /\ status \in [Drafts -> {"none", "draft", "open", "cancelled", "revived", "deleted"}]
      /\ \E s \in {"draft", "open", "revived"} : status' = [status EXCEPT ![n] = s]
      /\ UNCHANGED <<lines, invoiced, clerk, crossed>>
  BY DEF DraftsKnow, E!TypeOK, E!Create, E!Pay, E!Opened
<1>2. Marked(lines', status', invoiced')
  BY <1>1 DEF DraftsKnow, Marked
<1>3. lines \in [Drafts -> [Expenses -> Nat]] /\ invoiced \subseteq Expenses
  BY DEF DraftsKnow, E!TypeOK
<1> QED BY <1>1, <1>2, <1>3, RowsMove

LEMMA FindKnows ==
    ASSUME DraftsKnow, NEW c \in Clerks, E!BillFind(c)
    PROVE  DraftsKnow'
<1> DEFINE found == E!Eligible(clerk[c].asked)
           r == IF found = {} THEN E!Vacant
                ELSE [pc |-> "bill", on |-> clerk[c].on, found |-> found]
<1>1. /\ clerk[c].pc = "find" /\ clerk' = [clerk EXCEPT ![c] = r]
      /\ UNCHANGED <<status, lines, invoiced, crossed>>
  <2>1. clerk \in [Clerks -> E!ClerkType]
    BY DEF DraftsKnow, E!TypeOK
  <2> QED BY <2>1 DEF E!BillFind
<1>2. clerk[c] \in E!ClerkType /\ Knows(clerk[c], status, invoiced) /\ crossed \in 0 .. MaxOverlaps
  BY DEF DraftsKnow, E!TypeOK
<1>3. clerk[c].on \in Drafts /\ found \in SUBSET Expenses /\ status[clerk[c].on] # "none"
  BY <1>1, <1>2, ClerkFields DEF Knows, E!Eligible
<1> HIDE DEF found
<1>4. r \in E!ClerkType /\ Knows(r, status, invoiced)
  BY <1>3 DEF E!ClerkType, Knows, E!Vacant
<1> HIDE DEF r
<1> QED BY <1>1, <1>2, <1>4, ClerkMoves

\* The statuses as a request that sets them leaves them
SetTo(r) ==
    [i \in Drafts |-> IF i \notin r.over \/ status[i] = "deleted" THEN status[i]
                     ELSE IF r.to = "cancelled" THEN "cancelled" ELSE E!Opened(status[i])]

LEMMA WritesKnow ==
    ASSUME DraftsKnow, NEW c \in Clerks,
           E!SetWrite(c) \/ E!DeleteWrite(c) \/ E!BillWrite(c) \/ E!MergeWrite(c) \/ E!Fails(c)
    PROVE  DraftsKnow'
<1> DEFINE k == clerk[c]
<1>1. /\ k \in E!ClerkType /\ Knows(k, status, invoiced)
      /\ status \in [Drafts -> {"none", "draft", "open", "cancelled", "revived", "deleted"}]
      /\ lines \in [Drafts -> [Expenses -> Nat]]
      /\ invoiced \subseteq Expenses /\ Marked(lines, status, invoiced)
  BY DEF DraftsKnow, E!TypeOK
<1>2. clerk' = [clerk EXCEPT ![c] = E!Vacant] /\ UNCHANGED crossed
  BY DEF E!SetWrite, E!DeleteWrite, E!BillWrite, E!MergeWrite, E!Fails, E!Ends
<1>3. ASSUME UNCHANGED <<status, lines, invoiced>> PROVE DraftsKnow'
  <2>1. E!Vacant \in E!ClerkType /\ crossed \in 0 .. MaxOverlaps
    BY DEF E!ClerkType, DraftsKnow, E!TypeOK
  <2> QED BY <1>2, <1>3, <2>1, VacantKnows, ClerkMoves
<1>4. ASSUME k.pc = "delete", status' = [status EXCEPT ![k.on] = "deleted"],
             lines' = [lines EXCEPT ![k.on] = E!NoLines], UNCHANGED invoiced
      PROVE  DraftsKnow'
  <2>1. k.on \in Drafts /\ E!NoLines \in [Expenses -> Nat] /\ \A e \in Expenses : E!NoLines[e] = 0
    BY <1>1, <1>4, ClerkFields DEF E!NoLines
  <2> DEFINE n == k.on
  <2>2. /\ n \in Drafts /\ status' = [status EXCEPT ![n] = "deleted"]
        /\ lines' = [lines EXCEPT ![n] = E!NoLines]
    BY <1>4, <2>1
  <2> HIDE DEF n, k
  <2>3. Marked(lines', status', invoiced')
    BY <1>1, <1>4, <2>1, <2>2 DEF Marked
  <2>4. lines' \in [Drafts -> [Expenses -> Nat]]
    BY <1>1, <2>1, <2>2
  <2> QED BY <1>1, <1>2, <1>4, <2>2, <2>3, <2>4, RowsMove
<1>5. ASSUME k.pc = "bill", invoiced' = invoiced \cup k.found, UNCHANGED status,
             lines' = [lines EXCEPT ![k.on] =
                         [e \in Expenses |-> IF e \in k.found THEN @[e] + 1 ELSE @[e]]]
      PROVE  DraftsKnow'
  <2>1. k.on \in Drafts /\ k.found \in SUBSET Expenses /\ status[k.on] # "none"
    BY <1>1, <1>5, ClerkFields DEF Knows
  <2> DEFINE n == k.on
             f == k.found
  <2>2. n \in Drafts /\ f \in SUBSET Expenses /\ status[n] # "none"
        /\ lines' = [lines EXCEPT ![n] = [e \in Expenses |-> IF e \in f THEN @[e] + 1 ELSE @[e]]]
        /\ invoiced' = invoiced \cup f
    BY <1>5, <2>1
  <2> HIDE DEF n, f, k
  <2>3. Marked(lines', status', invoiced')
    BY <1>1, <1>5, <2>2 DEF Marked
  <2>4. lines' \in [Drafts -> [Expenses -> Nat]]
    BY <1>1, <2>2
  <2> QED BY <1>1, <1>2, <1>5, <2>2, <2>3, <2>4, RowsMove
<1>6. ASSUME k.pc = "merge", NEW n \in Drafts, status[n] = "none", UNCHANGED invoiced,
             status' = E!Merged(c, n), lines' = [lines EXCEPT ![n] = k.union]
      PROVE  DraftsKnow'
  <2> DEFINE from == k.from
             u == k.union
  <2>1. /\ from \in SUBSET Drafts /\ u \in [Expenses -> Nat]
        /\ \A i \in from : status[i] # "none"
        /\ \A e \in Expenses : u[e] > 0 => e \in invoiced
    BY <1>1, <1>6, ClerkFields DEF Knows
  <2>2. status' = [j \in Drafts |-> IF j = n THEN "draft"
                                    ELSE IF j \in from THEN "cancelled" ELSE status[j]]
    BY <1>6 DEF E!Merged
  <2>3. lines' = [lines EXCEPT ![n] = u]
    BY <1>6
  <2> HIDE DEF from, u, k
  <2>4. Marked(lines', status', invoiced')
    BY <1>1, <1>6, <2>1, <2>2, <2>3 DEF Marked
  <2>5. lines' \in [Drafts -> [Expenses -> Nat]]
    BY <1>1, <2>1, <2>3
  <2> QED BY <1>1, <1>2, <1>6, <2>1, <2>2, <2>4, <2>5, RowsMove
<1>7. CASE E!DeleteWrite(c)
  <2> HIDE DEF DraftsKnow
  <2> QED BY <1>3, <1>4, <1>7 DEF E!DeleteWrite
<1>8. CASE E!BillWrite(c)
  BY <1>3, <1>5, <1>8 DEF E!BillWrite
<1>9. CASE E!MergeWrite(c)
  BY <1>3, <1>6, <1>9 DEF E!MergeWrite
<1>10. CASE E!Fails(c)
  BY <1>3, <1>10 DEF E!Fails
<1>11. CASE E!SetWrite(c)
  <2>1. k.pc = "set" /\ status' = SetTo(k) /\ UNCHANGED <<lines, invoiced>>
    BY <1>11 DEF E!SetWrite, SetTo
  <2>2. CASE k.over = {}
    <3>1. status' = status
      BY <1>1, <2>1, <2>2 DEF SetTo
    <3> QED BY <1>3, <2>1, <3>1
  <2>3. CASE k.over # {}
    <3>1. k.over \in SUBSET Drafts /\ k.to \in {"open", "cancelled"}
          /\ \A i \in k.over : status[i] # "none"
      BY <1>1, <2>1, ClerkFields DEF Knows
    <3>2. PICK n \in Drafts : TRUE
      BY <2>3, <3>1
    <3> HIDE DEF k
    <3>3. /\ status' \in [Drafts -> {"none", "draft", "open", "cancelled", "revived", "deleted"}]
          /\ \A i \in Drafts : status'[i] # "none" <=> status[i] # "none"
      BY <1>1, <2>1, <3>1 DEF SetTo, E!Opened
    <3>4. Marked(lines', status', invoiced')
      BY <1>1, <2>1, <3>3 DEF Marked
    <3> QED BY <1>1, <1>2, <2>1, <3>3, <3>4, RowsMove
  <2> QED BY <2>2, <2>3
<1> QED BY <1>7, <1>8, <1>9, <1>10, <1>11

Above(x, y) == IF x > y THEN x - y ELSE 0

LiveOf(st) == {i \in Drafts : st[i] = "draft" \/ st[i] = "open"}

LinesIn(Sub, l, e) == SumOf(LinesOn(l, e), Sub)

\* The lines for an expense that a request may yet write
Promised(r, e, inv) ==
    IF r.pc = "find" THEN (IF e \in r.asked /\ e \notin inv THEN 1 ELSE 0)
    ELSE IF r.pc = "bill" THEN (IF e \in r.found THEN 1 ELSE 0)
    ELSE IF r.pc = "merge" THEN r.union[e] ELSE 0

Promises(k, e, inv) == [c \in Clerks |-> Promised(k[c], e, inv)]

PromisedBut(h, k, e, inv) == SumOf(Promises(k, e, inv), AtWork(k) \ {h})

\* What a request may add to the lines of the live invoices when it writes at once: a merge
\* cancels what it has read
Adds(r, e, inv, st, l) ==
    IF r.pc = "merge" THEN Above(r.union[e], LinesIn(r.from \cap LiveOf(st), l, e))
    ELSE Promised(r, e, inv)

RequestOf(h, k) == IF h \in Clerks THEN k[h] ELSE E!Vacant

\* The lines there are, those that one request would add, and those the others may
Weight(h, e, st, l, inv, k) ==
    LinesIn(LiveOf(st), l, e) + Adds(RequestOf(h, k), e, inv, st, l) + PromisedBut(h, k, e, inv)

Weighed == \A e \in Expenses : \E h : Weight(h, e, status, lines, invoiced, clerk) <= 2 ^ crossed

\* The requests about to put the expense on the invoice
ToBill(k, i, e) == {c \in AtWork(k) : k[c].pc = "bill" /\ k[c].on = i /\ e \in k[c].found}

\* A copy adds the lines of any invoice, a cancelled one too, which no weight counts: no one
\* invoice has more, nor will have when those who read it have written
Small ==
    /\ Cardinality(AtWork(clerk)) <= 2 ^ crossed
    /\ \A c \in Clerks, e \in Expenses : clerk[c].pc = "merge" => clerk[c].union[e] <= 2 ^ crossed
    /\ \A i \in Drafts, e \in Expenses :
         lines[i][e] + Cardinality(ToBill(clerk, i, e)) <= 2 ^ crossed

DraftingInv == DraftsKnow /\ Weighed /\ Small

--------------------------------------------------------------------------------
(* What the requests promise *)

LEMMA PromisedIsNatural ==
    ASSUME NEW r \in E!ClerkType, NEW e \in Expenses, NEW inv
    PROVE  Promised(r, e, inv) \in Nat /\ (r = E!Vacant => Promised(r, e, inv) = 0)
<1>1. CASE r.pc = "merge"
  BY <1>1, ClerkFields DEF Promised
<1>2. CASE r.pc # "merge"
  BY <1>2, ClerkFields DEF Promised
<1> QED BY <1>1, <1>2

\* Marked expenses are not found any more
LEMMA PromisedFalls ==
    ASSUME NEW r, NEW e, NEW inv, NEW inv2, inv \subseteq inv2, Promised(r, e, inv) \in Nat
    PROVE  Promised(r, e, inv2) <= Promised(r, e, inv)
<1>1. CASE r.pc = "find"
  BY <1>1 DEF Promised
<1>2. CASE r.pc # "find"
  <2>1. Promised(r, e, inv2) = Promised(r, e, inv)
    BY <1>2 DEF Promised
  <2> QED BY <2>1
<1> QED BY <1>1, <1>2

Typed(k) == k \in [Clerks -> E!ClerkType] /\ IsFiniteSet(AtWork(k))

LEMMA PromisesAreNatural ==
    ASSUME NEW k, Typed(k), NEW e \in Expenses, NEW inv
    PROVE  \A c \in Clerks : Promises(k, e, inv)[c] = Promised(k[c], e, inv)
                             /\ Promises(k, e, inv)[c] \in Nat
BY PromisedIsNatural DEF Promises, Typed

LEMMA PromisedButIsNatural ==
    ASSUME NEW k, Typed(k), NEW e \in Expenses, NEW inv, NEW h
    PROVE  PromisedBut(h, k, e, inv) \in Nat
<1>1. AtWork(k) \ {h} \in SUBSET Clerks /\ IsFiniteSet(AtWork(k) \ {h})
  <2>1. IsFiniteSet(AtWork(k) \ {h})
    BY FS_Subset DEF Typed
  <2> QED BY <2>1 DEF AtWork
<1> DEFINE a == Promises(k, e, inv)
<1>2. \A c \in Clerks : a[c] \in Nat
  BY PromisesAreNatural
<1> HIDE DEF a
<1>3. SumOf(a, AtWork(k) \ {h}) \in Nat
  BY <1>1, <1>2, SumIsNatural
<1> QED BY <1>3 DEF PromisedBut, a

\* The others promise no more, and the promise of c becomes that of its new request
LEMMA PromisesMove ==
    ASSUME NEW k, Typed(k), NEW e \in Expenses, NEW inv, NEW inv2, inv \subseteq inv2,
           NEW c \in Clerks, NEW r \in E!ClerkType, NEW h
    PROVE  LET k2 == [k EXCEPT ![c] = r] IN
           /\ c = h => PromisedBut(h, k2, e, inv2) <= PromisedBut(h, k, e, inv)
           /\ c # h => PromisedBut(h, k2, e, inv2) + Promised(k[c], e, inv)
                         <= PromisedBut(h, k, e, inv) + Promised(r, e, inv2)
<1> DEFINE k2 == [k EXCEPT ![c] = r]
           Rest == AtWork(k) \ {h, c}
           a == Promises(k, e, inv)
           b == Promises(k2, e, inv2)
           Was == AtWork(k) \ {h}
           Is == AtWork(k2) \ {h}
<1>1. k \in [Clerks -> E!ClerkType] /\ IsFiniteSet(AtWork(k)) /\ k2 \in [Clerks -> E!ClerkType]
      /\ AtWork(k2) \subseteq AtWork(k) \cup {c} /\ k2[c] = r
      /\ \A d \in Clerks \ {c} : k2[d] = k[d]
  BY DEF Typed, AtWork
<1>2. Rest \in SUBSET Clerks /\ IsFiniteSet(Rest) /\ IsFiniteSet(Was) /\ Was \in SUBSET Clerks
      /\ IsFiniteSet(Is) /\ Is \in SUBSET Clerks /\ IsFiniteSet(AtWork(k2))
  <2>1. IsFiniteSet(AtWork(k) \cup {c})
    BY <1>1, FS_AddElement
  <2>2. IsFiniteSet(AtWork(k2))
    BY <1>1, <2>1, FS_Subset
  <2>3. IsFiniteSet(Rest) /\ IsFiniteSet(Was) /\ IsFiniteSet(Is)
    BY <1>1, <2>2, FS_Subset
  <2> QED BY <2>2, <2>3 DEF AtWork
<1>3. \A d \in Clerks : a[d] = Promised(k[d], e, inv) /\ a[d] \in Nat
  BY PromisesAreNatural
<1>4. \A d \in Clerks : b[d] = Promised(k2[d], e, inv2) /\ b[d] \in Nat
  <2>1. Typed(k2)
    BY <1>1, <1>2 DEF Typed
  <2> HIDE DEF k2
  <2> QED BY <2>1, PromisesAreNatural
<1>5. \A d \in Rest : b[d] <= a[d]
  <2>1. ASSUME NEW d \in Rest PROVE b[d] <= a[d]
    <3>1. d \in Clerks /\ k2[d] = k[d]
      BY <1>1, <1>2
    <3>2. Promised(k[d], e, inv2) <= Promised(k[d], e, inv)
      BY <1>3, <3>1, PromisedFalls
    <3> QED BY <1>3, <1>4, <3>1, <3>2
  <2> QED BY <2>1
\* Whoever rests promises nothing
<1>6. /\ c # h => SumOf(a, Was) = a[c] + SumOf(a, Rest)
      /\ c = h => SumOf(a, Was) = SumOf(a, Rest)
      /\ SumOf(a, Rest) \in Nat
  <2>1. c = h => Was = Rest
    OBVIOUS
  <2>2. SumOf(a, Rest) \in Nat
    <3> HIDE DEF a, Rest
    <3> QED BY <1>2, <1>3, SumIsNatural
  <2>3. c # h /\ c \in Was => SumOf(a, Was) = a[c] + SumOf(a, Rest)
    <3>1. Was \ {c} = Rest
      OBVIOUS
    <3> HIDE DEF a, Rest, Was
    <3> QED BY <1>2, <1>3, <3>1, SumSplits
  <2>4. c # h /\ c \notin Was => Was = Rest /\ a[c] = 0
    <3>1. c # h /\ c \notin Was => k[c] = E!Vacant /\ Was = Rest
      BY DEF AtWork
    <3>2. k[c] = E!Vacant => Promised(k[c], e, inv) = 0
      BY <1>1, PromisedIsNatural
    <3> QED BY <1>3, <3>1, <3>2
  <2> HIDE DEF a, Rest, Was
  <2> QED BY <2>1, <2>2, <2>3, <2>4
<1>7. /\ c # h => SumOf(b, Is) = b[c] + SumOf(b, Rest)
      /\ c = h => SumOf(b, Is) = SumOf(b, Rest)
      /\ SumOf(b, Rest) \in Nat
  <2>0. Is \ {c} = Rest
    BY <1>1 DEF AtWork
  <2>1. c = h => Is = Rest
    BY <2>0
  <2>2. SumOf(b, Rest) \in Nat
    <3> HIDE DEF b, Rest
    <3> QED BY <1>2, <1>4, SumIsNatural
  <2>3. c # h /\ c \in Is => SumOf(b, Is) = b[c] + SumOf(b, Rest)
    <3> HIDE DEF b, Rest, Is
    <3> QED BY <1>2, <1>4, <2>0, SumSplits
  <2>4. c # h /\ c \notin Is => Is = Rest /\ b[c] = 0
    <3>1. c # h /\ c \notin Is => k2[c] = E!Vacant /\ Is = Rest
      BY <2>0 DEF AtWork
    <3>2. k2[c] = E!Vacant => Promised(k2[c], e, inv2) = 0
      BY <1>1, PromisedIsNatural
    <3> QED BY <1>4, <3>1, <3>2
  <2> HIDE DEF b, Rest, Is
  <2> QED BY <2>1, <2>2, <2>3, <2>4
<1>8. SumOf(b, Rest) <= SumOf(a, Rest)
  <2> HIDE DEF a, b, Rest
  <2>1. \A d \in Rest : a[d] \in Int /\ b[d] \in Int /\ b[d] <= a[d]
    BY <1>2, <1>3, <1>4, <1>5
  <2> QED BY <1>2, <2>1, SumAtMost
<1>9. a[c] = Promised(k[c], e, inv) /\ b[c] = Promised(r, e, inv2) /\ a[c] \in Nat /\ b[c] \in Nat
  BY <1>1, <1>3, <1>4
<1>10. PromisedBut(h, k, e, inv) = SumOf(a, Was) /\ PromisedBut(h, k2, e, inv2) = SumOf(b, Is)
  BY DEF PromisedBut
<1> HIDE DEF a, b, Was, Is, Rest, k2
<1>11. /\ c = h => PromisedBut(h, k2, e, inv2) <= PromisedBut(h, k, e, inv)
       /\ c # h => PromisedBut(h, k2, e, inv2) + Promised(k[c], e, inv)
                     <= PromisedBut(h, k, e, inv) + Promised(r, e, inv2)
  BY <1>6, <1>7, <1>8, <1>9, <1>10
<1> QED BY <1>11 DEF k2

--------------------------------------------------------------------------------
(* What the rows hold, and what a merge would add to it *)

Rowed(st, l) == l \in [Drafts -> [Expenses -> Nat]] /\ IsFiniteSet(Begun(st))

LEMMA LinesAreNatural ==
    ASSUME NEW st, NEW l, Rowed(st, l), NEW e \in Expenses, NEW Sub \in SUBSET Begun(st)
    PROVE  /\ LinesIn(Sub, l, e) \in Nat /\ IsFiniteSet(Sub)
           /\ \A i \in Sub : LinesOn(l, e)[i] = l[i][e] /\ l[i][e] \in Nat
<1>1. IsFiniteSet(Sub) /\ Sub \in SUBSET Drafts
  BY FS_Subset DEF Rowed, Begun
<1>2. \A i \in Sub : LinesOn(l, e)[i] = l[i][e] /\ l[i][e] \in Nat
  BY <1>1 DEF Rowed, LinesOn
<1>3. SumOf(LinesOn(l, e), Sub) \in Nat
  BY <1>1, <1>2, SumIsNatural
<1> QED BY <1>1, <1>2, <1>3 DEF LinesIn

LEMMA LinesOfPart ==
    ASSUME NEW st, NEW l, Rowed(st, l), NEW e \in Expenses, NEW Sub \in SUBSET Begun(st),
           NEW s \in SUBSET Sub
    PROVE  /\ LinesIn(Sub, l, e) \in Nat /\ LinesIn(s, l, e) \in Nat /\ LinesIn(Sub \ s, l, e) \in Nat
           /\ LinesIn(Sub, l, e) = LinesIn(s, l, e) + LinesIn(Sub \ s, l, e)
           /\ LinesIn(s, l, e) <= LinesIn(Sub, l, e)
<1> DEFINE a == LinesOn(l, e)
<1>1. IsFiniteSet(Sub) /\ \A i \in Sub : a[i] \in Nat
  BY LinesAreNatural
<1> HIDE DEF a
<1>2. SumOf(a, Sub) \in Nat
  BY <1>1, SumOfPart
<1>3. SumOf(a, s) \in Nat
  BY <1>1, SumOfPart
<1>4. SumOf(a, Sub \ s) \in Nat
  BY <1>1, SumOfPart
<1>5. SumOf(a, Sub) = SumOf(a, s) + SumOf(a, Sub \ s)
  BY <1>1, SumOfPart
<1>6. SumOf(a, s) <= SumOf(a, Sub)
  BY <1>1, SumOfPart
<1> QED BY <1>2, <1>3, <1>4, <1>5, <1>6 DEF LinesIn, a

LEMMA LinesAlike ==
    ASSUME NEW st, NEW l, Rowed(st, l), NEW l2, NEW e \in Expenses, NEW Sub \in SUBSET Begun(st),
           \A i \in Sub : l2[i][e] = l[i][e]
    PROVE  LinesIn(Sub, l2, e) = LinesIn(Sub, l, e)
<1>1. IsFiniteSet(Sub) /\ \A i \in Sub : LinesOn(l, e)[i] = l[i][e] /\ l[i][e] \in Nat
  BY LinesAreNatural
<1>2. \A i \in Sub : LinesOn(l2, e)[i] = l2[i][e]
  BY DEF LinesOn, Begun
<1> DEFINE a == LinesOn(l, e)
           b == LinesOn(l2, e)
<1>3. \A i \in Sub : a[i] \in Int /\ b[i] = a[i]
  BY <1>1, <1>2
<1>4. SumOf(a, Sub) = SumOf(b, Sub)
  <2> HIDE DEF a, b
  <2> QED BY <1>1, <1>3, SumAlike
<1> QED BY <1>4 DEF LinesIn

LEMMA LiveIsBegun == \A st : LiveOf(st) \in SUBSET Begun(st)
BY DEF LiveOf, Begun

\* Invoices leave, and others, which no request knows, come
LEMMA RowsLeave ==
    ASSUME NEW st, NEW l, Rowed(st, l), NEW st2, NEW l2, Rowed(st2, l2),
           NEW e \in Expenses, NEW D, NEW N, N \cap Begun(st) = {},
           LiveOf(st2) = (LiveOf(st) \ D) \cup N,
           \A i \in LiveOf(st) \ D : l2[i][e] = l[i][e],
           NEW Sub \in SUBSET Begun(st)
    PROVE  /\ LinesIn(Sub \cap LiveOf(st2), l2, e) \in Nat
           /\ LinesIn(Sub \cap LiveOf(st), l, e) \in Nat
           /\ LinesIn(D \cap LiveOf(st), l, e) \in Nat
           /\ LinesIn(Sub \cap LiveOf(st), l, e)
                <= LinesIn(Sub \cap LiveOf(st2), l2, e) + LinesIn(D \cap LiveOf(st), l, e)
<1> DEFINE Was == Sub \cap LiveOf(st)
           Is == Sub \cap LiveOf(st2)
           C2 == D \cap LiveOf(st)
           O == Was \ Is
<1>1. Was \in SUBSET Begun(st) /\ Is \in SUBSET Was /\ C2 \in SUBSET Begun(st) /\ O \in SUBSET C2
      /\ Was \ O = Is /\ O \in SUBSET Was /\ Is \in SUBSET Begun(st2) /\ Is \in SUBSET Begun(st)
      /\ \A i \in Is : l2[i][e] = l[i][e]
  BY LiveIsBegun
<1> HIDE DEF Was, Is, C2, O
<1>2. LinesIn(Is, l2, e) = LinesIn(Is, l, e)
  BY <1>1, LinesAlike
<1>3. LinesIn(Was, l, e) \in Nat
  BY <1>1, LinesOfPart
<1>4. LinesIn(O, l, e) \in Nat
  BY <1>1, LinesOfPart
<1>5. LinesIn(Is, l, e) \in Nat
  BY <1>1, LinesOfPart
<1>6. LinesIn(Was, l, e) = LinesIn(O, l, e) + LinesIn(Is, l, e)
  BY <1>1, LinesOfPart
<1>7. LinesIn(C2, l, e) \in Nat
  BY <1>1, LinesAreNatural
<1>8. LinesIn(O, l, e) <= LinesIn(C2, l, e)
  BY <1>1, LinesOfPart
<1> DEFINE nA == LinesIn(Was, l, e)
           nO == LinesIn(O, l, e)
           nB == LinesIn(Is, l, e)
           nC == LinesIn(C2, l, e)
<1>9. nA \in Nat /\ nO \in Nat /\ nB \in Nat /\ nC \in Nat /\ nA = nO + nB /\ nO <= nC
  BY <1>3, <1>4, <1>5, <1>6, <1>7, <1>8
<1>10. nA <= nB + nC
  <2> HIDE DEF nA, nO, nB, nC
  <2> QED BY <1>9
<1> QED BY <1>2, <1>3, <1>5, <1>7, <1>10 DEF Was, Is, C2

LEMMA LinesLeave ==
    ASSUME NEW st, NEW l, Rowed(st, l), NEW st2, NEW l2, Rowed(st2, l2),
           NEW e \in Expenses, NEW D, NEW N \in SUBSET Begun(st2), N \cap Begun(st) = {},
           LiveOf(st2) = (LiveOf(st) \ D) \cup N,
           \A i \in LiveOf(st) \ D : l2[i][e] = l[i][e]
    PROVE  LinesIn(LiveOf(st2), l2, e) + LinesIn(D \cap LiveOf(st), l, e)
             <= LinesIn(LiveOf(st), l, e) + LinesIn(N, l2, e)
<1> DEFINE Was == LiveOf(st)
           Is == LiveOf(st2)
           C2 == D \cap Was
           O == Was \ D
<1>1. /\ Was \in SUBSET Begun(st) /\ Is \in SUBSET Begun(st2) /\ C2 \in SUBSET Was /\ O \in SUBSET Was
      /\ Was \ C2 = O /\ O \in SUBSET Is /\ Is \ O = N /\ O \in SUBSET Begun(st)
      /\ \A i \in O : l2[i][e] = l[i][e]
  BY LiveIsBegun
<1> HIDE DEF Was, Is, C2, O
<1>2. LinesIn(O, l2, e) = LinesIn(O, l, e)
  BY <1>1, LinesAlike
<1>3. LinesIn(Was, l, e) \in Nat /\ LinesIn(Is, l2, e) \in Nat /\ LinesIn(O, l, e) \in Nat
  BY <1>1, LinesAreNatural
<1>4. LinesIn(C2, l, e) \in Nat
  BY <1>1, LinesOfPart
<1>5. LinesIn(N, l2, e) \in Nat
  BY <1>1, LinesOfPart
<1>6. LinesIn(Was, l, e) = LinesIn(C2, l, e) + LinesIn(O, l, e)
  BY <1>1, LinesOfPart
<1>7. LinesIn(Is, l2, e) = LinesIn(O, l2, e) + LinesIn(N, l2, e)
  BY <1>1, LinesOfPart
<1> DEFINE nA == LinesIn(Was, l, e)
           nB == LinesIn(Is, l2, e)
           nO == LinesIn(O, l, e)
           nC == LinesIn(C2, l, e)
           nN == LinesIn(N, l2, e)
<1>8. nA \in Nat /\ nB \in Nat /\ nO \in Nat /\ nC \in Nat /\ nN \in Nat
      /\ nA = nC + nO /\ nB = nO + nN
  BY <1>2, <1>3, <1>4, <1>5, <1>6, <1>7
<1>9. nB + nC <= nA + nN
  <2> HIDE DEF nA, nO, nB, nC, nN
  <2> QED BY <1>8
<1> QED BY <1>9 DEF Was, Is, C2

\* What is left of a merge's sources is less by x at most
LEMMA AddsFall ==
    ASSUME NEW r \in E!ClerkType, NEW e \in Expenses, NEW inv, NEW inv2, inv \subseteq inv2,
           NEW st, NEW l, NEW st2, NEW l2, NEW x \in Nat,
           r.pc = "merge" => /\ LinesIn(r.from \cap LiveOf(st), l, e) \in Nat
                             /\ LinesIn(r.from \cap LiveOf(st2), l2, e) \in Nat
                             /\ LinesIn(r.from \cap LiveOf(st), l, e)
                                  <= LinesIn(r.from \cap LiveOf(st2), l2, e) + x
    PROVE  /\ Adds(r, e, inv, st, l) \in Nat /\ Adds(r, e, inv2, st2, l2) \in Nat
           /\ Adds(r, e, inv, st, l) <= Promised(r, e, inv)
           /\ Adds(r, e, inv2, st2, l2) <= Adds(r, e, inv, st, l) + x
<1>1. CASE r.pc = "merge"
  <2> DEFINE u == r.union[e]
             p == LinesIn(r.from \cap LiveOf(st), l, e)
             q == LinesIn(r.from \cap LiveOf(st2), l2, e)
  <2>1. u \in Nat /\ p \in Nat /\ q \in Nat /\ p <= q + x
    BY <1>1, ClerkFields
  <2>2. Adds(r, e, inv, st, l) = Above(u, p) /\ Adds(r, e, inv2, st2, l2) = Above(u, q)
        /\ Promised(r, e, inv) = u
    BY <1>1 DEF Adds, Promised
  <2> HIDE DEF u, p, q
  <2> QED BY <2>1, <2>2 DEF Above
<1>2. CASE r.pc # "merge"
  <2>1. /\ Adds(r, e, inv, st, l) = Promised(r, e, inv)
        /\ Adds(r, e, inv2, st2, l2) = Promised(r, e, inv2)
    BY <1>2 DEF Adds
  <2>2. Promised(r, e, inv) \in Nat /\ Promised(r, e, inv2) \in Nat
    BY PromisedIsNatural
  <2>3. Promised(r, e, inv2) <= Promised(r, e, inv)
    BY <2>2, PromisedFalls
  <2> QED BY <2>1, <2>2, <2>3
<1> QED BY <1>1, <1>2

LEMMA RestingAdds ==
    \A e, inv, st, l : Adds(E!Vacant, e, inv, st, l) = 0 /\ Promised(E!Vacant, e, inv) = 0
BY DEF Adds, Promised, E!Vacant

\* A request ends: what it wrote, y, it had promised, and the sources it cancelled, x, it had
\* counted
LEMMA WeightWhenEnded ==
    ASSUME NEW k, Typed(k), NEW e \in Expenses, NEW inv, NEW inv2, inv \subseteq inv2,
           NEW st, NEW l, NEW st2, NEW l2, NEW c \in Clerks, NEW x \in Nat, NEW y \in Nat, NEW h,
           LinesIn(LiveOf(st), l, e) \in Nat, LinesIn(LiveOf(st2), l2, e) \in Nat,
           LinesIn(LiveOf(st2), l2, e) + x <= LinesIn(LiveOf(st), l, e) + y,
           \A d \in Clerks : /\ Adds(k[d], e, inv, st, l) \in Nat
                             /\ Adds(k[d], e, inv2, st2, l2) \in Nat
                             /\ Adds(k[d], e, inv2, st2, l2) <= Adds(k[d], e, inv, st, l) + x,
           y <= Promised(k[c], e, inv), y <= x + Adds(k[c], e, inv, st, l)
    PROVE  /\ Weight(h, e, st, l, inv, k) \in Nat
           /\ Weight(h, e, st2, l2, inv2, [k EXCEPT ![c] = E!Vacant]) \in Nat
           /\ Weight(h, e, st2, l2, inv2, [k EXCEPT ![c] = E!Vacant]) <= Weight(h, e, st, l, inv, k)
<1> DEFINE k2 == [k EXCEPT ![c] = E!Vacant]
           g == PromisedBut(h, k, e, inv)
           g2 == PromisedBut(h, k2, e, inv2)
           s == Adds(RequestOf(h, k), e, inv, st, l)
           s2 == Adds(RequestOf(h, k2), e, inv2, st2, l2)
           t == LinesIn(LiveOf(st), l, e)
           t2 == LinesIn(LiveOf(st2), l2, e)
<1>1. E!Vacant \in E!ClerkType /\ Typed(k2) /\ k2[c] = E!Vacant
      /\ \A d \in Clerks \ {c} : k2[d] = k[d]
  <2>1. AtWork(k2) \subseteq AtWork(k) /\ k2 \in [Clerks -> E!ClerkType] /\ E!Vacant \in E!ClerkType
    BY DEF Typed, AtWork, E!ClerkType
  <2>2. IsFiniteSet(AtWork(k2))
    BY <2>1, FS_Subset DEF Typed
  <2> QED BY <2>1, <2>2 DEF Typed
<1>2. g \in Nat /\ g2 \in Nat
  <2> HIDE DEF k2
  <2> QED BY <1>1, PromisedButIsNatural
<1>3. Promised(E!Vacant, e, inv2) = 0 /\ Promised(k[c], e, inv) \in Nat
  BY RestingAdds, PromisedIsNatural DEF Typed
<1>4. (c = h => g2 <= g) /\ (c # h => g2 + Promised(k[c], e, inv) <= g + 0)
  BY <1>1, <1>3, PromisesMove
<1>5. CASE h = c
  <2>1. s = Adds(k[c], e, inv, st, l) /\ s2 = 0
    BY <1>1, <1>5, RestingAdds DEF RequestOf
  <2> HIDE DEF k2, g, g2, s, s2, t, t2
  <2>2. t2 + s2 + g2 <= t + s + g /\ t2 + s2 + g2 \in Nat /\ t + s + g \in Nat
    BY <1>2, <1>3, <1>4, <1>5, <2>1 DEF t, t2
  <2> QED BY <2>2 DEF Weight, k2, g, g2, s, s2, t, t2
<1>6. CASE h # c
  <2>1. s \in Nat /\ s2 \in Nat /\ s2 <= s + x
    <3>1. CASE h \in Clerks
      BY <1>1, <1>6, <3>1 DEF RequestOf
    <3>2. CASE h \notin Clerks
      <4>1. s = 0 /\ s2 = 0
        BY <3>2, RestingAdds DEF RequestOf
      <4> QED BY <4>1
    <3> QED BY <3>1, <3>2
  <2> HIDE DEF k2, g, g2, s, s2, t, t2
  <2>2. t2 + s2 + g2 <= t + s + g /\ t2 + s2 + g2 \in Nat /\ t + s + g \in Nat
    BY <1>2, <1>3, <1>4, <1>6, <2>1 DEF t, t2
  <2> QED BY <2>2 DEF Weight, k2, g, g2, s, s2, t, t2
<1> QED BY <1>5, <1>6

--------------------------------------------------------------------------------
(* The steps *)

\* The state's rows and requests, as the lemmas above take them
LEMMA DraftsTyped ==
    ASSUME DraftsKnow
    PROVE  /\ Rowed(status, lines) /\ Typed(clerk)
           /\ \A c \in Clerks : clerk[c] \in E!ClerkType
           /\ \A c \in Clerks : clerk[c].pc = "merge" => clerk[c].from \in SUBSET Begun(status)
           /\ crossed \in Nat
<1>1. Rowed(status, lines) /\ Typed(clerk) /\ \A c \in Clerks : clerk[c] \in E!ClerkType
  BY DEF DraftsKnow, E!TypeOK, Rowed, Typed
<1>2. ASSUME NEW c \in Clerks, clerk[c].pc = "merge" PROVE clerk[c].from \in SUBSET Begun(status)
  <2>1. clerk[c].from \in SUBSET Drafts
    BY <1>1, <1>2, ClerkFields
  <2> QED BY <1>2, <2>1 DEF DraftsKnow, Knows, Begun
<1>3. crossed \in Nat
  BY ServicesBounds DEF DraftsKnow, E!TypeOK
<1> QED BY <1>1, <1>2, <1>3

\* Whatever request is counted apart, or none
LEMMA AddsAreNatural ==
    ASSUME DraftsKnow, NEW e \in Expenses, NEW h
    PROVE  Adds(RequestOf(h, clerk), e, invoiced, status, lines) \in Nat
<1>1. CASE h \in Clerks
  <2> DEFINE r == clerk[h]
             Sub == r.from \cap LiveOf(status)
  <2>1. /\ r \in E!ClerkType /\ Rowed(status, lines) /\ invoiced \subseteq invoiced
        /\ r.pc = "merge" => r.from \in SUBSET Begun(status)
    BY <1>1, DraftsTyped
  <2> HIDE DEF r
  <2>2. r.pc = "merge" => Sub \in SUBSET Begun(status)
    BY <2>1
  <2>3. r.pc = "merge" => LinesIn(Sub, lines, e) \in Nat
    BY <2>1, <2>2, LinesAreNatural
  <2>4. r.pc = "merge" => LinesIn(Sub, lines, e) <= LinesIn(Sub, lines, e) + 0
    BY <2>3
  <2>5. Adds(r, e, invoiced, status, lines) \in Nat
    BY <2>1, <2>3, <2>4, AddsFall
  <2> QED BY <1>1, <2>5 DEF r, RequestOf
<1>2. CASE h \notin Clerks
  BY <1>2, RestingAdds DEF RequestOf
<1> QED BY <1>1, <1>2

LEMMA DraftsTypedNext ==
    ASSUME DraftsKnow'
    PROVE  Rowed(status', lines') /\ Typed(clerk')
BY DEF DraftsKnow, E!TypeOK, Rowed, Typed

\* Invoices D leave and N come, and nobody's lines but theirs change
LEMMA AddsWhenRowsLeave ==
    ASSUME DraftsKnow, DraftsKnow', NEW e \in Expenses, NEW D, NEW N, N \cap Begun(status) = {},
           invoiced \subseteq invoiced',
           LiveOf(status') = (LiveOf(status) \ D) \cup N,
           \A i \in LiveOf(status) \ D : lines'[i][e] = lines[i][e], NEW c \in Clerks
    PROVE  /\ Adds(clerk[c], e, invoiced, status, lines) \in Nat
           /\ Adds(clerk[c], e, invoiced', status', lines') \in Nat
           /\ Adds(clerk[c], e, invoiced', status', lines')
                <= Adds(clerk[c], e, invoiced, status, lines)
                     + LinesIn(D \cap LiveOf(status), lines, e)
<1> DEFINE x == LinesIn(D \cap LiveOf(status), lines, e)
           r == clerk[c]
<1>1. Rowed(status, lines) /\ Rowed(status', lines') /\ r \in E!ClerkType
      /\ (r.pc = "merge" => r.from \in SUBSET Begun(status))
  BY DraftsTyped, DraftsTypedNext
<1>2. x \in Nat
  <2>1. {} \in SUBSET Begun(status)
    OBVIOUS
  <2> HIDE DEF r
  <2> QED BY <1>1, <2>1, RowsLeave
<1>3. r.pc = "merge" => /\ LinesIn(r.from \cap LiveOf(status), lines, e) \in Nat
                        /\ LinesIn(r.from \cap LiveOf(status'), lines', e) \in Nat
                        /\ LinesIn(r.from \cap LiveOf(status), lines, e)
                             <= LinesIn(r.from \cap LiveOf(status'), lines', e) + x
  <2> HIDE DEF r
  <2> SUFFICES ASSUME r.pc = "merge"
               PROVE  /\ LinesIn(r.from \cap LiveOf(status), lines, e) \in Nat
                      /\ LinesIn(r.from \cap LiveOf(status'), lines', e) \in Nat
                      /\ LinesIn(r.from \cap LiveOf(status), lines, e)
                           <= LinesIn(r.from \cap LiveOf(status'), lines', e) + x
    OBVIOUS
  <2>1. r.from \in SUBSET Begun(status)
    BY <1>1
  <2>2. LinesIn(r.from \cap LiveOf(status), lines, e) \in Nat
    BY <1>1, <2>1, RowsLeave
  <2>3. LinesIn(r.from \cap LiveOf(status'), lines', e) \in Nat
    BY <1>1, <2>1, RowsLeave
  <2>4. LinesIn(r.from \cap LiveOf(status), lines, e)
           <= LinesIn(r.from \cap LiveOf(status'), lines', e)
                + LinesIn(D \cap LiveOf(status), lines, e)
    BY <1>1, <2>1, RowsLeave
  <2> QED BY <2>2, <2>3, <2>4
<1> HIDE DEF x, r
<1>4. Adds(r, e, invoiced, status, lines) \in Nat /\ Adds(r, e, invoiced', status', lines') \in Nat
  BY <1>1, <1>2, <1>3, AddsFall
<1>5. Adds(r, e, invoiced', status', lines') <= Adds(r, e, invoiced, status, lines) + x
  BY <1>1, <1>2, <1>3, AddsFall
<1> QED BY <1>4, <1>5 DEF x, r

LEMMA LinesWhenRowsLeave ==
    ASSUME DraftsKnow, DraftsKnow', NEW e \in Expenses, NEW D, NEW N \in SUBSET Begun(status'),
           N \cap Begun(status) = {}, LiveOf(status') = (LiveOf(status) \ D) \cup N,
           \A i \in LiveOf(status) \ D : lines'[i][e] = lines[i][e]
    PROVE  /\ LinesIn(LiveOf(status'), lines', e) + LinesIn(D \cap LiveOf(status), lines, e)
                <= LinesIn(LiveOf(status), lines, e) + LinesIn(N, lines', e)
           /\ LinesIn(D \cap LiveOf(status), lines, e) \in Nat
           /\ LinesIn(N, lines', e) \in Nat
<1>1. Rowed(status, lines) /\ Rowed(status', lines')
  BY DraftsTyped, DraftsTypedNext
<1>2. D \cap LiveOf(status) \in SUBSET Begun(status)
  BY LiveIsBegun
<1>3. LinesIn(D \cap LiveOf(status), lines, e) \in Nat
  BY <1>1, <1>2, LinesAreNatural
<1>4. LinesIn(N, lines', e) \in Nat
  BY <1>1, LinesAreNatural
<1>5. LinesIn(LiveOf(status'), lines', e) + LinesIn(D \cap LiveOf(status), lines, e)
        <= LinesIn(LiveOf(status), lines, e) + LinesIn(N, lines', e)
  BY <1>1, LinesLeave
<1> QED BY <1>3, <1>4, <1>5

\* Nobody ends: the weight is at most what it was
LEMMA WeighedWhenRowsLeave ==
    ASSUME DraftingInv, DraftsKnow', NEW D, NEW N \in SUBSET Begun(status'),
           N \cap Begun(status) = {},
           UNCHANGED <<invoiced, clerk, crossed>>,
           LiveOf(status') = (LiveOf(status) \ D) \cup N,
           \A e \in Expenses : LinesIn(N, lines', e) = 0,
           \A i \in LiveOf(status) \ D, e \in Expenses : lines'[i][e] = lines[i][e]
    PROVE  Weighed'
<1> SUFFICES ASSUME NEW e \in Expenses
             PROVE  \E h : Weight(h, e, status', lines', invoiced', clerk') <= 2 ^ crossed'
  BY DEF Weighed
<1>1. PICK h : Weight(h, e, status, lines, invoiced, clerk) <= 2 ^ crossed
  BY DEF DraftingInv, Weighed
<1>2. DraftsKnow /\ Rowed(status, lines) /\ Rowed(status', lines') /\ Typed(clerk)
      /\ crossed \in Nat
  BY DraftsTyped, DraftsTypedNext DEF DraftingInv
<1> DEFINE x == LinesIn(D \cap LiveOf(status), lines, e)
           g == PromisedBut(h, clerk, e, invoiced)
           s == Adds(RequestOf(h, clerk), e, invoiced, status, lines)
           s2 == Adds(RequestOf(h, clerk), e, invoiced', status', lines')
           t == LinesIn(LiveOf(status), lines, e)
           t2 == LinesIn(LiveOf(status'), lines', e)
<1>3. \A i \in LiveOf(status) \ D : lines'[i][e] = lines[i][e]
  OBVIOUS
<1>4. t2 + x <= t + LinesIn(N, lines', e) /\ x \in Nat
  <2> HIDE DEF DraftsKnow
  <2> QED BY <1>2, <1>3, LinesWhenRowsLeave
<1>5. t \in Nat /\ t2 \in Nat
  BY <1>2, LiveIsBegun, LinesAreNatural
<1>6. s \in Nat /\ s2 \in Nat /\ s2 <= s + x
  <2>1. CASE h \in Clerks
    BY <1>2, <2>1, AddsWhenRowsLeave DEF RequestOf
  <2>2. CASE h \notin Clerks
    <3>1. s = 0 /\ s2 = 0
      BY <2>2, RestingAdds DEF RequestOf
    <3> QED BY <3>1, <1>4
  <2> QED BY <2>1, <2>2
<1>7. g \in Nat
  BY <1>2, PromisedButIsNatural
<1>8. LinesIn(N, lines', e) = 0 /\ 2 ^ crossed \in Nat
  BY <1>2, PowersDouble
<1> HIDE DEF x, g, s, s2, t, t2
<1>9. t2 + s2 + g <= t + s + g
  BY <1>4, <1>5, <1>6, <1>7, <1>8
<1>10. Weight(h, e, status, lines, invoiced, clerk) = t + s + g
  BY DEF Weight, t, s, g
<1>11. Weight(h, e, status', lines', invoiced', clerk') = t2 + s2 + g
  BY DEF Weight, t2, s2, g
<1> DEFINE w == Weight(h, e, status, lines, invoiced, clerk)
           w2 == Weight(h, e, status', lines', invoiced', clerk')
           p == 2 ^ crossed
<1>12. w2 <= p
  <2>1. w = t + s + g /\ w2 = t2 + s2 + g /\ w <= p /\ p \in Nat
    BY <1>1, <1>8, <1>10, <1>11
  <2> HIDE DEF w, w2, p
  <2> QED BY <2>1, <1>5, <1>6, <1>7, <1>9
<1> QED BY <1>12

\* The lines of the sources that were cancelled, x, are gone, and those that c wrote, y, it had
\* promised
Settles(c, e, x, y) ==
    /\ LinesIn(LiveOf(status'), lines', e) + x <= LinesIn(LiveOf(status), lines, e) + y
    /\ \A d \in Clerks : /\ Adds(clerk[d], e, invoiced, status, lines) \in Nat
                         /\ Adds(clerk[d], e, invoiced', status', lines') \in Nat
                         /\ Adds(clerk[d], e, invoiced', status', lines')
                              <= Adds(clerk[d], e, invoiced, status, lines) + x
    /\ y <= Promised(clerk[c], e, invoiced)
    /\ y <= x + Adds(clerk[c], e, invoiced, status, lines)

LEMMA WeighedWhenEnded ==
    ASSUME DraftingInv, DraftsKnow', NEW c \in Clerks, clerk' = [clerk EXCEPT ![c] = E!Vacant],
           invoiced \subseteq invoiced', UNCHANGED crossed,
           \A e \in Expenses : \E x \in Nat, y \in Nat : Settles(c, e, x, y)
    PROVE  Weighed'
<1> SUFFICES ASSUME NEW e \in Expenses
             PROVE  \E h : Weight(h, e, status', lines', invoiced', clerk') <= 2 ^ crossed'
  BY DEF Weighed
<1>1. PICK h : Weight(h, e, status, lines, invoiced, clerk) <= 2 ^ crossed
  BY DEF DraftingInv, Weighed
<1>2. DraftsKnow /\ Rowed(status, lines) /\ Rowed(status', lines') /\ Typed(clerk) /\ Typed(clerk')
      /\ crossed \in Nat
  BY DraftsTyped, DraftsTypedNext DEF DraftingInv
<1>3. LinesIn(LiveOf(status), lines, e) \in Nat /\ LinesIn(LiveOf(status'), lines', e) \in Nat
  BY <1>2, LiveIsBegun, LinesAreNatural
<1>4. PICK x \in Nat, y \in Nat : Settles(c, e, x, y)
  OBVIOUS
<1> DEFINE w == Weight(h, e, status, lines, invoiced, clerk)
           w2 == Weight(h, e, status', lines', invoiced', [clerk EXCEPT ![c] = E!Vacant])
           p == 2 ^ crossed
<1>6. w2 <= w
  BY <1>2, <1>3, <1>4, WeightWhenEnded DEF Settles
<1>7. w \in Nat /\ w2 \in Nat
  BY <1>2, <1>3, <1>4, WeightWhenEnded DEF Settles
<1>8. w <= p /\ p \in Nat
  BY <1>1, <1>2, PowersDouble
<1>9. w2 <= p
  <2> HIDE DEF w, w2, p
  <2> QED BY <1>6, <1>7, <1>8
<1> QED BY <1>9

LEMMA LifeWeighed ==
    ASSUME DraftingInv, DraftsKnow', NEW n \in Drafts, E!Create(n) \/ E!Pay(n)
    PROVE  Weighed'
<1>1. /\ status \in [Drafts -> {"none", "draft", "open", "cancelled", "revived", "deleted"}]
      /\ lines \in [Drafts -> [Expenses -> Nat]] /\ UNCHANGED <<lines, invoiced, clerk, crossed>>
      /\ Marked(lines, status, invoiced) /\ Rowed(status, lines)
  BY DraftsTyped DEF DraftingInv, DraftsKnow, E!TypeOK, E!Create, E!Pay
<1>2. \A e \in Expenses : LinesIn({}, lines', e) = 0
  BY SumOfNone DEF LinesIn
<1>3. CASE E!Create(n)
  <2>1. status[n] = "none" /\ status' = [status EXCEPT ![n] = "draft"]
    BY <1>3 DEF E!Create
  <2>2. /\ {n} \cap Begun(status) = {} /\ {n} \subseteq Begun(status')
        /\ LiveOf(status') = (LiveOf(status) \ {}) \cup {n}
    BY <1>1, <2>1 DEF Begun, LiveOf
  <2>3. ASSUME NEW e \in Expenses PROVE LinesIn({n}, lines', e) = 0
    <3>1. \A i \in {n} : LinesOn(lines, e)[i] = 0
      BY <1>1, <2>1 DEF Marked, LinesOn
    <3>2. IsFiniteSet({n})
      BY FS_Singleton
    <3> QED BY <1>1, <3>1, <3>2, SumOfZeros DEF LinesIn
  <2> QED BY <1>1, <2>2, <2>3, WeighedWhenRowsLeave
<1>4. CASE E!Pay(n)
  <2>1. LiveOf(status') = (LiveOf(status) \ {}) \cup {}
    BY <1>1, <1>4 DEF E!Pay, E!Opened, LiveOf
  <2> QED BY <1>1, <1>2, <2>1, WeighedWhenRowsLeave
<1> QED BY <1>3, <1>4

LEMMA LinesTyped ==
    ASSUME DraftsKnow, DraftsKnow', NEW e \in Expenses
    PROVE  /\ LinesIn(LiveOf(status), lines, e) \in Nat
           /\ LinesIn(LiveOf(status'), lines', e) \in Nat
           /\ \A c \in Clerks : Promised(clerk[c], e, invoiced) \in Nat
<1>1. Rowed(status, lines) /\ Rowed(status', lines')
  BY DraftsTyped, DraftsTypedNext
<1>2. LinesIn(LiveOf(status), lines, e) \in Nat
  BY <1>1, LiveIsBegun, LinesAreNatural
<1>3. LinesIn(LiveOf(status'), lines', e) \in Nat
  BY <1>1, LiveIsBegun, LinesAreNatural
<1>4. \A c \in Clerks : Promised(clerk[c], e, invoiced) \in Nat
  BY DraftsTyped, PromisedIsNatural
<1> QED BY <1>2, <1>3, <1>4

\* A request gives up, or fails, and no row changes
LEMMA DroppedWeighed ==
    ASSUME DraftingInv, DraftsKnow', NEW c \in Clerks, clerk' = [clerk EXCEPT ![c] = E!Vacant],
           UNCHANGED <<status, lines, invoiced, crossed>>
    PROVE  Weighed'
<1>1. DraftsKnow /\ Rowed(status, lines)
      /\ {} \cap Begun(status) = {} /\ LiveOf(status) = (LiveOf(status) \ {}) \cup {}
  BY DraftsTyped DEF DraftingInv
<1>2. ASSUME NEW e \in Expenses PROVE Settles(c, e, 0, 0)
  <2>1. \A d \in Clerks : Adds(clerk[d], e, invoiced, status, lines) \in Nat
    BY <1>1, AddsWhenRowsLeave
  <2>2. /\ LinesIn(LiveOf(status), lines, e) \in Nat
        /\ \A d \in Clerks : Promised(clerk[d], e, invoiced) \in Nat
    BY <1>1, LinesTyped
  <2> QED BY <2>1, <2>2 DEF Settles
<1>3. \A e \in Expenses : \E x \in Nat, y \in Nat : Settles(c, e, x, y)
  BY <1>2
<1> QED BY <1>3, WeighedWhenEnded

LEMMA DeleteWeighed ==
    ASSUME DraftingInv, DraftsKnow', NEW c \in Clerks, E!DeleteWrite(c)
    PROVE  Weighed'
<1>1. CASE UNCHANGED <<status, lines>>
  BY <1>1, DroppedWeighed DEF E!DeleteWrite, E!Ends
<1>2. CASE ~ UNCHANGED <<status, lines>>
  <2> DEFINE n == clerk[c].on
  <2>1. /\ clerk[c].pc = "delete" /\ clerk' = [clerk EXCEPT ![c] = E!Vacant]
        /\ status' = [status EXCEPT ![n] = "deleted"] /\ lines' = [lines EXCEPT ![n] = E!NoLines]
        /\ UNCHANGED <<invoiced, crossed>>
    BY <1>2 DEF E!DeleteWrite, E!Ends
  <2>2. /\ DraftsKnow /\ status \in [Drafts -> {"none", "draft", "open", "cancelled", "revived", "deleted"}]
        /\ lines \in [Drafts -> [Expenses -> Nat]] /\ n \in Drafts
    BY <2>1, DraftsTyped, ClerkFields DEF DraftingInv, DraftsKnow, E!TypeOK
  <2> HIDE DEF n
  <2>3. /\ LiveOf(status') = (LiveOf(status) \ {n}) \cup {} /\ {} \cap Begun(status) = {}
        /\ \A i \in LiveOf(status) \ {n} : lines'[i] = lines[i]
    BY <2>1, <2>2 DEF LiveOf
  <2>4. ASSUME NEW e \in Expenses
        PROVE  \E x \in Nat, y \in Nat : Settles(c, e, x, y)
    <3> DEFINE x == LinesIn({n} \cap LiveOf(status), lines, e)
    <3>1. \A i \in LiveOf(status) \ {n} : lines'[i][e] = lines[i][e]
      BY <2>3
    <3>2. LinesIn({}, lines', e) = 0
      BY SumOfNone DEF LinesIn
    <3>3. /\ LinesIn(LiveOf(status'), lines', e) + x <= LinesIn(LiveOf(status), lines, e) + 0
          /\ x \in Nat
      BY <2>2, <2>3, <3>1, <3>2, LinesWhenRowsLeave
    <3>4. \A d \in Clerks : /\ Adds(clerk[d], e, invoiced, status, lines) \in Nat
                            /\ Adds(clerk[d], e, invoiced', status', lines') \in Nat
                            /\ Adds(clerk[d], e, invoiced', status', lines')
                                 <= Adds(clerk[d], e, invoiced, status, lines) + x
      BY <2>1, <2>2, <2>3, <3>1, AddsWhenRowsLeave
    <3>5. \A d \in Clerks : Promised(clerk[d], e, invoiced) \in Nat
      BY <2>2, LinesTyped
    <3> HIDE DEF x
    <3>6. Settles(c, e, x, 0)
      BY <3>3, <3>4, <3>5 DEF Settles
    <3> QED BY <3>3, <3>6
  <2> QED BY <2>1, <2>4, WeighedWhenEnded
<1> QED BY <1>1, <1>2

\* Those that it cancels are no longer live, and no other is
LEMMA SetWeighed ==
    ASSUME DraftingInv, DraftsKnow', NEW c \in Clerks, E!SetWrite(c)
    PROVE  Weighed'
<1> DEFINE r == clerk[c]
           D == IF r.to = "cancelled" THEN r.over ELSE {}
<1>1. /\ r.pc = "set" /\ status' = SetTo(r) /\ clerk' = [clerk EXCEPT ![c] = E!Vacant]
      /\ UNCHANGED <<lines, invoiced, crossed>>
  BY DEF E!SetWrite, E!Ends, SetTo
<1>2. /\ DraftsKnow /\ r.over \in SUBSET Drafts
      /\ (\A i \in r.over : status[i] # "none") /\ r.to \in {"open", "cancelled"}
      /\ status \in [Drafts -> {"none", "draft", "open", "cancelled", "revived", "deleted"}]
  BY <1>1, DraftsTyped, ClerkFields DEF DraftingInv, DraftsKnow, Knows, E!TypeOK
<1> HIDE DEF r
<1>3. LiveOf(status') = (LiveOf(status) \ D) \cup {} /\ {} \cap Begun(status) = {}
  <2>1. ASSUME NEW i \in Drafts
        PROVE  (status'[i] = "draft" \/ status'[i] = "open")
               <=> (status[i] = "draft" \/ status[i] = "open") /\ i \notin D
    <3>1. CASE i \in r.over /\ r.to = "cancelled"
      BY <1>1, <1>2, <3>1 DEF SetTo
    <3>2. CASE i \in r.over /\ r.to = "open"
      BY <1>1, <1>2, <3>2 DEF SetTo, E!Opened
    <3>3. CASE i \notin r.over
      BY <1>1, <1>2, <3>3 DEF SetTo
    <3> QED BY <1>2, <3>1, <3>2, <3>3
  <2> HIDE DEF D
  <2> QED BY <2>1 DEF LiveOf
<1> HIDE DEF D
<1>4. ASSUME NEW e \in Expenses
      PROVE  \E x \in Nat, y \in Nat : Settles(c, e, x, y)
  <2> DEFINE x == LinesIn(D \cap LiveOf(status), lines, e)
  <2>1. \A i \in LiveOf(status) \ D : lines'[i][e] = lines[i][e]
    BY <1>1
  <2>2. LinesIn({}, lines', e) = 0
    BY SumOfNone DEF LinesIn
  <2>3. /\ LinesIn(LiveOf(status'), lines', e) + x <= LinesIn(LiveOf(status), lines, e) + 0
        /\ x \in Nat
    BY <1>2, <1>3, <2>1, <2>2, LinesWhenRowsLeave
  <2>4. \A d \in Clerks : /\ Adds(clerk[d], e, invoiced, status, lines) \in Nat
                          /\ Adds(clerk[d], e, invoiced', status', lines') \in Nat
                          /\ Adds(clerk[d], e, invoiced', status', lines')
                               <= Adds(clerk[d], e, invoiced, status, lines) + x
    BY <1>1, <1>2, <1>3, <2>1, AddsWhenRowsLeave
  <2>5. \A d \in Clerks : Promised(clerk[d], e, invoiced) \in Nat
    BY <1>2, LinesTyped
  <2> HIDE DEF x
  <2>6. Settles(c, e, x, 0)
    BY <2>3, <2>4, <2>5 DEF Settles
  <2> QED BY <2>3, <2>6
<1> QED BY <1>1, <1>4, WeighedWhenEnded

\* The sources are cancelled and the new draft has what they had when they were read
LEMMA MergeWeighed ==
    ASSUME DraftingInv, DraftsKnow', NEW c \in Clerks, E!MergeWrite(c)
    PROVE  Weighed'
<1>1. CASE UNCHANGED <<status, lines>>
  BY <1>1, DroppedWeighed DEF E!MergeWrite, E!Ends
<1>2. CASE ~ UNCHANGED <<status, lines>>
  <2> DEFINE from == clerk[c].from
             u == clerk[c].union
  <2>1. PICK n \in Drafts :
          /\ status[n] = "none" /\ status' = E!Merged(c, n) /\ lines' = [lines EXCEPT ![n] = u]
    BY <1>2 DEF E!MergeWrite
  <2>2. /\ clerk[c].pc = "merge" /\ clerk' = [clerk EXCEPT ![c] = E!Vacant]
        /\ UNCHANGED <<invoiced, crossed>>
    BY DEF E!MergeWrite, E!Ends
  <2>3. /\ DraftsKnow /\ status \in [Drafts -> {"none", "draft", "open", "cancelled", "revived", "deleted"}]
        /\ lines \in [Drafts -> [Expenses -> Nat]] /\ u \in [Expenses -> Nat]
        /\ from \in SUBSET Begun(status)
    BY <2>2, DraftsTyped, ClerkFields DEF DraftingInv, DraftsKnow, E!TypeOK
  <2>4. status' = [j \in Drafts |-> IF j = n THEN "draft"
                                    ELSE IF j \in from THEN "cancelled" ELSE status[j]]
    BY <2>1 DEF E!Merged
  <2>5. \A e \in Expenses :
          /\ Promised(clerk[c], e, invoiced) = u[e]
          /\ Adds(clerk[c], e, invoiced, status, lines)
               = Above(u[e], LinesIn(from \cap LiveOf(status), lines, e))
    BY <2>2 DEF Promised, Adds
  <2> HIDE DEF from, u
  <2>6. /\ LiveOf(status') = (LiveOf(status) \ from) \cup {n} /\ {n} \cap Begun(status) = {}
        /\ {n} \in SUBSET Begun(status')
        /\ \A i \in LiveOf(status) \ from : lines'[i] = lines[i]
        /\ lines'[n] = u
    BY <2>1, <2>3, <2>4 DEF LiveOf, Begun
  <2>7. ASSUME NEW e \in Expenses
        PROVE  \E x \in Nat, y \in Nat : Settles(c, e, x, y)
    <3> DEFINE x == LinesIn(from \cap LiveOf(status), lines, e)
               y == u[e]
    <3>1. \A i \in LiveOf(status) \ from : lines'[i][e] = lines[i][e]
      BY <2>6
    <3>2. LinesIn({n}, lines', e) = y
      <4>1. IsFiniteSet({n}) /\ {n} \ {n} = {} /\ n \in {n}
        BY FS_Singleton
      <4> DEFINE a == LinesOn(lines', e)
      <4>2. \A i \in {n} : a[i] \in Int
        BY <2>3, <2>6 DEF LinesOn
      <4>3. a[n] = y /\ y \in Int
        BY <2>3, <2>6 DEF LinesOn
      <4> HIDE DEF a
      <4>4. SumOf(a, {n}) = a[n] + SumOf(a, {n} \ {n})
        BY <4>1, <4>2, SumSplits
      <4>5. SumOf(a, {n} \ {n}) = 0
        BY <4>1, SumOfNone
      <4>6. SumOf(a, {n}) = y
        BY <4>3, <4>4, <4>5
      <4> QED BY <4>6 DEF LinesIn, a
    <3>3. /\ LinesIn(LiveOf(status'), lines', e) + x
               <= LinesIn(LiveOf(status), lines, e) + LinesIn({n}, lines', e)
          /\ x \in Nat
      BY <2>3, <2>6, <3>1, LinesWhenRowsLeave
    <3>4. \A d \in Clerks : /\ Adds(clerk[d], e, invoiced, status, lines) \in Nat
                            /\ Adds(clerk[d], e, invoiced', status', lines') \in Nat
                            /\ Adds(clerk[d], e, invoiced', status', lines')
                                 <= Adds(clerk[d], e, invoiced, status, lines) + x
      BY <2>2, <2>3, <2>6, <3>1, AddsWhenRowsLeave
    <3>5. y \in Nat /\ Promised(clerk[c], e, invoiced) = y
          /\ Adds(clerk[c], e, invoiced, status, lines) = Above(y, x)
      BY <2>3, <2>5
    <3> HIDE DEF x, y
    <3>6. y <= x + Above(y, x)
      BY <3>3, <3>5 DEF Above
    <3>7. Settles(c, e, x, y)
      BY <3>2, <3>3, <3>4, <3>5, <3>6 DEF Settles
    <3> QED BY <3>3, <3>5, <3>7
  <2> QED BY <2>2, <2>7, WeighedWhenEnded
<1> QED BY <1>1, <1>2

LEMMA LinesRise ==
    ASSUME NEW st, NEW l, NEW l2, Rowed(st, l), Rowed(st, l2), NEW e \in Expenses,
           NEW n \in Drafts, NEW more \in Nat, l2[n][e] = l[n][e] + more,
           \A i \in Drafts \ {n} : l2[i][e] = l[i][e], NEW Sub \in SUBSET Begun(st)
    PROVE  /\ LinesIn(Sub, l, e) <= LinesIn(Sub, l2, e)
           /\ LinesIn(Sub, l2, e) <= LinesIn(Sub, l, e) + more
<1>1. LinesIn(Sub, l, e) \in Nat /\ LinesIn(Sub, l2, e) \in Nat /\ Sub \subseteq Drafts
  BY LinesAreNatural DEF Begun
<1>2. CASE n \notin Sub
  <2>1. \A i \in Sub : l2[i][e] = l[i][e]
    BY <1>1, <1>2
  <2>2. LinesIn(Sub, l2, e) = LinesIn(Sub, l, e)
    BY <2>1, LinesAlike
  <2> QED BY <1>1, <2>2
<1>3. CASE n \in Sub
  <2> DEFINE a == LinesOn(l, e)
             b == LinesOn(l2, e)
             Rest == Sub \ {n}
  <2>1. /\ IsFiniteSet(Sub) /\ Rest \in SUBSET Begun(st) /\ (\A i \in Sub : a[i] \in Nat /\ b[i] \in Nat)
        /\ a[n] = l[n][e] /\ b[n] = l2[n][e]
    BY <1>3, LinesAreNatural
  <2>2. \A i \in Rest : l2[i][e] = l[i][e]
    BY <1>1
  <2>3. LinesIn(Rest, l2, e) = LinesIn(Rest, l, e)
    BY <2>1, <2>2, LinesAlike
  <2>4. LinesIn(Rest, l, e) \in Nat
    BY <2>1, LinesAreNatural
  <2> HIDE DEF a, b
  <2>5. SumOf(a, Sub) = a[n] + SumOf(a, Sub \ {n})
    BY <1>3, <2>1, SumSplits
  <2>6. SumOf(b, Sub) = b[n] + SumOf(b, Sub \ {n})
    BY <1>3, <2>1, SumSplits
  <2>7. /\ LinesIn(Sub, l, e) = l[n][e] + LinesIn(Rest, l, e)
        /\ LinesIn(Sub, l2, e) = l2[n][e] + LinesIn(Rest, l2, e)
    BY <2>1, <2>5, <2>6 DEF LinesIn, a, b
  <2>8. l[n][e] \in Nat
    BY <1>3, <2>1
  <2> DEFINE p == LinesIn(Sub, l, e)
             q == LinesIn(Sub, l2, e)
             s == LinesIn(Rest, l, e)
             t == l[n][e]
  <2>9. p = t + s /\ q = (t + more) + s /\ s \in Nat /\ t \in Nat
    BY <2>3, <2>4, <2>7, <2>8
  <2>10. p <= q /\ q <= p + more
    <3> HIDE DEF p, q, s, t
    <3> QED BY <2>9
  <2> QED BY <2>10
<1> QED BY <1>2, <1>3

\* One line for each expense found, which had been promised
LEMMA BillWeighed ==
    ASSUME DraftingInv, DraftsKnow', NEW c \in Clerks, E!BillWrite(c)
    PROVE  Weighed'
<1>1. CASE UNCHANGED <<lines, invoiced>>
  BY <1>1, DroppedWeighed DEF E!BillWrite, E!Ends
<1>2. CASE ~ UNCHANGED <<lines, invoiced>>
  <2> DEFINE n == clerk[c].on
             found == clerk[c].found
  <2>1. /\ clerk[c].pc = "bill" /\ clerk' = [clerk EXCEPT ![c] = E!Vacant]
        /\ lines' = [lines EXCEPT ![n] =
                       [e \in Expenses |-> IF e \in found THEN @[e] + 1 ELSE @[e]]]
        /\ invoiced' = invoiced \cup found
        /\ UNCHANGED <<status, crossed>>
    BY <1>2 DEF E!BillWrite, E!Ends
  <2>2. /\ DraftsKnow /\ lines \in [Drafts -> [Expenses -> Nat]] /\ n \in Drafts
        /\ Rowed(status, lines) /\ Rowed(status, lines')
        /\ \A d \in Clerks : clerk[d] \in E!ClerkType
        /\ \A d \in Clerks : clerk[d].pc = "merge" => clerk[d].from \in SUBSET Begun(status)
    BY <2>1, DraftsTyped, DraftsTypedNext, ClerkFields DEF DraftingInv, DraftsKnow, E!TypeOK
  <2>3. ASSUME NEW e \in Expenses
        PROVE  \E x \in Nat, y \in Nat : Settles(c, e, x, y)
    <3> DEFINE y == IF e \in found THEN 1 ELSE 0
    <3>1. y \in Nat /\ Promised(clerk[c], e, invoiced) = y
          /\ Adds(clerk[c], e, invoiced, status, lines) = y
      BY <2>1 DEF Promised, Adds
    <3>2. lines'[n][e] = lines[n][e] + y /\ \A i \in Drafts \ {n} : lines'[i][e] = lines[i][e]
      <4> HIDE DEF n, found
      <4>1. lines[n][e] \in Nat
        BY <2>2
      <4> QED BY <2>1, <2>2, <4>1
    <3> HIDE DEF y, n, found
    <3>3. LinesIn(LiveOf(status), lines', e) <= LinesIn(LiveOf(status), lines, e) + y
      <4>1. LiveOf(status) \in SUBSET Begun(status)
        BY LiveIsBegun
      <4> QED BY <2>2, <3>1, <3>2, <4>1, LinesRise
    <3>4. ASSUME NEW d \in Clerks
          PROVE  /\ Adds(clerk[d], e, invoiced, status, lines) \in Nat
                 /\ Adds(clerk[d], e, invoiced', status', lines') \in Nat
                 /\ Adds(clerk[d], e, invoiced', status', lines')
                      <= Adds(clerk[d], e, invoiced, status, lines) + 0
      <4> DEFINE r == clerk[d]
                 Sub == r.from \cap LiveOf(status)
      <4>1. r \in E!ClerkType /\ invoiced \subseteq invoiced' /\ status' = status
        BY <2>1, <2>2
      <4>2. r.pc = "merge" => Sub \in SUBSET Begun(status)
        BY <2>2
      <4> HIDE DEF r
      <4>3. r.pc = "merge" => LinesIn(Sub, lines, e) \in Nat /\ LinesIn(Sub, lines', e) \in Nat
        BY <2>2, <4>2, LinesAreNatural
      <4>4. r.pc = "merge" => LinesIn(Sub, lines, e) <= LinesIn(Sub, lines', e)
        <5> HIDE DEF Sub
        <5> QED BY <2>2, <3>1, <3>2, <4>2, LinesRise
      <4>5. r.pc = "merge" => LinesIn(Sub, lines, e) <= LinesIn(Sub, lines', e) + 0
        <5> HIDE DEF Sub
        <5> QED BY <4>3, <4>4
      <4>6. /\ Adds(r, e, invoiced, status, lines) \in Nat
            /\ Adds(r, e, invoiced', status', lines') \in Nat
        BY <4>1, <4>3, <4>5, AddsFall
      <4>7. Adds(r, e, invoiced', status', lines') <= Adds(r, e, invoiced, status, lines) + 0
        BY <4>1, <4>3, <4>5, AddsFall
      <4> QED BY <4>6, <4>7 DEF r
    <3>5. LinesIn(LiveOf(status), lines', e) \in Nat /\ LinesIn(LiveOf(status), lines, e) \in Nat
      BY <2>2, LiveIsBegun, LinesAreNatural
    <3>6. Settles(c, e, 0, y)
      <4>1. LinesIn(LiveOf(status'), lines', e) + 0 <= LinesIn(LiveOf(status), lines, e) + y
        BY <2>1, <3>3, <3>5
      <4> QED BY <3>1, <3>4, <4>1 DEF Settles
    <3> QED BY <3>1, <3>6
  <2>4. invoiced \subseteq invoiced' /\ UNCHANGED crossed
    BY <2>1
  <2> QED BY <2>1, <2>3, <2>4, WeighedWhenEnded
<1> QED BY <1>1, <1>2

\* A request reads, and may promise as much as z more than it did
LEMMA WeightWhenRead ==
    ASSUME DraftsKnow, DraftsKnow', NEW e \in Expenses, NEW c \in Clerks, NEW r \in E!ClerkType,
           clerk' = [clerk EXCEPT ![c] = r], UNCHANGED <<status, lines, invoiced>>,
           NEW z \in Nat, Promised(r, e, invoiced) <= Promised(clerk[c], e, invoiced) + z,
           Adds(r, e, invoiced, status, lines) <= Adds(clerk[c], e, invoiced, status, lines) + z,
           Adds(r, e, invoiced, status, lines) \in Nat, NEW h
    PROVE  /\ Weight(h, e, status, lines, invoiced, clerk) \in Nat
           /\ Weight(h, e, status, lines, invoiced, clerk') \in Nat
           /\ Weight(h, e, status, lines, invoiced, clerk')
                <= Weight(h, e, status, lines, invoiced, clerk) + z
<1> DEFINE g == PromisedBut(h, clerk, e, invoiced)
           g2 == PromisedBut(h, clerk', e, invoiced)
           s == Adds(RequestOf(h, clerk), e, invoiced, status, lines)
           s2 == Adds(RequestOf(h, clerk'), e, invoiced, status, lines)
           t == LinesIn(LiveOf(status), lines, e)
<1>1. Typed(clerk) /\ Typed(clerk') /\ Rowed(status, lines)
  BY DraftsTyped, DraftsTypedNext
<1>2. \A d \in Clerks : Adds(clerk[d], e, invoiced, status, lines) \in Nat
  BY AddsAreNatural DEF RequestOf
<1>3. t \in Nat /\ Promised(clerk[c], e, invoiced) \in Nat /\ Promised(r, e, invoiced) \in Nat
  BY LinesTyped, PromisedIsNatural
<1>4. g \in Nat /\ g2 \in Nat
  BY <1>1, PromisedButIsNatural
<1>5. (c = h => g2 <= g)
      /\ (c # h => g2 + Promised(clerk[c], e, invoiced) <= g + Promised(r, e, invoiced))
  BY <1>1, PromisesMove
<1>6. clerk'[c] = r /\ \A d \in Clerks \ {c} : clerk'[d] = clerk[d]
  BY <1>1 DEF Typed
<1>7. s \in Nat /\ s2 \in Nat /\ (c = h => s2 <= s + z) /\ (c # h => s2 = s)
  <2>1. CASE h \in Clerks
    BY <1>2, <1>6, <2>1 DEF RequestOf
  <2>2. CASE h \notin Clerks
    <3>1. s = 0 /\ s2 = 0
      BY <2>2, RestingAdds DEF RequestOf
    <3> QED BY <2>2, <3>1
  <2> QED BY <2>1, <2>2
<1> HIDE DEF g, g2, s, s2, t
<1>8. t + s + g \in Nat /\ t + s2 + g2 \in Nat /\ t + s2 + g2 <= (t + s + g) + z
  <2>1. CASE c = h
    BY <1>3, <1>4, <1>5, <1>7, <2>1
  <2>2. CASE c # h
    BY <1>3, <1>4, <1>5, <1>7, <2>2
  <2> QED BY <2>1, <2>2
<1>9. Weight(h, e, status, lines, invoiced, clerk) = t + s + g
  BY DEF Weight, t, s, g
<1>10. Weight(h, e, status, lines, invoiced, clerk') = t + s2 + g2
  BY DEF Weight, t, s2, g2
<1> QED BY <1>8, <1>9, <1>10

LEMMA FindWeighed ==
    ASSUME DraftingInv, DraftsKnow', NEW c \in Clerks, E!BillFind(c)
    PROVE  Weighed'
<1> DEFINE found == E!Eligible(clerk[c].asked)
           r == IF found = {} THEN E!Vacant
                ELSE [pc |-> "bill", on |-> clerk[c].on, found |-> found]
<1>1. /\ clerk[c].pc = "find" /\ clerk' = [clerk EXCEPT ![c] = r] /\ clerk'[c] = r
      /\ UNCHANGED <<status, lines, invoiced, crossed>>
  <2>1. clerk \in [Clerks -> E!ClerkType]
    BY DEF DraftingInv, DraftsKnow, E!TypeOK
  <2> QED BY <2>1 DEF E!BillFind
<1>2. r \in E!ClerkType /\ DraftsKnow /\ crossed \in Nat
  <2>1. clerk'[c] \in E!ClerkType
    BY DEF DraftsKnow, E!TypeOK
  <2> QED BY <1>1, <2>1, DraftsTyped DEF DraftingInv
<1>3. \A e \in Expenses :
        /\ Promised(r, e, invoiced) = Promised(clerk[c], e, invoiced)
        /\ Adds(r, e, invoiced, status, lines) = Adds(clerk[c], e, invoiced, status, lines)
        /\ Promised(clerk[c], e, invoiced) \in {0, 1}
        /\ Adds(clerk[c], e, invoiced, status, lines) \in {0, 1}
  <2>1. \A e : Promised(clerk[c], e, invoiced) = (IF e \in found THEN 1 ELSE 0)
               /\ Adds(clerk[c], e, invoiced, status, lines) = (IF e \in found THEN 1 ELSE 0)
    BY <1>1 DEF Promised, Adds, E!Eligible
  <2>2. \A e : Promised(r, e, invoiced) = (IF e \in found THEN 1 ELSE 0)
               /\ Adds(r, e, invoiced, status, lines) = (IF e \in found THEN 1 ELSE 0)
    <3> HIDE DEF found
    <3> QED BY DEF Promised, Adds, E!Vacant
  <2> HIDE DEF found, r
  <2> QED BY <2>1, <2>2
<1> HIDE DEF r
<1> SUFFICES ASSUME NEW e \in Expenses
             PROVE  \E h : Weight(h, e, status', lines', invoiced', clerk') <= 2 ^ crossed'
  BY DEF Weighed
<1>4. PICK h : Weight(h, e, status, lines, invoiced, clerk) <= 2 ^ crossed
  BY DEF DraftingInv, Weighed
<1> DEFINE w == Weight(h, e, status, lines, invoiced, clerk)
           w2 == Weight(h, e, status, lines, invoiced, clerk')
           p == 2 ^ crossed
<1>5. /\ Promised(r, e, invoiced) <= Promised(clerk[c], e, invoiced) + 0
      /\ Adds(r, e, invoiced, status, lines) <= Adds(clerk[c], e, invoiced, status, lines) + 0
      /\ Adds(r, e, invoiced, status, lines) \in Nat
  BY <1>3
<1>6. w \in Nat /\ w2 \in Nat
  BY <1>1, <1>2, <1>5, WeightWhenRead
<1>7. w2 <= w + 0
  BY <1>1, <1>2, <1>5, WeightWhenRead
<1>8. w <= p /\ p \in Nat
  BY <1>2, <1>4, PowersDouble
<1>9. w2 <= p
  <2> HIDE DEF w, w2, p
  <2> QED BY <1>6, <1>7, <1>8
<1> QED BY <1>1, <1>9

\* What a request may add when it begins: nothing or a line, or the lines of live drafts
LEMMA ReadingAdds ==
    ASSUME DraftsKnow, NEW r \in Reading, NEW e \in Expenses
    PROVE  /\ Promised(r, e, invoiced) \in Nat /\ Adds(r, e, invoiced, status, lines) \in Nat
           /\ Adds(r, e, invoiced, status, lines) <= Promised(r, e, invoiced)
           /\ \/ Promised(r, e, invoiced) <= 1
              \/ Promised(r, e, invoiced) <= LinesIn(LiveOf(status), lines, e)
           /\ \/ Adds(r, e, invoiced, status, lines) = 0
              \/ /\ Adds(r, e, invoiced, status, lines) = 1
                 /\ LinesIn(LiveOf(status), lines, e) = 0
<1>1. r \in E!ClerkType /\ Rowed(status, lines) /\ Promised(r, e, invoiced) \in Nat
  BY ReadingKnows, DraftsTyped, PromisedIsNatural
<1>2. LiveOf(status) \in SUBSET Begun(status)
  BY LiveIsBegun
<1>3. ASSUME NEW i \in DraftSet, r = [pc |-> "delete", on |-> i]
      PROVE  Promised(r, e, invoiced) = 0 /\ Adds(r, e, invoiced, status, lines) = 0
  BY <1>3 DEF Promised, Adds
<1>4. ASSUME NEW i \in DraftSet, NEW asked \in SUBSET Expenses,
             r = [pc |-> "find", on |-> i, asked |-> asked]
      PROVE  /\ Adds(r, e, invoiced, status, lines) = Promised(r, e, invoiced)
             /\ \/ Promised(r, e, invoiced) = 0
                \/ Promised(r, e, invoiced) = 1 /\ LinesIn(LiveOf(status), lines, e) = 0
  <2>1. /\ Promised(r, e, invoiced) = 0 \/ (Promised(r, e, invoiced) = 1 /\ e \notin invoiced)
        /\ Adds(r, e, invoiced, status, lines) = Promised(r, e, invoiced)
    BY <1>4 DEF Promised, Adds
  <2>2. e \notin invoiced => LinesIn(LiveOf(status), lines, e) = 0
    <3>1. E!LinesFor(e, LiveOf(status)) = LinesIn(LiveOf(status), lines, e)
      BY <1>2, LinesOfBegun DEF LinesIn
    <3>2. E!LinesFor(e, LiveOf(status)) \in Nat
      BY <1>2, LinesOfBegun
    <3>3. E!LinesFor(e, LiveOf(status)) > 0 => e \in invoiced
      BY <1>2, LinesOfBegun
    <3> QED BY <3>1, <3>2, <3>3
  <2> QED BY <2>1, <2>2
<1>5. ASSUME NEW from \in SUBSET DraftSet, r = Joined(from)
      PROVE  /\ Adds(r, e, invoiced, status, lines) = 0
             /\ Promised(r, e, invoiced) <= LinesIn(LiveOf(status), lines, e)
  <2>1. from \in SUBSET LiveOf(status) /\ from \in SUBSET Begun(status)
        /\ from \cap LiveOf(status) = from
    BY DEF DraftSet, LiveOf, Begun
  <2>2. E!LinesFor(e, from) = LinesIn(from, lines, e)
    BY <2>1, LinesOfBegun DEF LinesIn
  <2>3. LinesIn(from, lines, e) <= LinesIn(LiveOf(status), lines, e)
    BY <1>1, <1>2, <2>1, LinesOfPart
  <2>4. LinesIn(from, lines, e) \in Nat
    BY <1>1, <2>1, LinesAreNatural
  <2>5. r.pc = "merge" /\ r.from = from /\ r.union[e] = LinesIn(from, lines, e)
    BY <1>5, <2>2 DEF Joined
  <2>6. Promised(r, e, invoiced) = LinesIn(from, lines, e)
    BY <2>5 DEF Promised
  <2>7. Adds(r, e, invoiced, status, lines)
          = Above(LinesIn(from, lines, e), LinesIn(from, lines, e))
    BY <2>1, <2>5 DEF Adds
  <2>8. Above(LinesIn(from, lines, e), LinesIn(from, lines, e)) = 0
    BY <2>4 DEF Above
  <2> QED BY <2>3, <2>6, <2>7, <2>8
<1>9. ASSUME NEW over \in SUBSET Begun(status), NEW to \in {"open", "cancelled"},
             r = [pc |-> "set", over |-> over, to |-> to]
      PROVE  Promised(r, e, invoiced) = 0 /\ Adds(r, e, invoiced, status, lines) = 0
  BY <1>9 DEF Promised, Adds
<1>6. \/ \E i \in DraftSet : r = [pc |-> "delete", on |-> i]
      \/ \E over \in SUBSET Begun(status), to \in {"open", "cancelled"} :
           r = [pc |-> "set", over |-> over, to |-> to]
      \/ \E i \in DraftSet, asked \in SUBSET Expenses :
           r = [pc |-> "find", on |-> i, asked |-> asked]
      \/ \E from \in SUBSET DraftSet : r = Joined(from)
  BY DEF Reading
<1> DEFINE a == Adds(r, e, invoiced, status, lines)
           q == Promised(r, e, invoiced)
           t == LinesIn(LiveOf(status), lines, e)
<1>7. q \in Nat /\ \/ q = 0 /\ a = 0
                   \/ a = q /\ (q = 0 \/ (q = 1 /\ t = 0))
                   \/ a = 0 /\ q <= t
  BY <1>1, <1>3, <1>4, <1>5, <1>6, <1>9
<1> HIDE DEF a, q, t
<1>8. a \in Nat /\ a <= q /\ (q <= 1 \/ q <= t) /\ (a = 0 \/ (a = 1 /\ t = 0))
  BY <1>7
<1> QED BY <1>7, <1>8 DEF a, q, t

\* The lines are part of the weight
LEMMA LinesAreWeighed ==
    ASSUME DraftingInv, NEW e \in Expenses
    PROVE  LinesIn(LiveOf(status), lines, e) \in Nat /\ 2 ^ crossed \in Nat
           /\ LinesIn(LiveOf(status), lines, e) <= 2 ^ crossed
<1>1. PICK h : Weight(h, e, status, lines, invoiced, clerk) <= 2 ^ crossed
  BY DEF DraftingInv, Weighed
<1>2. DraftsKnow /\ Typed(clerk) /\ Rowed(status, lines) /\ crossed \in Nat
  BY DraftsTyped DEF DraftingInv
<1> DEFINE t == LinesIn(LiveOf(status), lines, e)
           s == Adds(RequestOf(h, clerk), e, invoiced, status, lines)
           g == PromisedBut(h, clerk, e, invoiced)
           p == 2 ^ crossed
<1>3. t \in Nat
  BY <1>2, LiveIsBegun, LinesAreNatural
<1>4. s \in Nat
  BY <1>2, AddsAreNatural
<1>5. g \in Nat /\ p \in Nat /\ t + s + g <= p
  BY <1>1, <1>2, PromisedButIsNatural, PowersDouble DEF Weight
<1>6. t <= p
  <2> HIDE DEF t, s, g, p
  <2> QED BY <1>3, <1>4, <1>5
<1> QED BY <1>3, <1>5, <1>6

\* What any request may write when it begins
LEMMA ReadPromises ==
    ASSUME DraftingInv, NEW r \in Reading \cup Copying, NEW e \in Expenses
    PROVE  /\ Promised(r, e, invoiced) \in Nat /\ Adds(r, e, invoiced, status, lines) \in Nat
           /\ Adds(r, e, invoiced, status, lines) <= Promised(r, e, invoiced)
           /\ Promised(r, e, invoiced) <= 2 ^ crossed
<1>1. DraftsKnow /\ Small /\ crossed \in Nat
  BY DraftsTyped DEF DraftingInv
<1> DEFINE a == Adds(r, e, invoiced, status, lines)
           q == Promised(r, e, invoiced)
           t == LinesIn(LiveOf(status), lines, e)
           p == 2 ^ crossed
<1>2. p \in Nat /\ p > 0 /\ t \in Nat /\ t <= p
  BY <1>1, PowersDouble, LinesAreWeighed
<1>3. CASE r \in Reading
  <2>1. q \in Nat /\ a \in Nat /\ a <= q /\ (q <= 1 \/ q <= t)
    BY <1>1, <1>3, ReadingAdds
  <2> HIDE DEF a, q, t, p
  <2>2. q <= p
    BY <1>2, <2>1
  <2> QED BY <2>1, <2>2 DEF a, q, p
<1>4. ASSUME NEW i \in Begun(status), r = Copied(i)
      PROVE  q \in Nat /\ a \in Nat /\ a <= q /\ q <= p
  <2>1. r.pc = "merge" /\ r.from \cap LiveOf(status) = {} /\ r.union[e] = lines[i][e]
    BY <1>4 DEF Copied
  <2>2. q = lines[i][e] /\ a = Above(lines[i][e], 0)
    BY <2>1, SumOfNone DEF Promised, Adds, LinesIn
  <2> DEFINE n == lines[i][e]
             b == Cardinality(ToBill(clerk, i, e))
  <2>3. n \in Nat /\ b \in Nat
    <3>1. IsFiniteSet(ToBill(clerk, i, e))
      BY <1>1, FS_Subset DEF DraftsKnow, ToBill
    <3> QED BY <1>1, <3>1, FS_CardinalityType DEF DraftsKnow, E!TypeOK, Begun
  <2>4. n + b <= p
    BY <1>1 DEF Small, Begun
  <2> HIDE DEF a, q, p, n, b
  <2>5. n <= p
    BY <1>2, <2>3, <2>4
  <2>6. q = n /\ a = Above(n, 0)
    BY <2>2 DEF n
  <2> QED BY <2>3, <2>5, <2>6 DEF Above
<1> HIDE DEF a, q, p
<1>5. r \in Copying => q \in Nat /\ a \in Nat /\ a <= q /\ q <= p
  BY <1>4 DEF Copying
<1> QED BY <1>3, <1>5 DEF a, q, p

\* A request that begins alone takes the weight on itself; one that is counted may double it
LEMMA ReadWeighed ==
    ASSUME DraftingInv, DraftsKnow', NEW c \in Clerks, NEW r \in Reading \cup Copying,
           (r \in Reading /\ Alone(c, r)) \/ Counted(c, r)
    PROVE  Weighed'
<1>1. /\ DraftsKnow /\ clerk[c] = E!Vacant /\ clerk' = [clerk EXCEPT ![c] = r]
      /\ UNCHANGED <<status, lines, invoiced>> /\ r \in E!ClerkType /\ crossed \in Nat
      /\ Typed(clerk) /\ Typed(clerk')
  BY DraftsTyped, DraftsTypedNext, ReadingKnows DEF DraftingInv, Begins, Alone, Counted
<1> SUFFICES ASSUME NEW e \in Expenses
             PROVE  \E h : Weight(h, e, status', lines', invoiced', clerk') <= 2 ^ crossed'
  BY DEF Weighed
<1>2. PICK h : Weight(h, e, status, lines, invoiced, clerk) <= 2 ^ crossed
  BY DEF DraftingInv, Weighed
<1> DEFINE a == Adds(r, e, invoiced, status, lines)
           q == Promised(r, e, invoiced)
           t == LinesIn(LiveOf(status), lines, e)
           w == Weight(h, e, status, lines, invoiced, clerk)
           w2 == Weight(h, e, status, lines, invoiced, clerk')
           p == 2 ^ crossed
<1>3. q \in Nat /\ a \in Nat /\ a <= q /\ q <= p
  BY <1>1, ReadPromises
<1>4. p \in Nat /\ p > 0 /\ 2 ^ (crossed + 1) = 2 * p /\ w <= p
  BY <1>1, <1>2, PowersDouble
<1>5. q <= Promised(clerk[c], e, invoiced) + q
      /\ a <= Adds(clerk[c], e, invoiced, status, lines) + q
  <2>1. Promised(clerk[c], e, invoiced) = 0 /\ Adds(clerk[c], e, invoiced, status, lines) = 0
    BY <1>1, RestingAdds
  <2> HIDE DEF a, q
  <2> QED BY <1>3, <2>1
<1>6. w \in Nat /\ w2 \in Nat /\ w2 <= w + q
  <2> HIDE DEF w, w2
  <2>1. w \in Nat
    BY <1>1, <1>3, <1>5, WeightWhenRead DEF w
  <2>2. w2 \in Nat
    BY <1>1, <1>3, <1>5, WeightWhenRead DEF w2
  <2>3. w2 <= w + q
    BY <1>1, <1>3, <1>5, WeightWhenRead DEF w, w2
  <2> QED BY <2>1, <2>2, <2>3
<1>7. t \in Nat /\ t <= p
  BY LinesAreWeighed
<1>8. CASE Counted(c, r)
  <2>1. crossed' = crossed + 1
    BY <1>8 DEF Counted
  <2>2. w2 <= 2 * p
    <3> HIDE DEF a, q, t, w, w2, p
    <3> QED BY <1>3, <1>4, <1>6
  <2>3. w2 <= 2 ^ crossed'
    <3> HIDE DEF w2, p
    <3> QED BY <1>4, <2>1, <2>2
  <2> QED BY <1>1, <2>3
<1>9. CASE r \in Reading /\ Alone(c, r)
  <2>1. crossed' = crossed /\ AtWork(clerk) = {}
    BY <1>9 DEF Alone
  <2>2. AtWork(clerk') \ {c} = {}
    BY <1>1, <2>1 DEF AtWork, Typed
  <2>3. PromisedBut(c, clerk', e, invoiced) = 0
    BY <2>2, SumOfNone DEF PromisedBut
  <2>4. RequestOf(c, clerk') = r
    BY <1>1 DEF RequestOf, Typed
  <2>5. Weight(c, e, status, lines, invoiced, clerk') = t + a + 0
    BY <2>3, <2>4 DEF Weight
  <2>6. a = 0 \/ (a = 1 /\ t = 0)
    BY <1>1, <1>9, ReadingAdds
  <2>7. t + a + 0 <= p
    <3> HIDE DEF a, q, t, w, w2, p
    <3> QED BY <1>3, <1>4, <1>7, <2>6
  <2> QED BY <1>1, <2>1, <2>5, <2>7
<1> QED BY <1>8, <1>9

--------------------------------------------------------------------------------
(* How small an invoice stays *)

\* A set of requests that loses some
LEMMA FewerAtWork ==
    ASSUME DraftsKnow, NEW s, NEW s2, s \subseteq AtWork(clerk), s2 \subseteq s
    PROVE  Cardinality(s) \in Nat /\ Cardinality(s2) \in Nat /\ Cardinality(s2) <= Cardinality(s)
<1>1. IsFiniteSet(s)
  BY FS_Subset DEF DraftsKnow
<1>2. IsFiniteSet(s2) /\ Cardinality(s2) <= Cardinality(s)
  BY <1>1, FS_Subset
<1> QED BY <1>1, <1>2, FS_CardinalityType

LEMMA BillersAtWork ==
    \A k, i, e : ToBill(k, i, e) \subseteq AtWork(k)
BY DEF ToBill

\* Requests end and no invoice has more lines
LEMMA SmallWhenEnded ==
    ASSUME DraftsKnow, DraftsKnow', Small, UNCHANGED crossed,
           \A c \in Clerks : clerk'[c] = clerk[c] \/ clerk'[c] = E!Vacant,
           \A i \in Drafts, e \in Expenses : lines'[i][e] <= lines[i][e]
    PROVE  Small'
<1>1. crossed \in Nat /\ 2 ^ crossed \in Nat
  BY DraftsTyped, PowersDouble
<1> DEFINE p == 2 ^ crossed
<1>2. AtWork(clerk') \subseteq AtWork(clerk)
  BY DEF AtWork
<1>3. ASSUME NEW i \in Drafts, NEW e \in Expenses
      PROVE  lines'[i][e] + Cardinality(ToBill(clerk', i, e)) <= p
  <2>1. ToBill(clerk', i, e) \subseteq ToBill(clerk, i, e)
    BY <1>2 DEF ToBill, AtWork
  <2> DEFINE n == lines[i][e]
             n2 == lines'[i][e]
             b == Cardinality(ToBill(clerk, i, e))
             b2 == Cardinality(ToBill(clerk', i, e))
  <2>2. b \in Nat /\ b2 \in Nat /\ b2 <= b
    BY <2>1, BillersAtWork, FewerAtWork
  <2>3. n \in Nat /\ n2 \in Nat /\ n2 <= n /\ n + b <= p
    BY DEF DraftsKnow, E!TypeOK, Small
  <2> HIDE DEF n, n2, b, b2, p
  <2>4. n2 + b2 <= p
    BY <1>1, <2>2, <2>3 DEF p
  <2> QED BY <2>4 DEF n2, b2
<1>4. Cardinality(AtWork(clerk')) <= p
  <2> DEFINE b == Cardinality(AtWork(clerk))
             b2 == Cardinality(AtWork(clerk'))
  <2>1. b \in Nat /\ b2 \in Nat /\ b2 <= b /\ b <= p /\ p \in Nat
    BY <1>1, <1>2, FewerAtWork DEF Small
  <2> HIDE DEF b, b2, p
  <2>2. b2 <= p
    BY <2>1
  <2> QED BY <2>2 DEF b2
<1>5. ASSUME NEW c \in Clerks, NEW e \in Expenses, clerk'[c].pc = "merge"
      PROVE  clerk'[c].union[e] <= p
  <2>1. clerk'[c] = clerk[c]
    BY <1>5 DEF E!Vacant
  <2> QED BY <1>5, <2>1 DEF Small
<1> QED BY <1>3, <1>4, <1>5 DEF Small

\* An expense that is found has no line yet
LEMMA FindSmall ==
    ASSUME DraftsKnow, DraftsKnow', Small, NEW c \in Clerks, E!BillFind(c)
    PROVE  Small'
<1> DEFINE found == E!Eligible(clerk[c].asked)
           p == 2 ^ crossed
<1>1. /\ clerk \in [Clerks -> E!ClerkType] /\ clerk[c].pc = "find"
      /\ clerk' = [clerk EXCEPT ![c] = IF found = {} THEN E!Vacant
                                       ELSE [pc |-> "bill", on |-> clerk[c].on, found |-> found]]
      /\ UNCHANGED <<status, lines, invoiced, crossed>>
  BY DEF DraftsKnow, E!TypeOK, E!BillFind
<1>2. /\ clerk'[c] = E!Vacant \/ (clerk'[c].pc = "bill" /\ clerk'[c].found = found)
      /\ \A d \in Clerks \ {c} : clerk'[d] = clerk[d]
      /\ found \cap invoiced = {}
  BY <1>1 DEF E!Eligible
<1>3. crossed \in Nat /\ p \in Nat
  BY DraftsTyped, PowersDouble
<1>4. AtWork(clerk') \subseteq AtWork(clerk)
  BY <1>1, <1>2, ClerkFields DEF AtWork
<1> HIDE DEF found
<1>5. Cardinality(AtWork(clerk')) <= p
  <2> DEFINE b == Cardinality(AtWork(clerk))
             b2 == Cardinality(AtWork(clerk'))
  <2>1. b \in Nat /\ b2 \in Nat /\ b2 <= b /\ b <= p
    BY <1>4, FewerAtWork DEF Small
  <2> HIDE DEF b, b2, p
  <2>2. b2 <= p
    BY <1>3, <2>1
  <2> QED BY <2>2 DEF b2
<1>6. ASSUME NEW i \in Drafts, NEW e \in Expenses
      PROVE  lines'[i][e] + Cardinality(ToBill(clerk', i, e)) <= p
  <2> DEFINE n == lines[i][e]
             b == Cardinality(ToBill(clerk, i, e))
             b2 == Cardinality(ToBill(clerk', i, e))
             m == Cardinality(AtWork(clerk))
  <2>1. n \in Nat /\ n + b <= p /\ m <= p /\ lines' = lines
    BY <1>1 DEF DraftsKnow, E!TypeOK, Small
  <2>2. b \in Nat /\ m \in Nat
    BY BillersAtWork, FewerAtWork
  <2>3. CASE e \in found
    <3>1. n = 0
      BY <1>2, <2>1, <2>3 DEF DraftsKnow, Marked
    <3>2. ToBill(clerk', i, e) \subseteq AtWork(clerk)
      BY <1>4, BillersAtWork
    <3>3. b2 \in Nat /\ b2 <= m
      BY <3>2, FewerAtWork
    <3> HIDE DEF n, b, b2, m, p
    <3>4. n + b2 <= p
      BY <1>3, <2>1, <2>2, <3>1, <3>3
    <3> QED BY <2>1, <3>4 DEF n, b2
  <2>4. CASE e \notin found
    <3>1. ToBill(clerk', i, e) \subseteq ToBill(clerk, i, e)
      <4>1. ASSUME NEW d \in ToBill(clerk', i, e) PROVE d \in ToBill(clerk, i, e)
        <5>1. d \in Clerks /\ d \in AtWork(clerk) /\ clerk'[d].pc = "bill" /\ e \in clerk'[d].found
          BY <1>4 DEF ToBill, AtWork
        <5>2. d # c
          BY <1>2, <2>4, <5>1 DEF E!Vacant
        <5> QED BY <1>2, <5>1, <5>2 DEF ToBill
      <4> QED BY <4>1
    <3>2. b2 \in Nat /\ b2 <= b
      BY <3>1, BillersAtWork, FewerAtWork
    <3> HIDE DEF n, b, b2, m, p
    <3>3. n + b2 <= p
      BY <1>3, <2>1, <2>2, <3>2
    <3> QED BY <2>1, <3>3 DEF n, b2
  <2> QED BY <2>3, <2>4
<1>7. ASSUME NEW d \in Clerks, NEW e \in Expenses, clerk'[d].pc = "merge"
      PROVE  clerk'[d].union[e] <= p
  <2>1. clerk'[d] = clerk[d]
    BY <1>2, <1>7 DEF E!Vacant
  <2> QED BY <1>7, <2>1 DEF Small
<1> QED BY <1>1, <1>5, <1>6, <1>7 DEF Small

\* The line it writes had been pending
LEMMA BillSmall ==
    ASSUME DraftsKnow, DraftsKnow', Small, NEW c \in Clerks, E!BillWrite(c)
    PROVE  Small'
<1> DEFINE p == 2 ^ crossed
<1>1. /\ clerk \in [Clerks -> E!ClerkType] /\ clerk[c].pc = "bill"
      /\ clerk' = [clerk EXCEPT ![c] = E!Vacant] /\ UNCHANGED crossed
  BY DEF DraftsKnow, E!TypeOK, E!BillWrite, E!Ends
<1>2. clerk'[c] = E!Vacant /\ \A d \in Clerks \ {c} : clerk'[d] = clerk[d]
  BY <1>1
<1>3. crossed \in Nat /\ p \in Nat
  BY DraftsTyped, PowersDouble
<1>4. AtWork(clerk') = AtWork(clerk) \ {c} /\ c \in AtWork(clerk)
  BY <1>1, <1>2, ClerkFields DEF AtWork
<1>5. Cardinality(AtWork(clerk')) <= p
  <2> DEFINE b == Cardinality(AtWork(clerk))
             b2 == Cardinality(AtWork(clerk'))
  <2>1. b \in Nat /\ b2 \in Nat /\ b2 <= b /\ b <= p
    BY <1>4, FewerAtWork DEF Small
  <2> HIDE DEF b, b2, p
  <2>2. b2 <= p
    BY <1>3, <2>1
  <2> QED BY <2>2 DEF b2
<1>6. ASSUME NEW i \in Drafts, NEW e \in Expenses
      PROVE  lines'[i][e] + Cardinality(ToBill(clerk', i, e)) <= p
  <2> DEFINE n == lines[i][e]
             n2 == lines'[i][e]
             b == Cardinality(ToBill(clerk, i, e))
             b2 == Cardinality(ToBill(clerk', i, e))
  <2>1. n \in Nat /\ n + b <= p /\ n2 \in Nat
    BY DEF DraftsKnow, E!TypeOK, Small
  <2>2. ToBill(clerk', i, e) = ToBill(clerk, i, e) \ {c}
    BY <1>2, <1>4 DEF ToBill, AtWork
  <2>3. b \in Nat /\ b2 \in Nat /\ b2 <= b
    BY <2>2, BillersAtWork, FewerAtWork
  <2>4. n2 = n \/ (n2 = n + 1 /\ c \in ToBill(clerk, i, e))
    <3>1. CASE lines' = lines
      BY <3>1
    <3>2. CASE lines' # lines
      <4> DEFINE on == clerk[c].on
                 f == clerk[c].found
      <4>1. lines' = [lines EXCEPT ![on] = [x \in Expenses |-> IF x \in f THEN @[x] + 1 ELSE @[x]]]
        BY <3>2 DEF E!BillWrite
      <4>2. c \in ToBill(clerk, i, e) <=> on = i /\ e \in f
        BY <1>1, <1>4 DEF ToBill
      <4>3. lines \in [Drafts -> [Expenses -> Nat]]
        BY DEF DraftsKnow, E!TypeOK
      <4> HIDE DEF on, f, ToBill
      <4> QED BY <4>1, <4>2, <4>3
    <3> QED BY <3>1, <3>2
  <2>5. c \in ToBill(clerk, i, e) => b2 = b - 1
    <3>1. IsFiniteSet(ToBill(clerk, i, e))
      BY BillersAtWork, FS_Subset DEF DraftsKnow
    <3> QED BY <2>2, <3>1, FS_RemoveElement
  <2> HIDE DEF n, n2, b, b2, p
  <2>6. n2 + b2 <= p
    BY <1>3, <2>1, <2>3, <2>4, <2>5
  <2> QED BY <2>6 DEF n2, b2
<1>7. ASSUME NEW d \in Clerks, NEW e \in Expenses, clerk'[d].pc = "merge"
      PROVE  clerk'[d].union[e] <= p
  <2>1. clerk'[d] = clerk[d]
    BY <1>2, <1>7 DEF E!Vacant
  <2> QED BY <1>7, <2>1 DEF Small
<1> QED BY <1>1, <1>5, <1>6, <1>7 DEF Small

\* No request knows the new draft
LEMMA MergeSmall ==
    ASSUME DraftsKnow, DraftsKnow', Small, NEW c \in Clerks, E!MergeWrite(c)
    PROVE  Small'
<1> DEFINE p == 2 ^ crossed
<1>1. /\ clerk \in [Clerks -> E!ClerkType] /\ clerk[c].pc = "merge"
      /\ clerk' = [clerk EXCEPT ![c] = E!Vacant] /\ UNCHANGED crossed
      /\ lines \in [Drafts -> [Expenses -> Nat]]
  BY DEF DraftsKnow, E!TypeOK, E!MergeWrite, E!Ends
<1>2. clerk'[c] = E!Vacant /\ \A d \in Clerks \ {c} : clerk'[d] = clerk[d]
  BY <1>1
<1>3. CASE lines' = lines
  <2>1. \A i \in Drafts, e \in Expenses : lines'[i][e] <= lines[i][e]
    BY <1>1, <1>3
  <2>2. \A d \in Clerks : clerk'[d] = clerk[d] \/ clerk'[d] = E!Vacant
    BY <1>2
  <2> QED BY <1>1, <2>1, <2>2, SmallWhenEnded
<1>4. CASE lines' # lines
  <2> DEFINE u == clerk[c].union
  <2>1. PICK n \in Drafts : status[n] = "none" /\ lines' = [lines EXCEPT ![n] = u]
    BY <1>4 DEF E!MergeWrite
  <2>2. u \in [Expenses -> Nat] /\ \A e \in Expenses : u[e] <= p
    BY <1>1, ClerkFields DEF Small
  <2>3. crossed \in Nat /\ p \in Nat
    BY DraftsTyped, PowersDouble
  <2>4. AtWork(clerk') \subseteq AtWork(clerk)
    BY <1>2 DEF AtWork
  <2> HIDE DEF u
  <2>5. Cardinality(AtWork(clerk')) <= p
    <3> DEFINE b == Cardinality(AtWork(clerk))
               b2 == Cardinality(AtWork(clerk'))
    <3>1. b \in Nat /\ b2 \in Nat /\ b2 <= b /\ b <= p
      BY <2>4, FewerAtWork DEF Small
    <3> HIDE DEF b, b2, p
    <3>2. b2 <= p
      BY <2>3, <3>1
    <3> QED BY <3>2 DEF b2
  <2>6. ASSUME NEW i \in Drafts, NEW e \in Expenses
        PROVE  lines'[i][e] + Cardinality(ToBill(clerk', i, e)) <= p
    <3> DEFINE k == lines[i][e]
               k2 == lines'[i][e]
               b == Cardinality(ToBill(clerk, i, e))
               b2 == Cardinality(ToBill(clerk', i, e))
    <3>1. k \in Nat /\ k + b <= p /\ k2 \in Nat
      BY DEF DraftsKnow, E!TypeOK, Small
    <3>2. ToBill(clerk', i, e) \subseteq ToBill(clerk, i, e)
      <4>1. ASSUME NEW d \in ToBill(clerk', i, e) PROVE d \in ToBill(clerk, i, e)
        <5>1. d \in Clerks /\ d \in AtWork(clerk) /\ clerk'[d].pc = "bill"
          BY <2>4 DEF ToBill, AtWork
        <5>2. d # c
          BY <1>2, <5>1 DEF E!Vacant
        <5> QED BY <1>2, <5>1, <5>2 DEF ToBill
      <4> QED BY <4>1
    <3>3. b \in Nat /\ b2 \in Nat /\ b2 <= b
      BY <3>2, BillersAtWork, FewerAtWork
    <3>4. CASE i = n
      <4>1. ToBill(clerk', i, e) = {}
        <5>1. ToBill(clerk, i, e) = {}
          BY <2>1, <3>4 DEF ToBill, AtWork, DraftsKnow, Knows
        <5> QED BY <3>2, <5>1
      <4>2. b2 = 0
        BY <4>1, FS_EmptySet
      <4>3. k2 = u[e]
        BY <1>1, <2>1, <2>2, <3>4
      <4>4. u[e] \in Nat /\ u[e] <= p
        BY <2>2
      <4> HIDE DEF k2, b2, p
      <4>5. k2 + b2 <= p
        BY <2>3, <4>2, <4>3, <4>4
      <4> QED BY <4>5 DEF k2, b2
    <3>5. CASE i # n
      <4>1. k2 = k
        BY <1>1, <2>1, <3>5
      <4> HIDE DEF k, k2, b, b2, p
      <4>2. k2 + b2 <= p
        BY <2>3, <3>1, <3>3, <4>1
      <4> QED BY <4>2 DEF k2, b2
    <3> QED BY <3>4, <3>5
  <2>7. ASSUME NEW d \in Clerks, NEW e \in Expenses, clerk'[d].pc = "merge"
        PROVE  clerk'[d].union[e] <= p
    <3>1. clerk'[d] = clerk[d]
      BY <1>2, <2>7 DEF E!Vacant
    <3> QED BY <2>7, <3>1 DEF Small
  <2> QED BY <1>1, <2>5, <2>6, <2>7 DEF Small
<1> QED BY <1>3, <1>4

\* A request more at work is alone or counted
LEMMA ReadSmall ==
    ASSUME DraftingInv, DraftsKnow', NEW c \in Clerks, NEW r \in Reading \cup Copying,
           (r \in Reading /\ Alone(c, r)) \/ Counted(c, r)
    PROVE  Small'
<1> DEFINE p == 2 ^ crossed
           p2 == 2 ^ crossed'
<1>1. /\ DraftsKnow /\ Small /\ clerk[c] = E!Vacant /\ clerk' = [clerk EXCEPT ![c] = r]
      /\ UNCHANGED <<status, lines, invoiced>> /\ crossed \in Nat
      /\ clerk \in [Clerks -> E!ClerkType] /\ r \in E!ClerkType
  BY DraftsTyped, ReadingKnows DEF DraftingInv, Begins, Alone, Counted, DraftsKnow, E!TypeOK
<1>2. clerk'[c] = r /\ \A d \in Clerks \ {c} : clerk'[d] = clerk[d]
  BY <1>1
<1>3. r.pc # "bill"
  BY DEF Reading, Copying, Joined, Copied
<1>4. p \in Nat /\ p > 0 /\ p2 \in Nat /\ p <= p2
  <2>1. p \in Nat /\ p > 0 /\ 2 ^ (crossed + 1) = 2 * p
    BY <1>1, PowersDouble
  <2>2. p2 = p \/ p2 = 2 * p
    BY <2>1 DEF Alone, Counted
  <2> HIDE DEF p, p2
  <2> QED BY <2>1, <2>2
<1>5. Cardinality(AtWork(clerk')) <= p2
  <2>1. AtWork(clerk') \subseteq AtWork(clerk) \cup {c} /\ c \notin AtWork(clerk)
    BY <1>1, <1>2 DEF AtWork
  <2> DEFINE b == Cardinality(AtWork(clerk))
             b2 == Cardinality(AtWork(clerk'))
             m == Cardinality(AtWork(clerk) \cup {c})
  <2>2. IsFiniteSet(AtWork(clerk) \cup {c}) /\ m = b + 1 /\ b \in Nat /\ b <= p
    BY <1>1, <2>1, FS_AddElement, FS_CardinalityType DEF DraftsKnow, Small
  <2>3. b2 \in Nat /\ b2 <= m
    BY <2>1, <2>2, FS_Subset, FS_CardinalityType
  <2>4. b = 0 \/ p2 = 2 * p
    <3>1. 2 ^ (crossed + 1) = 2 * p
      BY <1>1, PowersDouble
    <3>2. AtWork(clerk) = {} => b = 0
      BY FS_EmptySet
    <3> HIDE DEF b, p
    <3> QED BY <3>1, <3>2 DEF Alone, Counted
  <2> HIDE DEF b, b2, m, p, p2
  <2>5. b2 <= p2
    BY <1>4, <2>2, <2>3, <2>4
  <2> QED BY <2>5 DEF b2
<1>6. ASSUME NEW i \in Drafts, NEW e \in Expenses
      PROVE  lines'[i][e] + Cardinality(ToBill(clerk', i, e)) <= p2
  <2>1. ToBill(clerk', i, e) \subseteq ToBill(clerk, i, e)
    BY <1>2, <1>3 DEF ToBill, AtWork
  <2> DEFINE n == lines[i][e]
             b == Cardinality(ToBill(clerk, i, e))
             b2 == Cardinality(ToBill(clerk', i, e))
  <2>2. b \in Nat /\ b2 \in Nat /\ b2 <= b
    BY <1>1, <2>1, BillersAtWork, FewerAtWork
  <2>3. n \in Nat /\ n + b <= p
    BY <1>1 DEF DraftsKnow, E!TypeOK, Small
  <2> HIDE DEF n, b, b2, p, p2
  <2>4. n + b2 <= p2
    BY <1>4, <2>2, <2>3
  <2> QED BY <1>1, <2>4 DEF n, b2
<1>7. ASSUME NEW d \in Clerks, NEW e \in Expenses, clerk'[d].pc = "merge"
      PROVE  clerk'[d].union[e] <= p2
  <2> DEFINE u == clerk'[d].union[e]
  <2>1. u \in Nat /\ u <= p
    <3>1. clerk'[d] \in E!ClerkType
      BY DEF DraftsKnow, E!TypeOK
    <3>2. u \in Nat
      BY <1>7, <3>1, ClerkFields
    <3>3. CASE d # c
      BY <1>1, <1>2, <1>7, <3>2, <3>3 DEF Small
    <3>4. CASE d = c
      <4>1. Promised(r, e, invoiced) <= p
        BY ReadPromises
      <4>2. Promised(r, e, invoiced) = u
        BY <1>2, <1>7, <3>4 DEF Promised
      <4> QED BY <3>2, <4>1, <4>2
    <3> QED BY <3>3, <3>4
  <2> HIDE DEF u, p, p2
  <2>2. u <= p2
    BY <1>4, <2>1
  <2> QED BY <2>2 DEF u
<1> QED BY <1>5, <1>6, <1>7 DEF Small

LEMMA DraftingInit == E!Init => DraftingInv
<1> SUFFICES ASSUME E!Init PROVE DraftingInv
  OBVIOUS
<1>1. /\ Begun(status) = {} /\ AtWork(clerk) = {} /\ crossed = 0 /\ invoiced = {}
      /\ \A c \in Clerks : clerk[c] = E!Vacant
      /\ \A i \in Drafts, e \in Expenses : lines[i][e] = 0
  BY DEF E!Init, Begun, AtWork, E!NoLines
<1>2. E!TypeOK
  <2>1. MaxOverlaps \in Nat
    BY ServicesBounds
  <2>2. E!Vacant \in E!ClerkType /\ E!NoLines \in [Expenses -> Nat]
    BY DEF E!ClerkType, E!NoLines
  <2> QED BY <2>1, <2>2 DEF E!Init, E!TypeOK
<1>3. DraftsKnow
  <2>1. Marked(lines, status, invoiced)
    <3>1. \A i \in Drafts, e \in Expenses : ~ (lines[i][e] > 0)
      BY <1>1
    <3> QED BY <3>1 DEF Marked
  <2>2. \A c \in Clerks : Knows(clerk[c], status, invoiced)
    BY <1>1, VacantKnows
  <2>3. IsFiniteSet(Begun(status)) /\ IsFiniteSet(AtWork(clerk))
    BY <1>1, FS_EmptySet
  <2> HIDE DEF Marked, Knows, Begun, AtWork
  <2> QED BY <1>2, <2>1, <2>2, <2>3 DEF DraftsKnow
<1>4. ASSUME NEW e \in Expenses
      PROVE  \E h : Weight(h, e, status, lines, invoiced, clerk) <= 2 ^ crossed
  <2>1. LiveOf(status) = {}
    BY <1>1, LiveIsBegun
  <2>2. LinesIn(LiveOf(status), lines, e) = 0
    BY <2>1, SumOfNone DEF LinesIn
  <2> DEFINE h == "nobody"
  <2>3. AtWork(clerk) \ {h} = {}
    BY <1>1
  <2>4. PromisedBut(h, clerk, e, invoiced) = 0
    BY <2>3, SumOfNone DEF PromisedBut
  <2>5. RequestOf(h, clerk) = E!Vacant
    BY <1>1 DEF RequestOf
  <2> HIDE DEF h
  <2>6. Weight(h, e, status, lines, invoiced, clerk) = 0 + 0 + 0
    BY <2>2, <2>4, <2>5, RestingAdds DEF Weight
  <2>7. 0 + 0 + 0 <= 2 ^ 0 /\ 0 \in Nat
    BY PowersDouble
  <2>8. Weight(h, e, status, lines, invoiced, clerk) <= 2 ^ crossed
    BY <1>1, <2>6, <2>7
  <2> QED BY <2>8
<1>5. Small
  <2>1. 2 ^ 0 \in Nat /\ 2 ^ 0 > 0
    BY PowersDouble
  <2>2. \A i, e : ToBill(clerk, i, e) = {}
    BY <1>1 DEF ToBill
  <2>3. Cardinality({}) = 0
    BY FS_EmptySet
  <2>4. \A c \in Clerks : clerk[c].pc # "merge"
    BY <1>1 DEF E!Vacant
  <2> HIDE DEF ToBill, AtWork
  <2> QED BY <1>1, <2>1, <2>2, <2>3, <2>4 DEF Small
<1> QED BY <1>3, <1>4, <1>5 DEF DraftingInv, Weighed

LEMMA DraftingStep == DraftingInv /\ [E!Next]_draftingRows => DraftingInv'
<1> SUFFICES ASSUME DraftingInv, [E!Next]_draftingRows PROVE DraftingInv'
  OBVIOUS
<1>1. DraftsKnow /\ Small
  BY DEF DraftingInv
\* No invoice has more lines and no request is at work that was not
<1>2. ASSUME DraftsKnow', UNCHANGED crossed,
             \A c \in Clerks : clerk'[c] = clerk[c] \/ clerk'[c] = E!Vacant,
             lines' = lines \/ \E n \in Drafts : lines' = [lines EXCEPT ![n] = E!NoLines]
      PROVE  Small'
  <2>1. lines \in [Drafts -> [Expenses -> Nat]] /\ E!NoLines = [e \in Expenses |-> 0]
    BY <1>1 DEF DraftsKnow, E!TypeOK, E!NoLines
  <2>2. \A i \in Drafts, e \in Expenses : lines'[i][e] <= lines[i][e]
    BY <1>2, <2>1
  <2> QED BY <1>1, <1>2, <2>2, SmallWhenEnded
<1>3. ASSUME NEW i \in Drafts, E!Create(i) \/ E!Pay(i) PROVE DraftingInv'
  <2>1. DraftsKnow'
    BY <1>1, <1>3, LifeKnows
  <2>2. Small'
    BY <1>2, <1>3, <2>1 DEF E!Create, E!Pay
  <2> QED BY <1>3, <2>1, <2>2, LifeWeighed DEF DraftingInv
<1>4. ASSUME NEW c \in Clerks, Reads(c) PROVE DraftingInv'
  <2>1. DraftsKnow'
    BY <1>1, <1>4, ReadsKnow
  <2>2. PICK r \in Reading \cup Copying : (r \in Reading /\ Alone(c, r)) \/ Counted(c, r)
    BY <1>4, ReadsBegin
  <2> QED BY <2>1, <2>2, ReadWeighed, ReadSmall DEF DraftingInv
<1>5. ASSUME NEW c \in Clerks, E!BillFind(c) PROVE DraftingInv'
  <2>1. DraftsKnow'
    BY <1>1, <1>5, FindKnows
  <2> QED BY <1>1, <1>5, <2>1, FindWeighed, FindSmall DEF DraftingInv
<1>6. ASSUME NEW c \in Clerks,
             E!SetWrite(c) \/ E!DeleteWrite(c) \/ E!BillWrite(c) \/ E!MergeWrite(c) \/ E!Fails(c)
      PROVE  DraftingInv'
  <2>1. DraftsKnow' /\ clerk \in [Clerks -> E!ClerkType]
    BY <1>1, <1>6, WritesKnow DEF DraftsKnow, E!TypeOK
  <2>2. clerk' = [clerk EXCEPT ![c] = E!Vacant] /\ UNCHANGED crossed
    BY <1>6 DEF E!SetWrite, E!DeleteWrite, E!BillWrite, E!MergeWrite, E!Fails, E!Ends
  <2>3. \A d \in Clerks : clerk'[d] = clerk[d] \/ clerk'[d] = E!Vacant
    BY <2>1, <2>2
  <2>4. CASE E!SetWrite(c)
    <3>1. lines' = lines
      BY <2>4 DEF E!SetWrite
    <3>2. Small'
      BY <1>2, <2>1, <2>2, <2>3, <3>1
    <3> QED BY <2>1, <2>4, <3>2, SetWeighed DEF DraftingInv
  <2>5. CASE E!DeleteWrite(c)
    <3>1. lines' = lines \/ \E n \in Drafts : lines' = [lines EXCEPT ![n] = E!NoLines]
      <4>1. clerk[c].on \in Drafts
        BY <2>1, <2>5, ClerkFields DEF E!DeleteWrite
      <4> QED BY <2>5, <4>1 DEF E!DeleteWrite
    <3>2. Small'
      BY <1>2, <2>1, <2>2, <2>3, <3>1
    <3> QED BY <2>1, <2>5, <3>2, DeleteWeighed DEF DraftingInv
  <2>6. CASE E!BillWrite(c)
    BY <1>1, <2>1, <2>6, BillWeighed, BillSmall DEF DraftingInv
  <2>7. CASE E!MergeWrite(c)
    BY <1>1, <2>1, <2>7, MergeWeighed, MergeSmall DEF DraftingInv
  <2>8. CASE E!Fails(c)
    <3>1. UNCHANGED <<status, lines, invoiced, crossed>>
      BY <2>8 DEF E!Fails
    <3>2. Small'
      BY <1>2, <2>1, <2>2, <2>3, <3>1
    <3> QED BY <2>1, <2>2, <3>1, <3>2, DroppedWeighed DEF DraftingInv
  <2> QED BY <1>6, <2>4, <2>5, <2>6, <2>7, <2>8
<1>7. CASE UNCHANGED draftingRows
  BY <1>7 DEF draftingRows, DraftingInv, DraftsKnow, E!TypeOK, Weighed, Small
<1> QED BY <1>3, <1>4, <1>5, <1>6, <1>7 DEF E!Next, Reads

LEMMA DraftingInvariant == ServicesSpec => []DraftingInv
<1>1. ServicesInit => DraftingInv
  BY DraftingInit DEF ServicesInit
<1>2. DraftingInv /\ [ServicesNext]_vars => DraftingInv'
  BY DraftingMoves, DraftingStep
<1> QED BY <1>1, <1>2, PTL DEF ServicesSpec

\* A client pays for an expense once (billExpenses, merge, duplicate and the statuses in
\* invoices.service.ts): however many requests bill it, merge its draft, delete, send or
\* cancel it, the live invoices hold no more lines for it than one, doubled by each request
\* that began beside another and by each copy, and as many again for each cancelled invoice
\* that was paid or opened after all.
THEOREM ExpensesBilledOnce == ServicesSpec => []ExpenseBilledOnce
<1>1. ASSUME DraftingInv PROVE ExpenseBilledOnce
  <2>1. DraftsKnow /\ Small /\ crossed \in Nat /\ Rowed(status, lines)
    BY <1>1, DraftsTyped DEF DraftingInv
  <2> DEFINE Rev == E!Revived
             p == 2 ^ crossed
  <2>2. /\ E!Live = LiveOf(status) \cup Rev /\ LiveOf(status) \cap Rev = {}
        /\ Rev \in SUBSET Begun(status) /\ LiveOf(status) \cup Rev \in SUBSET Begun(status)
        /\ LiveOf(status) \in SUBSET (LiveOf(status) \cup Rev)
        /\ (LiveOf(status) \cup Rev) \ LiveOf(status) = Rev /\ Rev \subseteq Drafts
    BY DEF E!Live, E!Revived, LiveOf, Begun
  <2> HIDE DEF Rev
  <2>3. p \in Nat
    BY <2>1, PowersDouble
  <2>4. ASSUME NEW e \in Expenses
        PROVE  E!LinesFor(e, E!Live) <= (1 + Cardinality(Rev)) * p
    <3> DEFINE n == Cardinality(Rev)
               t == LinesIn(LiveOf(status), lines, e)
               x == LinesIn(Rev, lines, e)
               a == LinesOn(lines, e)
    <3>1. t \in Nat /\ t <= p
      BY <1>1, LinesAreWeighed
    <3>2. IsFiniteSet(Rev) /\ x \in Nat /\ \A i \in Rev : a[i] = lines[i][e] /\ a[i] \in Nat
      BY <2>1, <2>2, LinesAreNatural
    <3>3. \A i \in Rev : a[i] \in Int /\ a[i] <= p
      <4>1. ASSUME NEW i \in Rev PROVE lines[i][e] <= p
        <5> DEFINE b == Cardinality(ToBill(clerk, i, e))
                   k == lines[i][e]
        <5>1. k \in Nat /\ b \in Nat
          BY <2>1, <3>2, BillersAtWork, FewerAtWork
        <5>2. k + b <= p
          BY <2>1, <2>2 DEF Small
        <5> HIDE DEF b, k, p
        <5>3. k <= p
          BY <2>3, <5>1, <5>2
        <5> QED BY <5>3 DEF k
      <4> QED BY <3>2, <4>1
    <3>4. x <= n * p
      <4> HIDE DEF a, p, n
      <4>1. SumOf(a, Rev) <= Cardinality(Rev) * p
        BY <2>3, <3>2, <3>3, SumAtMostEach
      <4> QED BY <4>1 DEF LinesIn, n, a
    <3>5. LinesIn(LiveOf(status) \cup Rev, lines, e) = t + x
      BY <2>1, <2>2, LinesOfPart
    <3>6. E!LinesFor(e, E!Live) = LinesIn(LiveOf(status) \cup Rev, lines, e)
      BY <2>1, <2>2, LinesOfBegun DEF LinesIn
    <3>7. n \in Nat
      BY <3>2, FS_CardinalityType
    <3> HIDE DEF n, t, x, p
    <3>8. (1 + n) * p = p + n * p /\ n * p \in Nat
      BY <2>3, <3>7
    <3>9. t + x <= (1 + n) * p
      <4> DEFINE z == n * p
      <4>1. z \in Nat /\ x <= z /\ (1 + n) * p = p + z
        BY <3>4, <3>8
      <4> HIDE DEF z
      <4>2. t + x <= p + z
        BY <2>3, <3>1, <3>2, <4>1 DEF x
      <4> QED BY <4>1, <4>2
    <3> QED BY <3>5, <3>6, <3>9 DEF n
  <2>5. E!Cardinality(Rev) = Cardinality(Rev)
    BY Zenon DEF E!Cardinality, Cardinality
  <2> QED BY <2>4, <2>5 DEF ExpenseBilledOnce, E!ExpenseBilledOnce, Rev
<1> QED BY <1>1, DraftingInvariant, PTL

================================================================================
