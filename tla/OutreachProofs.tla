----------------------------- MODULE OutreachProofs -----------------------------
(***************************************************************************)
(* Proofs about Campaigns and DripSequence as MCServices composes them,    *)
(* and about Dunning, for any callers, passes, addresses, recipients and   *)
(* steps: what goes out goes out once, and a campaign does not get stuck.  *)
(***************************************************************************)
EXTENDS MCServices, TLAPS

\* Whatever part a behaviour is of, the rows of a service move as its own steps move them
LEMMA CampaignMoves == [ServicesNext]_vars => [C!Next]_campaignRows
BY DEF ServicesNext, vars, CampaignSteps, DunningSteps, SequenceSteps, OutreachRests

LEMMA SequenceMoves == [ServicesNext]_vars => [S!Next]_sequenceRows
BY DEF ServicesNext, vars, CampaignSteps, DunningSteps, SequenceSteps, OutreachRests

--------------------------------------------------------------------------------
(* Campaigns *)

Running == loop.pc = "run"

\* The loop may still mail e: it is in the current batch, or its row is pending, or there
\* is none yet, and the loop has not queued it
MayMail(e) ==
    \/ Running /\ e \in loop.todo
    \/ /\ campaign # "deleted" /\ recipients[e] \in {"none", "pending"}
       /\ ~(Running /\ e \in loop.queued)

\* One job, one loop; it holds an address once, and its row is there until the campaign
\* is deleted
LoopApart ==
    /\ sendJob = "active" <=> Running \/ loop = C!Over
    /\ loop \in {C!Idle, C!Over} \/ Running
    /\ Running =>
         /\ loop.todo \cap loop.queued = {}
         /\ \A e \in loop.todo \cup loop.queued :
              recipients[e] = "none" => campaign = "deleted"

\* Who may still be mailed has had an email for each upset at most, and so one to spare
MailsCounted ==
    \A e \in Emails : outbox[e] <= 1 + upsets /\ (MayMail(e) => outbox[e] <= upsets)

CampaignInv == C!TypeOK /\ LoopApart /\ MailsCounted /\ C!StuckOnlyBySpentJob

LEMMA CampaignInit == C!Init => CampaignInv
<1> SUFFICES ASSUME C!Init PROVE CampaignInv
  OBVIOUS
<1> USE DEF C!Init
<1>1. C!TypeOK
  <2>1. MaxUpsets \in Nat
    BY ServicesBounds
  <2>2. caller \in [Callers -> C!CallType]
    BY DEF C!CallType
  <2>3. outbox \in [Emails -> Nat] /\ upsets \in 0..MaxUpsets
    BY <2>1
  <2> QED BY <2>2, <2>3 DEF C!TypeOK
<1>2. LoopApart /\ MailsCounted
  BY DEF LoopApart, MailsCounted, MayMail, Running, C!Idle, C!Over
<1>3. C!StuckOnlyBySpentJob
  BY DEF C!StuckOnlyBySpentJob, C!SendingIsDriven
<1> QED BY <1>1, <1>2, <1>3 DEF CampaignInv

LoopType == [pc : {"run"}, todo : SUBSET Emails, queued : SUBSET Emails, ok : BOOLEAN,
             bad : BOOLEAN]

\* What a call holds, by where it stands
LEMMA CallerFields ==
    ASSUME NEW k \in C!CallType
    PROVE  /\ k.pc \in {"claim", "add", "resolve", "release", "suppress", "insert"} =>
                k.was \in C!Editable
           /\ k.pc \in {"suppress", "insert"} => k.to \in SUBSET Emails
           /\ k.pc = "idle" <=> k = C!Idle
BY DEF C!CallType, C!Idle

LEMMA CallerTypes ==
    ASSUME C!TypeOK, NEW c \in Callers, C!Call(c)
    PROVE  caller' \in [Callers -> C!CallType]
<1>1. caller \in [Callers -> C!CallType] /\ caller[c] \in C!CallType
  BY DEF C!TypeOK
<1> SUFFICES \E k \in C!CallType : caller' = [caller EXCEPT ![c] = k]
  BY <1>1
<1>2. C!Idle \in C!CallType
  BY DEF C!CallType
<1>3. CASE \/ C!UpdateWrite(c) \/ C!RemoveWrite(c) \/ C!SendAdd(c) \/ C!SendRelease(c)
           \/ C!CallDies(c)
  BY <1>2, <1>3 DEF C!UpdateWrite, C!RemoveWrite, C!SendAdd, C!SendRelease, C!CallDies, C!Hold
<1>4. CASE C!UpdateRead(c) \/ C!RemoveRead(c)
  <2>1. [pc |-> "update"] \in C!CallType /\ [pc |-> "remove"] \in C!CallType
    BY DEF C!CallType
  <2> QED BY <1>4, <2>1 DEF C!UpdateRead, C!RemoveRead, C!Hold
<1>5. CASE C!SendRead(c)
  <2>1. [pc |-> "claim", was |-> campaign] \in C!CallType
    BY <1>5 DEF C!CallType, C!SendRead, C!Sendable
  <2> QED BY <1>5, <2>1 DEF C!SendRead, C!Hold
<1>6. CASE C!SendClaim(c)
  <2>1. [caller[c] EXCEPT !.pc = "resolve"] \in C!CallType
    BY <1>1, <1>6 DEF C!SendClaim, C!CallType, C!Idle
  <2> QED BY <1>2, <1>6, <2>1 DEF C!SendClaim, C!Hold
<1>7. ASSUME NEW was \in C!Editable, NEW to \in SUBSET Emails
      PROVE  /\ [pc |-> "release", was |-> was] \in C!CallType
             /\ [pc |-> "add", was |-> was] \in C!CallType
             /\ [pc |-> "suppress", was |-> was, to |-> to] \in C!CallType
             /\ [pc |-> "insert", was |-> was, to |-> to] \in C!CallType
  BY DEF C!CallType
<1>8. CASE C!SendResolve(c)
  BY <1>1, <1>7, <1>8, CallerFields DEF C!SendResolve, C!With, C!Hold
<1>9. CASE C!SendSuppress(c)
  BY <1>1, <1>7, <1>9, CallerFields DEF C!SendSuppress, C!With, C!Hold
<1>10. CASE C!SendInsert(c) \/ C!SendFails(c)
  BY <1>1, <1>7, <1>10, CallerFields DEF C!SendInsert, C!SendFails, C!Sending, C!Hold
<1> QED BY <1>3, <1>4, <1>5, <1>6, <1>8, <1>9, <1>10 DEF C!Call

\* What the loop holds after a step on e
LEMMA LoopMoves ==
    ASSUME C!TypeOK, NEW e \in Emails, C!RunMail(e) \/ C!RunMark(e) \/ C!RunFails(e)
    PROVE  /\ loop \in LoopType /\ loop' \in LoopType
           /\ C!RunMail(e) => /\ loop'.todo = loop.todo \ {e}
                              /\ loop'.queued = loop.queued \cup {e}
           /\ C!RunMark(e) => /\ loop'.todo = loop.todo
                              /\ loop'.queued = loop.queued \ {e}
           /\ C!RunFails(e) => /\ loop'.todo = loop.todo \ {e}
                               /\ loop'.queued = loop.queued \ {e}
<1>1. loop \in LoopType
  BY DEF C!TypeOK, C!RunMail, C!RunMark, C!RunFails, C!Idle, C!Over, LoopType
<1>2. ASSUME C!RunMail(e)
      PROVE  /\ loop' \in LoopType /\ loop'.todo = loop.todo \ {e}
             /\ loop'.queued = loop.queued \cup {e}
  <2>1. loop' = [loop EXCEPT !.todo = loop.todo \ {e}, !.queued = loop.queued \cup {e}]
    BY <1>2 DEF C!RunMail, C!Unbatched
  <2> QED BY <1>1, <2>1 DEF LoopType
<1>3. ASSUME C!RunMark(e)
      PROVE  /\ loop' \in LoopType /\ loop'.todo = loop.todo
             /\ loop'.queued = loop.queued \ {e}
  <2>1. \/ loop' = [loop EXCEPT !.queued = loop.queued \ {e}, !.bad = TRUE]
        \/ loop' = [loop EXCEPT !.queued = loop.queued \ {e}, !.ok = TRUE]
    BY <1>3 DEF C!RunMark
  <2> QED BY <1>1, <2>1 DEF LoopType
<1>4. ASSUME C!RunFails(e)
      PROVE  /\ loop' \in LoopType /\ loop'.todo = loop.todo \ {e}
             /\ loop'.queued = loop.queued \ {e}
  <2>1. loop' = [loop EXCEPT !.todo = loop.todo \ {e}, !.queued = loop.queued \ {e},
                             !.bad = TRUE]
    BY <1>4 DEF C!RunFails
  <2> QED BY <1>1, <2>1 DEF LoopType
<1> QED BY <1>1, <1>2, <1>3, <1>4

LEMMA CampaignType == C!TypeOK /\ C!Next => C!TypeOK'
<1> SUFFICES ASSUME C!TypeOK, C!Next PROVE C!TypeOK'
  OBVIOUS
<1>0. MaxUpsets \in Nat
  BY ServicesBounds
<1>1. CASE C!Create \/ C!Evict
  BY <1>1 DEF C!TypeOK, C!Create, C!Evict, C!Editable
<1>2. CASE C!RunRead
  <2>1. C!Unsent \in SUBSET Emails
    BY DEF C!Unsent
  <2>2. [pc |-> "run", todo |-> C!Unsent, queued |-> {}, ok |-> FALSE, bad |-> FALSE]
          \in LoopType
    BY <2>1 DEF LoopType
  <2> QED BY <1>2, <2>2 DEF C!TypeOK, C!RunRead, LoopType
<1>3. CASE C!RunFinish
  BY <1>3 DEF C!TypeOK, C!RunFinish, C!Editable
<1>4. CASE C!RunThrows \/ C!RunDies \/ C!JobCompletes
  BY <1>0, <1>4 DEF C!TypeOK, C!RunThrows, C!RunDies, C!JobCompletes, C!Upset
<1>5. ASSUME NEW e \in Emails, C!Unsubscribe(e) PROVE C!TypeOK'
  BY <1>5 DEF C!TypeOK, C!Unsubscribe
<1>6. ASSUME NEW e \in Emails, C!RunMail(e) \/ C!RunMark(e) \/ C!RunFails(e)
      PROVE  C!TypeOK'
  <2>1. loop' \in LoopType
    BY <1>6, LoopMoves
  <2>2. /\ upsets' \in 0 .. MaxUpsets
        /\ recipients' \in [Emails -> {"none", "pending", "sent", "failed"}]
        /\ outbox' \in [Emails -> Nat]
    BY <1>0, <1>6 DEF C!TypeOK, C!RunMail, C!RunMark, C!RunFails, C!Row, C!Upset
  <2> QED BY <1>6, <2>1, <2>2 DEF C!TypeOK, C!RunMail, C!RunMark, C!RunFails, LoopType
<1>7. ASSUME NEW c \in Callers, C!Call(c) PROVE C!TypeOK'
  <2>1. caller' \in [Callers -> C!CallType]
    BY <1>7, CallerTypes
  <2>2. CASE C!SendFails(c) \/ C!CallDies(c)
    <3>1. upsets' \in 0 .. MaxUpsets
      BY <1>0, <2>2 DEF C!TypeOK, C!SendFails, C!CallDies, C!Upset
    <3>2. sendJob' \in {"none", "waiting", "active", "kept"} /\ swallowed' \in BOOLEAN
      BY <2>2 DEF C!TypeOK, C!SendFails, C!CallDies, C!Add
    <3> QED BY <2>1, <2>2, <3>1, <3>2 DEF C!TypeOK, C!SendFails, C!CallDies
  <2>3. CASE C!SendRelease(c)
    <3>1. caller[c] \in C!CallType
      BY DEF C!TypeOK
    <3> QED BY <2>1, <2>3, <3>1, CallerFields DEF C!TypeOK, C!SendRelease, C!Released, C!Editable
  <2>4. CASE C!UpdateRead(c) \/ C!UpdateWrite(c) \/ C!RemoveRead(c) \/ C!RemoveWrite(c)
    BY <2>1, <2>4 DEF C!TypeOK, C!UpdateRead, C!UpdateWrite, C!RemoveRead, C!RemoveWrite,
       C!Editable
  <2>5. CASE C!SendRead(c) \/ C!SendClaim(c) \/ C!SendResolve(c) \/ C!SendSuppress(c)
    BY <2>1, <2>5 DEF C!TypeOK, C!SendRead, C!SendClaim, C!SendResolve, C!SendSuppress
  <2>6. CASE C!SendInsert(c) \/ C!SendAdd(c)
    BY <2>1, <2>6 DEF C!TypeOK, C!SendInsert, C!SendAdd, C!Add
  <2> QED BY <1>7, <2>2, <2>3, <2>4, <2>5, <2>6 DEF C!Call
<1> QED BY <1>1, <1>2, <1>3, <1>4, <1>5, <1>6, <1>7 DEF C!Next

\* What a call of the API may do to what the loop works on
LEMMA CallerMoves ==
    ASSUME C!TypeOK, NEW c \in Callers, C!Call(c)
    PROVE  /\ UNCHANGED <<loop, outbox>>
           /\ campaign = "deleted" => campaign' = "deleted"
           /\ upsets' \in {upsets, upsets + 1}
           /\ sendJob' = sendJob \/ (sendJob = "none" /\ sendJob' = "waiting")
           /\ \A e \in Emails :
                recipients'[e] # recipients[e] /\ campaign' # "deleted" =>
                    recipients[e] = "none" /\ recipients'[e] = "pending"
<1>1. UNCHANGED <<loop, outbox>> /\ (campaign = "deleted" => campaign' = "deleted")
  BY DEF C!Call, C!UpdateRead, C!UpdateWrite, C!RemoveRead, C!RemoveWrite, C!SendRead, C!SendClaim,
         C!SendResolve, C!SendSuppress, C!SendInsert, C!SendAdd, C!SendFails, C!SendRelease,
         C!CallDies, C!Claimable, C!Editable, C!Released
<1>2. upsets' \in {upsets, upsets + 1}
  BY DEF C!Call, C!UpdateRead, C!UpdateWrite, C!RemoveRead, C!RemoveWrite, C!SendRead, C!SendClaim,
         C!SendResolve, C!SendSuppress, C!SendInsert, C!SendAdd, C!SendFails, C!SendRelease,
         C!CallDies, C!Upset
<1>3. sendJob' = sendJob \/ (sendJob = "none" /\ sendJob' = "waiting")
  BY DEF C!Call, C!UpdateRead, C!UpdateWrite, C!RemoveRead, C!RemoveWrite, C!SendRead, C!SendClaim,
         C!SendResolve, C!SendSuppress, C!SendInsert, C!SendAdd, C!SendFails, C!SendRelease,
         C!CallDies, C!Add
<1>4. \A e \in Emails :
        recipients'[e] # recipients[e] /\ campaign' # "deleted" =>
            recipients[e] = "none" /\ recipients'[e] = "pending"
  BY DEF C!Call, C!UpdateRead, C!UpdateWrite, C!RemoveRead, C!RemoveWrite, C!SendRead, C!SendClaim,
         C!SendResolve, C!SendSuppress, C!SendInsert, C!SendAdd, C!SendFails, C!SendRelease,
         C!CallDies, C!TypeOK
<1> QED BY <1>1, <1>2, <1>3, <1>4

\* One job and one loop, which holds an address once
LEMMA CampaignLoop == CampaignInv /\ C!Next => LoopApart'
<1> SUFFICES ASSUME CampaignInv, C!Next PROVE LoopApart'
  OBVIOUS
<1> USE DEF LoopApart, Running
<1>0. C!TypeOK /\ LoopApart /\ Idle.pc # "run"
  BY DEF CampaignInv, Idle
<1>1. CASE C!Create
  BY <1>0, <1>1 DEF C!Create
<1>2. CASE C!RunRead
  BY <1>0, <1>2 DEF C!RunRead, C!Unsent, C!Idle, C!Over, C!TypeOK
<1>3. CASE C!RunFinish \/ C!RunThrows \/ C!JobCompletes \/ C!RunDies \/ C!Evict
  BY <1>0, <1>3 DEF C!RunFinish, C!RunThrows, C!JobCompletes, C!RunDies, C!Evict, C!Idle, C!Over
<1>4. ASSUME NEW e \in Emails, C!Unsubscribe(e) PROVE LoopApart'
  BY <1>0, <1>4 DEF C!Unsubscribe
<1>5. ASSUME NEW e \in Emails, C!RunMail(e) \/ C!RunMark(e) \/ C!RunFails(e)
      PROVE  LoopApart'
  <2>1. /\ loop.pc = "run" /\ loop'.pc = "run"
        /\ loop'.todo \cup loop'.queued \subseteq loop.todo \cup loop.queued
        /\ loop.todo \cap loop.queued = {} => loop'.todo \cap loop'.queued = {}
    <3>1. loop \in LoopType /\ loop' \in LoopType
      BY <1>5, LoopMoves, CampaignType DEF CampaignInv
    <3>2. loop.pc = "run" /\ loop'.pc = "run"
      BY <3>1 DEF LoopType
    <3>3. /\ C!RunMail(e) => /\ loop'.todo = loop.todo \ {e}
                             /\ loop'.queued = loop.queued \cup {e}
                             /\ e \in loop.todo
          /\ C!RunMark(e) => loop'.todo = loop.todo /\ loop'.queued = loop.queued \ {e}
          /\ C!RunFails(e) => loop'.todo = loop.todo \ {e} /\ loop'.queued = loop.queued \ {e}
      BY <1>5, LoopMoves DEF CampaignInv, C!RunMail
    <3> QED BY <1>5, <3>2, <3>3
  <2>2. \A x \in Emails : recipients'[x] = "none" => recipients[x] = "none"
    BY <1>0, <1>5 DEF C!RunMail, C!RunMark, C!RunFails, C!Row, C!TypeOK
  <2>3. UNCHANGED <<campaign, sendJob>> /\ loop.todo \cup loop.queued \subseteq Emails
    BY <1>0, <1>5, LoopMoves DEF C!RunMail, C!RunMark, C!RunFails, LoopType
  <2> QED BY <1>0, <2>1, <2>2, <2>3
<1>6. ASSUME NEW c \in Callers, C!Call(c) PROVE LoopApart'
  <2>1. Running => loop.todo \cup loop.queued \subseteq Emails
    BY <1>0 DEF C!TypeOK, C!Idle, C!Over
  <2> QED BY <1>0, <1>6, <2>1, CallerMoves
<1> QED BY <1>1, <1>2, <1>3, <1>4, <1>5, <1>6 DEF C!Next

--------------------------------------------------------------------------------
\* Nobody may be mailed anew but by an upset, and an email is queued for those who may
LEMMA CampaignMails == CampaignInv /\ C!Next => MailsCounted'
<1> SUFFICES ASSUME CampaignInv, C!Next PROVE MailsCounted'
  OBVIOUS
<1>0. C!TypeOK /\ LoopApart /\ MailsCounted /\ C!TypeOK'
  BY CampaignType DEF CampaignInv
<1>1. ASSUME UNCHANGED outbox, upsets' \in {upsets, upsets + 1},
             upsets' = upsets => \A e \in Emails : MayMail(e)' => MayMail(e)
      PROVE  MailsCounted'
  BY <1>0, <1>1 DEF MailsCounted, C!TypeOK
<1>2. CASE C!Create \/ C!RunFinish \/ C!JobCompletes \/ C!Evict
  <2>1. UNCHANGED <<outbox, upsets, recipients>>
    BY <1>2 DEF C!Create, C!RunFinish, C!JobCompletes, C!Evict
  <2>2. \A e \in Emails : MayMail(e)' => MayMail(e)
    BY <1>2, <2>1 DEF C!Create, C!RunFinish, C!JobCompletes, C!Evict, MayMail, Running,
       C!Idle, C!Over
  <2> QED BY <1>1, <2>1, <2>2
<1>3. CASE C!RunRead
  <2>1. \A e \in Emails : MayMail(e)' => MayMail(e)
    <3>1. ~Running /\ UNCHANGED <<campaign, recipients>>
      BY <1>0, <1>3 DEF C!RunRead, LoopApart
    <3>2. Running' => loop'.todo = C!Unsent /\ loop'.queued = {} /\ campaign # "deleted"
      BY <1>3 DEF C!RunRead, Running, C!Over
    <3> HIDE DEF Running
    <3> QED BY <3>1, <3>2 DEF MayMail, C!Unsent
  <2> QED BY <1>1, <1>3, <2>1 DEF C!RunRead
<1>4. CASE C!RunThrows \/ C!RunDies
  BY <1>0, <1>1, <1>4 DEF C!RunThrows, C!RunDies, C!Upset, C!TypeOK
<1>5. ASSUME NEW e \in Emails, C!Unsubscribe(e) PROVE MailsCounted'
  BY <1>1, <1>5 DEF C!Unsubscribe, MayMail, Running
<1>6. ASSUME NEW e \in Emails, C!RunMail(e) PROVE MailsCounted'
  <2>1. /\ outbox' = [outbox EXCEPT ![e] = @ + 1] /\ UNCHANGED <<campaign, recipients, upsets>>
        /\ Running /\ e \in loop.todo /\ loop.todo \cap loop.queued = {}
    BY <1>0, <1>6 DEF C!RunMail, LoopApart, Running
  <2>2. /\ loop'.pc = "run" /\ loop'.todo = loop.todo \ {e}
        /\ loop'.queued = loop.queued \cup {e}
    BY <1>0, <1>6, LoopMoves DEF LoopType
  <2>3. \A x \in Emails : MayMail(x)' => MayMail(x) /\ x # e
    BY <2>1, <2>2 DEF MayMail, Running
  <2>4. MayMail(e)
    BY <2>1 DEF MayMail
  <2> QED BY <1>0, <2>1, <2>3, <2>4 DEF MailsCounted, C!TypeOK
<1>7. ASSUME NEW e \in Emails, C!RunMark(e) PROVE MailsCounted'
  <2>1. /\ UNCHANGED <<campaign, outbox, upsets>> /\ Running /\ e \in loop.queued
        /\ loop'.pc = "run" /\ loop'.todo = loop.todo /\ loop'.queued = loop.queued \ {e}
    BY <1>0, <1>7, LoopMoves DEF C!RunMark, Running, LoopType
  <2>2. recipients[e] = "none" => campaign = "deleted"
    BY <1>0, <2>1 DEF LoopApart
  <2>3. \A x \in Emails : recipients'[x] = IF x = e /\ recipients[e] # "none" THEN "sent"
                                          ELSE recipients[x]
    BY <1>0, <1>7 DEF C!RunMark, C!Row, C!TypeOK
  <2>4. \A x \in Emails : MayMail(x)' => MayMail(x)
    BY <2>1, <2>2, <2>3 DEF MayMail, Running
  <2> QED BY <1>1, <2>1, <2>4
<1>8. ASSUME NEW e \in Emails, C!RunFails(e) PROVE MailsCounted'
  BY <1>0, <1>1, <1>8 DEF C!RunFails, C!Upset, C!TypeOK
<1>9. ASSUME NEW c \in Callers, C!Call(c) PROVE MailsCounted'
  <2>1. \A e \in Emails : MayMail(e)' => MayMail(e)
    BY <1>0, <1>9, CallerMoves DEF MayMail, Running
  <2> QED BY <1>0, <1>1, <1>9, <2>1, CallerMoves
<1> QED BY <1>2, <1>3, <1>4, <1>5, <1>6, <1>7, <1>8, <1>9 DEF C!Next

\* A campaign comes into sending by a call that drives it, and loses its driver by the
\* next step of that call or of the job, by an upset, or to a spent job that swallows it
LEMMA CampaignDriven == CampaignInv /\ C!Next => C!StuckOnlyBySpentJob'
<1> SUFFICES ASSUME CampaignInv, C!Next, campaign' = "sending", upsets' = 0, ~swallowed'
             PROVE  C!Driven'
  BY CampaignType DEF C!StuckOnlyBySpentJob, C!SendingIsDriven, CampaignInv, C!TypeOK
<1> USE DEF C!Driven, C!Sending
<1>0. /\ C!TypeOK /\ LoopApart /\ upsets \in Nat
      /\ campaign = "sending" /\ upsets = 0 /\ ~swallowed => C!Driven
  BY DEF CampaignInv, C!StuckOnlyBySpentJob, C!SendingIsDriven, C!TypeOK
<1>1. CASE C!Create \/ C!RunFinish
  BY <1>1 DEF C!Create, C!RunFinish
<1>2. CASE C!RunRead \/ C!JobCompletes \/ C!Evict
  <2>1. CASE C!RunRead
    BY <2>1 DEF C!RunRead, C!Over
  <2>2. CASE C!JobCompletes
    <3>1. UNCHANGED <<campaign, caller, upsets, swallowed>> /\ loop.pc = "over"
      BY <2>2 DEF C!JobCompletes
    <3>2. sendJob = "active"
      BY <1>0, <3>1 DEF LoopApart, Running, C!Idle
    <3> QED BY <1>0, <3>1, <3>2
  <2>3. CASE C!Evict
    BY <1>0, <2>3 DEF C!Evict
  <2> QED BY <1>2, <2>1, <2>2, <2>3
<1>3. CASE C!RunThrows \/ C!RunDies
  BY <1>0, <1>3 DEF C!RunThrows, C!RunDies, C!Upset
<1>4. ASSUME NEW e \in Emails,
             C!Unsubscribe(e) \/ C!RunMail(e) \/ C!RunMark(e) \/ C!RunFails(e)
      PROVE  C!Driven'
  <2>1. CASE C!Unsubscribe(e)
    BY <1>0, <2>1 DEF C!Unsubscribe
  <2>2. CASE C!RunMail(e) \/ C!RunMark(e) \/ C!RunFails(e)
    <3>1. loop' \in LoopType
      BY <1>0, <2>2, LoopMoves
    <3> QED BY <3>1 DEF LoopType
  <2> QED BY <1>4, <2>1, <2>2
<1>5. ASSUME NEW c \in Callers, C!Call(c) PROVE C!Driven'
  <2>1. caller[c] \in C!CallType /\ caller \in [Callers -> C!CallType]
    BY <1>0 DEF C!TypeOK
  <2>2. CASE C!SendClaim(c)
    BY <1>0, <2>1, <2>2 DEF C!SendClaim, C!Hold, C!CallType, C!Idle
  <2>3. CASE C!SendResolve(c) \/ C!SendSuppress(c)
    BY <2>1, <2>3 DEF C!SendResolve, C!SendSuppress, C!With, C!Hold
  <2>4. CASE C!SendInsert(c) \/ C!SendFails(c)
    BY <2>1, <2>4 DEF C!SendInsert, C!SendFails, C!Hold
  <2>5. CASE C!SendAdd(c)
    <3>1. /\ sendJob' = IF sendJob = "none" THEN "waiting" ELSE sendJob
          /\ loop' = loop /\ sendJob # "kept" /\ loop.pc # "over"
      BY <2>5 DEF C!SendAdd, C!Add, C!Spent
    <3>2. sendJob \in {"none", "waiting", "active", "kept"}
      BY <1>0 DEF C!TypeOK
    <3>3. sendJob = "active" => loop.pc = "run"
      BY <1>0, <3>1 DEF LoopApart, Running, C!Over
    <3> QED BY <3>1, <3>2, <3>3
  <2>6. CASE C!SendRelease(c)
    BY <2>1, <2>6, CallerFields DEF C!SendRelease, C!Released, C!Editable
  <2>7. CASE C!CallDies(c)
    BY <1>0, <2>7 DEF C!CallDies, C!Upset
  <2>8. CASE \/ C!UpdateRead(c) \/ C!UpdateWrite(c) \/ C!RemoveRead(c) \/ C!RemoveWrite(c)
             \/ C!SendRead(c)
    <3>1. /\ campaign = "sending" /\ UNCHANGED <<sendJob, loop, upsets, swallowed>>
          /\ caller[c].pc \notin C!Sending \cup {"release"}
      BY <2>8 DEF C!UpdateRead, C!UpdateWrite, C!RemoveRead, C!RemoveWrite, C!SendRead,
         C!Sendable, C!Editable, C!Idle
    <3>2. \A d \in Callers : d # c => caller'[d] = caller[d]
      BY <2>1, <2>8 DEF C!UpdateRead, C!UpdateWrite, C!RemoveRead, C!RemoveWrite, C!SendRead,
         C!Hold
    <3> QED BY <1>0, <3>1, <3>2
  <2> QED BY <1>5, <2>2, <2>3, <2>4, <2>5, <2>6, <2>7, <2>8 DEF C!Call
<1> QED BY <1>1, <1>2, <1>3, <1>4, <1>5 DEF C!Next

LEMMA CampaignInvariant == ServicesSpec => []CampaignInv
<1>1. ServicesInit => CampaignInv
  BY CampaignInit DEF ServicesInit
<1>2. CampaignInv /\ UNCHANGED campaignRows => CampaignInv'
  BY DEF CampaignInv, campaignRows, C!TypeOK, LoopApart, MailsCounted, MayMail, Running,
     C!StuckOnlyBySpentJob, C!SendingIsDriven, C!Driven
<1>3. CampaignInv /\ [ServicesNext]_vars => CampaignInv'
  BY <1>2, CampaignMoves, CampaignType, CampaignLoop, CampaignMails, CampaignDriven
     DEF CampaignInv
<1> QED BY <1>1, <1>3, PTL DEF ServicesSpec

\* "The campaign can never be double-enqueued / double-sent": send(), update() and remove()
\* beside a running or crashing loop mail an address once, and once more per upset.
THEOREM CampaignMailsOnce == ServicesSpec => []MailedOnce
<1>1. CampaignInv => MailedOnce
  BY DEF CampaignInv, MailsCounted, MailedOnce, C!MailedOnce
<1> QED BY <1>1, CampaignInvariant, PTL

\* A campaign in sending has a call or a job that brings it out of there, unless something
\* failed or the job of an earlier send, its loop over, swallowed the new one.
THEOREM CampaignGetsUnstuck == ServicesSpec => []StuckOnlyBySpentJob
<1>1. CampaignInv => StuckOnlyBySpentJob
  BY DEF CampaignInv, StuckOnlyBySpentJob
<1> QED BY <1>1, CampaignInvariant, PTL

--------------------------------------------------------------------------------
(* Email sequences *)

Busy(w) == stepper[w].pc # "idle"

RowType == [status : {"none", "active", "completed", "unenrolled", "failed", "deleted"},
            at : 0..LastPosition + 1, due : BOOLEAN]

JobType == [pc : {"email", "mailed", "other", "advance", "fail"}, step : S!Steps]

\* A job at work is the only one of its step, and the step is the one its recipient is at
\* and has not been executed
JobsApart ==
    /\ \A w \in Steppers : Busy(w) =>
         LET s == stepper[w].step IN
         /\ stepJob[s] = "active" /\ stepper[w].pc # "advance"
         /\ enrollment[s[1]].at = s[2] /\ enrollment[s[1]].status # "none"
         /\ enrollment[s[1]].status # "deleted" => executed[s] = 0
    /\ \A v, w \in Steppers : Busy(v) /\ Busy(w) /\ stepper[v].step = stepper[w].step => v = w

\* The executions are the positions passed, and the one failed at
Passed(s) ==
    enrollment[s[1]].status # "deleted" =>
        executed[s] = IF s[2] < enrollment[s[1]].at THEN 1 ELSE IF S!FailedAt(s) THEN 1 ELSE 0

\* The email of a step may still go out: a job at work has not sent it, or none is at work
\* and the recipient has the step ahead
MayPost(s) ==
    \/ \E w \in Steppers : Busy(w) /\ stepper[w].step = s /\ stepper[w].pc # "mailed"
    \/ /\ \A w \in Steppers : Busy(w) => stepper[w].step # s
       /\ enrollment[s[1]].at <= s[2] /\ enrollment[s[1]].status # "deleted"
       /\ executed[s] = 0

Posted(s) == posted[s] <= 1 + rollbacks /\ (MayPost(s) => posted[s] <= rollbacks)

SequenceInv == S!TypeOK /\ JobsApart /\ \A s \in S!Steps : Passed(s) /\ Posted(s)

LEMMA StepFields ==
    /\ \A s \in S!Steps : /\ s[1] \in Enrollees /\ s[2] \in 0..LastPosition
                          /\ s = <<s[1], s[2]>> /\ s[2] \in Nat
    /\ \A e \in Enrollees, n \in 0..LastPosition : <<e, n>> \in S!Steps
<1>1. LastPosition \in Nat
  BY ServicesBounds
<1> QED BY <1>1 DEF S!Steps, S!Positions

\* What the rows and the jobs are, by the type invariant
LEMMA SequenceFields ==
    ASSUME S!TypeOK
    PROVE  /\ enrollment \in [Enrollees -> RowType]
           /\ stepper \in [Steppers -> {S!Idle} \cup JobType]
           /\ \A w \in Steppers : /\ Busy(w) => stepper[w] \in JobType
                                  /\ stepper[w] = S!Idle <=> ~Busy(w)
BY DEF S!TypeOK, RowType, JobType, Busy, S!Idle

LEMMA SequenceInit == S!Init => SequenceInv
<1> SUFFICES ASSUME S!Init PROVE SequenceInv
  OBVIOUS
<1>1. LastPosition \in Nat /\ MaxRollbacks \in Nat
  BY ServicesBounds
<1>2. \A e \in Enrollees : enrollment[e] = S!NotEnrolled
  BY DEF S!Init
<1>3. /\ enrollment \in [Enrollees -> RowType] /\ rollbacks \in 0..MaxRollbacks
      /\ stepper \in [Steppers -> {S!Idle} \cup JobType] /\ \A w \in Steppers : ~Busy(w)
  BY <1>1 DEF S!Init, S!NotEnrolled, RowType, S!Idle, Busy
<1>4. S!TypeOK
  BY <1>3 DEF S!Init, S!TypeOK, RowType, JobType
<1>5. JobsApart
  BY <1>3 DEF JobsApart
<1>6. \A s \in S!Steps : executed[s] = 0 /\ posted[s] = 0
  BY DEF S!Init
<1>7. \A s \in S!Steps : Passed(s) /\ Posted(s)
  BY <1>2, <1>3, <1>6, StepFields DEF S!Init, Passed, Posted, S!NotEnrolled, S!FailedAt
<1> QED BY <1>4, <1>5, <1>7 DEF SequenceInv

\* No job moves, and people do to a recipient's row what they may: enroll it, take it out
\* or delete it
LEMMA SequenceRests ==
    ASSUME SequenceInv, S!TypeOK', UNCHANGED <<executed, posted, stepper, rollbacks>>,
           \A s \in S!Steps : stepJob[s] = "active" => stepJob'[s] = "active",
           \A e \in Enrollees :
               /\ enrollment'[e].at = enrollment[e].at
               /\ \/ enrollment'[e].status = enrollment[e].status
                  \/ enrollment'[e].status = "deleted"
                  \/ enrollment[e].status = "none" /\ enrollment'[e].status = "active"
                                                   /\ enrollment[e].at = 0
                  \/ /\ enrollment[e].status \notin {"none", "deleted"}
                     /\ enrollment'[e].status = "unenrolled"
    PROVE  SequenceInv'
<1>1. JobsApart'
  BY StepFields, SequenceFields DEF SequenceInv, JobsApart, Busy, JobType
<1>2. ASSUME NEW s \in S!Steps PROVE Passed(s)' /\ Posted(s)'
  <2>1. s[1] \in Enrollees /\ s[2] \in Nat /\ executed[s] \in Nat /\ posted[s] \in Nat
        /\ rollbacks \in Nat /\ enrollment[s[1]].at \in Nat
    BY StepFields, SequenceFields DEF SequenceInv, S!TypeOK, RowType
  <2>2. Passed(s) /\ Posted(s)
    BY <1>2 DEF SequenceInv
  <2>3. Passed(s)'
    BY <2>1, <2>2 DEF Passed, S!FailedAt
  <2>4. MayPost(s)' => MayPost(s)
    BY <2>1 DEF MayPost, Busy
  <2> QED BY <2>1, <2>2, <2>3, <2>4 DEF Posted
<1> QED BY <1>1, <1>2 DEF SequenceInv

LEMMA PeopleStep ==
    ASSUME SequenceInv, S!People
    PROVE  SequenceInv'
<1>1. /\ S!TypeOK /\ enrollment \in [Enrollees -> RowType] /\ LastPosition \in Nat
      /\ step \in [S!Positions -> {"none", "email", "other"}]
      /\ UNCHANGED <<executed, posted, stepJob, stepper, rollbacks>>
  BY SequenceFields, ServicesBounds DEF SequenceInv, S!TypeOK, S!People, S!jobVars, S!Create,
     S!RemoveRead, S!RemoveWrite, S!Activate, S!Pause, S!Resume, S!ReorderSteps, S!EditStep,
     S!MoveStep, S!Enroll, S!Unenroll
<1>2. CASE S!Create \/ S!RemoveRead \/ S!Activate \/ S!Pause \/ S!Resume
  <2>1. UNCHANGED enrollment /\ S!TypeOK'
    BY <1>1, <1>2 DEF S!TypeOK, S!Create, S!RemoveRead, S!Activate, S!Pause, S!Resume
  <2> QED BY <1>1, <2>1, SequenceRests
<1>3. CASE S!ReorderSteps \/ \E m, n \in S!Positions : S!EditStep(n) \/ S!MoveStep(m, n)
  <2>1. UNCHANGED <<sequence, removing, enrollment>>
    BY <1>3 DEF S!ReorderSteps, S!EditStep, S!MoveStep
  <2>2. step' \in [S!Positions -> {"none", "email", "other"}]
    BY <1>1, <1>3 DEF S!ReorderSteps, S!EditStep, S!MoveStep
  <2>3. S!TypeOK'
    BY <1>1, <2>1, <2>2 DEF S!TypeOK
  <2> QED BY <1>1, <2>1, <2>3, SequenceRests
<1>4. CASE S!RemoveWrite
  <2>1. \A e \in Enrollees : /\ enrollment'[e] \in RowType
                             /\ enrollment'[e].at = enrollment[e].at
                             /\ \/ enrollment'[e].status = "deleted"
                                \/ enrollment'[e].status = enrollment[e].status
    BY <1>1, <1>4 DEF S!RemoveWrite, RowType
  <2>2. enrollment' \in [Enrollees -> RowType]
    BY <1>1, <1>4, <2>1 DEF S!RemoveWrite
  <2>3. S!TypeOK'
    BY <1>1, <1>4, <2>2 DEF S!TypeOK, S!RemoveWrite, RowType
  <2> QED BY <1>1, <2>1, <2>3, SequenceRests
<1>5. ASSUME NEW e \in Enrollees, S!Enroll(e) PROVE SequenceInv'
  <2>1. PICK due \in BOOLEAN :
          enrollment' = [enrollment EXCEPT ![e] = [status |-> "active", at |-> 0, due |-> due]]
    BY <1>5 DEF S!Enroll
  <2>2. [status |-> "active", at |-> 0, due |-> due] \in RowType
    BY <1>1 DEF RowType
  <2>3. S!TypeOK'
    BY <1>1, <1>5, <2>1, <2>2 DEF S!TypeOK, S!Enroll, RowType
  <2>4. enrollment[e].status = "none" /\ enrollment[e].at = 0
    BY <1>5 DEF S!Enroll, S!NotEnrolled
  <2>5. \A d \in Enrollees : enrollment'[d] = IF d = e THEN [status |-> "active", at |-> 0, due |-> due]
                                              ELSE enrollment[d]
    BY <1>1, <2>1
  <2> QED BY <1>1, <2>3, <2>4, <2>5, SequenceRests
<1>6. ASSUME NEW e \in Enrollees, S!Unenroll(e) PROVE SequenceInv'
  <2>1. \A d \in Enrollees : /\ enrollment'[d].at = enrollment[d].at
                             /\ d # e => enrollment'[d] = enrollment[d]
    BY <1>1, <1>6 DEF S!Unenroll, RowType
  <2>2. /\ enrollment'[e].status = "unenrolled"
        /\ enrollment[e].status \notin {"none", "deleted"}
        /\ enrollment' \in [Enrollees -> RowType]
    BY <1>1, <1>6 DEF S!Unenroll, RowType
  <2>3. S!TypeOK'
    BY <1>1, <1>6, <2>2 DEF S!TypeOK, S!Unenroll, RowType
  <2> QED BY <1>1, <2>1, <2>2, <2>3, SequenceRests
<1> QED BY <1>2, <1>3, <1>4, <1>5, <1>6 DEF S!People

LEMMA SchedulerStep ==
    ASSUME SequenceInv,
           \/ \E e \in Enrollees : S!BecomesDue(e) \/ S!ScanDue(e)
           \/ \E s \in S!Steps : S!Evict(s)
    PROVE  SequenceInv'
<1>1. S!TypeOK /\ enrollment \in [Enrollees -> RowType]
  BY SequenceFields DEF SequenceInv
<1>2. ASSUME NEW e \in Enrollees, S!BecomesDue(e) PROVE SequenceInv'
  <2>1. /\ \A d \in Enrollees : /\ enrollment'[d].at = enrollment[d].at
                                /\ enrollment'[d].status = enrollment[d].status
        /\ enrollment' \in [Enrollees -> RowType]
    BY <1>1, <1>2 DEF S!BecomesDue, RowType
  <2>2. S!TypeOK'
    BY <1>1, <1>2, <2>1 DEF S!TypeOK, S!BecomesDue, S!jobVars, RowType
  <2> QED BY <1>2, <2>1, <2>2, SequenceRests DEF S!BecomesDue, S!jobVars
<1>3. ASSUME NEW s \in S!Steps, S!Evict(s) PROVE SequenceInv'
  <2>1. S!TypeOK' /\ \A r \in S!Steps : stepJob[r] = "active" => stepJob'[r] = "active"
    BY <1>1, <1>3 DEF S!TypeOK, S!Evict
  <2> QED BY <1>3, <2>1, SequenceRests DEF S!Evict
<1>4. ASSUME NEW e \in Enrollees, S!ScanDue(e) PROVE SequenceInv'
  <2>1. S!TypeOK' /\ \A r \in S!Steps : stepJob[r] = "active" => stepJob'[r] = "active"
    BY <1>1, <1>4, StepFields DEF S!TypeOK, S!ScanDue
  <2> QED BY <1>4, <2>1, SequenceRests DEF S!ScanDue
<1> QED BY <1>2, <1>3, <1>4

\* A job begins with a step that is its recipient's and was not executed
LEMMA TakeStep ==
    ASSUME SequenceInv, NEW w \in Steppers, NEW s \in S!Steps, S!Take(w, s)
    PROVE  SequenceInv'
<1> DEFINE job == [pc |-> S!Task(s), step |-> s]
<1>1. /\ S!TypeOK /\ JobsApart /\ Passed(s) /\ ~Busy(w) /\ stepJob[s] = "waiting"
      /\ stepper \in [Steppers -> {S!Idle} \cup JobType]
      /\ stepJob \in [S!Steps -> {"none", "waiting", "active", "kept"}]
      /\ s[1] \in Enrollees /\ s[2] \in 0..LastPosition /\ executed[s] \in Nat
      /\ enrollment[s[1]].at \in Nat /\ s[2] \in Nat
  BY SequenceFields, StepFields, ServicesBounds DEF SequenceInv, S!Take, S!TypeOK, Busy, S!Idle
<1>2. CASE S!Task(s) = "skip"
  <2>1. S!TypeOK' /\ \A r \in S!Steps : stepJob[r] = "active" => stepJob'[r] = "active"
    BY <1>1, <1>2 DEF S!TypeOK, S!Take
  <2> QED BY <1>2, <2>1, SequenceRests DEF S!Take
<1>3. CASE S!Task(s) # "skip"
  <2>1. S!Current(s) /\ S!Task(s) \in {"email", "other", "fail"} /\ executed[s] = 0
    BY <1>1, <1>3 DEF S!Task, S!Current, Passed, S!FailedAt, S!TypeOK, S!Positions
  <2>2. job \in JobType /\ job.pc \in {"email", "other", "fail"} /\ job.step = s
    BY <2>1 DEF JobType
  <2> HIDE DEF job
  <2>3. /\ stepJob' = [stepJob EXCEPT ![s] = "active"] /\ stepper' = [stepper EXCEPT ![w] = job]
        /\ UNCHANGED <<removing, sequence, step, enrollment, executed, posted, rollbacks>>
    BY <1>3 DEF S!Take, job
  <2>4. \A v \in Steppers : stepper'[v] = IF v = w THEN job ELSE stepper[v]
    BY <1>1, <2>3
  <2>5. S!TypeOK'
    BY <1>1, <2>2, <2>3 DEF S!TypeOK, JobType
  <2>6. \A v \in Steppers : Busy(v) => stepper[v].step # s /\ stepper[v].step \in S!Steps
    BY <1>1, SequenceFields DEF JobsApart, JobType
  <2>7. JobsApart'
    BY <1>1, <2>1, <2>2, <2>3, <2>4, <2>6 DEF JobsApart, Busy, S!Current
  <2>8. ASSUME NEW r \in S!Steps PROVE Passed(r)' /\ Posted(r)'
    <3>1. MayPost(r)' => MayPost(r)
      BY <1>1, <2>1, <2>2, <2>3, <2>4, <2>6 DEF MayPost, Busy, S!Current
    <3> QED BY <2>3, <3>1 DEF SequenceInv, Passed, Posted, S!FailedAt
  <2> QED BY <2>5, <2>7, <2>8 DEF SequenceInv
<1> QED BY <1>2, <1>3

\* The mail goes out once: the job has not sent it, and will not send it again
LEMMA EmailStep ==
    ASSUME SequenceInv, NEW w \in Steppers, S!Email(w)
    PROVE  SequenceInv'
<1> DEFINE s == stepper[w].step
           job == [stepper[w] EXCEPT !.pc = "mailed"]
<1>1. /\ S!TypeOK /\ JobsApart /\ stepper[w] \in JobType /\ stepper[w].pc = "email" /\ Busy(w)
      /\ stepper \in [Steppers -> {S!Idle} \cup JobType] /\ posted \in [S!Steps -> Nat]
      /\ rollbacks \in Nat
  BY SequenceFields DEF SequenceInv, S!Email, Busy, S!TypeOK
<1>2. job \in JobType /\ job.pc = "mailed" /\ job.step = s /\ s \in S!Steps
  BY <1>1 DEF JobType
<1>3. /\ stepper' = [stepper EXCEPT ![w] = job]
      /\ posted' \in {posted, [posted EXCEPT ![s] = @ + 1]}
      /\ UNCHANGED <<removing, sequence, step, enrollment, executed, stepJob, rollbacks>>
  BY DEF S!Email
<1>4. MayPost(s)
  BY <1>1 DEF MayPost
<1> HIDE DEF job
<1>5. \A v \in Steppers : stepper'[v] = IF v = w THEN job ELSE stepper[v]
  BY <1>1, <1>3
<1>6. S!TypeOK'
  <2>1. posted' \in [S!Steps -> Nat] /\ stepper' \in [Steppers -> {S!Idle} \cup JobType]
    BY <1>1, <1>2, <1>3
  <2> QED BY <1>1, <1>3, <2>1 DEF S!TypeOK, JobType
<1>7. \A v \in Steppers : /\ Busy(v)' <=> Busy(v)
                          /\ stepper'[v].step = stepper[v].step
                          /\ v # w => stepper'[v] = stepper[v]
  BY <1>1, <1>2, <1>5 DEF Busy
<1>8. JobsApart'
  BY <1>1, <1>2, <1>3, <1>5, <1>7 DEF JobsApart
<1>9. ASSUME NEW r \in S!Steps PROVE Passed(r)' /\ Posted(r)'
  <2>1. MayPost(r)' => MayPost(r) /\ r # s
    <3>1. \A v \in Steppers : Busy(v) /\ stepper[v].step = s => v = w
      BY <1>1 DEF JobsApart
    <3> QED BY <1>1, <1>2, <1>3, <1>5, <1>7, <3>1 DEF MayPost
  <2>2. Passed(r)'
    BY <1>3 DEF SequenceInv, Passed, S!FailedAt
  <2>3. Posted(r) /\ Posted(s)
    BY <1>2 DEF SequenceInv
  <2>4. posted'[r] = posted[r] \/ (r = s /\ posted'[r] = posted[r] + 1)
    BY <1>1, <1>2, <1>3
  <2> QED BY <1>1, <1>3, <1>4, <2>1, <2>2, <2>3, <2>4 DEF Posted
<1> QED BY <1>6, <1>8, <1>9 DEF SequenceInv

\* The other jobs when one has ended
LEMMA JobEnds ==
    ASSUME SequenceInv, NEW w \in Steppers, Busy(w),
           stepper' = [stepper EXCEPT ![w] = S!Idle]
    PROVE  /\ stepper[w] \in JobType /\ stepper[w].step \in S!Steps /\ ~Busy(w)'
           /\ stepper' \in [Steppers -> {S!Idle} \cup JobType]
           /\ \A v \in Steppers : v # w => stepper'[v] = stepper[v] /\ (Busy(v)' <=> Busy(v))
           /\ \A v \in Steppers : v # w /\ Busy(v) =>
                /\ stepper[v].step \in S!Steps
                /\ stepper[v].step[1] # stepper[w].step[1]
<1>1. S!TypeOK /\ JobsApart /\ stepper \in [Steppers -> {S!Idle} \cup JobType]
  BY SequenceFields DEF SequenceInv
<1>2. \A v \in Steppers : Busy(v) => stepper[v] \in JobType /\ stepper[v].step \in S!Steps
  BY <1>1, SequenceFields DEF JobType
<1>3. \A v \in Steppers : v # w /\ Busy(v) => stepper[v].step[1] # stepper[w].step[1]
  <2> SUFFICES ASSUME NEW v \in Steppers, v # w, Busy(v),
                      stepper[v].step[1] = stepper[w].step[1]
               PROVE  FALSE
    OBVIOUS
  <2>1. stepper[v].step[2] = stepper[w].step[2]
    BY <1>1 DEF JobsApart
  <2>2. stepper[v].step = stepper[w].step
    BY <1>2, <2>1, StepFields
  <2> QED BY <1>1, <2>2 DEF JobsApart
<1> QED BY <1>1, <1>2, <1>3 DEF Busy, S!Idle

\* What a row may become with a commit
LEMMA NewRow ==
    ASSUME NEW entry \in RowType, NEW n \in Nat, n <= LastPosition + 1
    PROVE  /\ S!Failed(entry) \in RowType
           /\ S!Failed(entry).at = entry.at /\ S!Failed(entry).status = "failed"
           /\ \A new \in S!Advanced(entry, n) :
                /\ new \in RowType /\ new.at = n /\ new.status \in {entry.status, "completed"}
<1>1. n \in 0 .. LastPosition + 1
  BY ServicesBounds
<1>2. ASSUME NEW due \in BOOLEAN
      PROVE  LET new == [entry EXCEPT !.at = n, !.due = due] IN
             new \in RowType /\ new.at = n /\ new.status = entry.status
  BY <1>1 DEF RowType
<1>3. LET new == [entry EXCEPT !.at = n, !.status = "completed", !.due = FALSE] IN
      new \in RowType /\ new.at = n /\ new.status = "completed"
  BY <1>1 DEF RowType
<1>4. \A new \in S!Advanced(entry, n) :
        new \in RowType /\ new.at = n /\ new.status \in {entry.status, "completed"}
  BY <1>2, <1>3 DEF S!Advanced
<1>5. S!Failed(entry) \in RowType /\ S!Failed(entry).at = entry.at /\ S!Failed(entry).status = "failed"
  BY DEF S!Failed, RowType
<1> QED BY <1>4, <1>5

\* The execution is counted with the move to the next position, or with the failure
LEMMA CommitStep ==
    ASSUME SequenceInv, NEW w \in Steppers, S!Commit(w)
    PROVE  SequenceInv'
<1> DEFINE s == stepper[w].step
           entry == enrollment[s[1]]
<1>1. /\ S!TypeOK /\ JobsApart /\ Busy(w) /\ stepper' = [stepper EXCEPT ![w] = S!Idle]
      /\ stepper[w].pc \in {"other", "mailed", "advance", "fail"} /\ entry.status # "deleted"
      /\ UNCHANGED <<removing, sequence, step, posted>>
  BY DEF SequenceInv, S!Commit, Busy
<1>2. /\ stepper[w] \in JobType /\ s \in S!Steps /\ s[1] \in Enrollees
      /\ s[2] \in 0..LastPosition /\ s[2] \in Nat /\ LastPosition \in Nat
      /\ enrollment \in [Enrollees -> RowType] /\ entry \in RowType
      /\ executed \in [S!Steps -> Nat] /\ posted \in [S!Steps -> Nat]
      /\ rollbacks \in Nat /\ MaxRollbacks \in Nat
  BY <1>1, JobEnds, SequenceFields, StepFields, ServicesBounds DEF S!TypeOK
<1>3. entry.at = s[2] /\ entry.status # "none" /\ executed[s] = 0 /\ stepper[w].pc # "advance"
  BY <1>1 DEF JobsApart
<1>4. PICK new \in IF stepper[w].pc = "fail" THEN {S!Failed(entry)} ELSE S!Advanced(entry, s[2] + 1) :
        enrollment' = [enrollment EXCEPT ![s[1]] = new]
  BY DEF S!Commit
<1>5. /\ new \in RowType /\ new.status \notin {"none", "deleted"}
      /\ \/ new.at = s[2] + 1
         \/ new.at = s[2] /\ new.status = "failed"
  <2>1. s[2] + 1 \in Nat /\ s[2] + 1 <= LastPosition + 1
    BY <1>2
  <2>2. CASE stepper[w].pc = "fail"
    BY <1>2, <1>3, <1>4, <2>1, <2>2, NewRow
  <2>3. CASE stepper[w].pc # "fail"
    <3>1. entry \in RowType /\ new \in S!Advanced(entry, s[2] + 1)
      BY <1>2, <1>4, <2>3
    <3>2. entry.status \notin {"none", "deleted"}
      BY <1>1, <1>3
    <3> HIDE DEF entry
    <3>3. new \in RowType /\ new.at = s[2] + 1 /\ new.status \in {entry.status, "completed"}
      BY <2>1, <3>1, NewRow
    <3> QED BY <3>2, <3>3
  <2> QED BY <2>2, <2>3
<1>6. executed' = [executed EXCEPT ![s] = 1]
  <2>1. S!Executions(stepper[w].pc) = 1
    BY <1>1, <1>3 DEF S!Executions
  <2>2. executed' = [executed EXCEPT ![s] = @ + S!Executions(stepper[w].pc)]
    BY DEF S!Commit
  <2> QED BY <1>2, <1>3, <2>1, <2>2
<1>7. /\ rollbacks' \in 0 .. MaxRollbacks /\ rollbacks <= rollbacks'
      /\ \E after \in {"kept", "waiting"} : stepJob' = [stepJob EXCEPT ![s] = after]
  BY <1>1, <1>2 DEF S!Commit, S!CountRollback, S!TypeOK
<1> HIDE DEF entry
<1>8. \A e \in Enrollees : enrollment'[e] = IF e = s[1] THEN new ELSE enrollment[e]
  BY <1>2, <1>4
<1>9. S!TypeOK'
  <2>1. enrollment' \in [Enrollees -> RowType] /\ executed' \in [S!Steps -> Nat]
    BY <1>2, <1>4, <1>5, <1>6
  <2>2. stepper' \in [Steppers -> {S!Idle} \cup JobType]
    BY <1>1, JobEnds
  <2>3. stepJob' \in [S!Steps -> {"none", "waiting", "active", "kept"}]
    BY <1>1, <1>2, <1>7 DEF S!TypeOK
  <2> QED BY <1>1, <1>7, <2>1, <2>2, <2>3 DEF S!TypeOK, RowType, JobType
<1>10. JobsApart'
  <2>1. ASSUME NEW v \in Steppers, Busy(v)'
        PROVE  /\ v # w /\ Busy(v) /\ stepper'[v] = stepper[v] /\ stepper[v].step \in S!Steps
               /\ stepper[v].step[1] # s[1] /\ stepper[v].step # s
               /\ stepper[v].step[1] \in Enrollees
    BY <1>1, <2>1, JobEnds, StepFields
  <2>2. ASSUME NEW v \in Steppers, Busy(v)'
        PROVE  /\ stepJob'[stepper'[v].step] = stepJob[stepper[v].step]
               /\ executed'[stepper'[v].step] = executed[stepper[v].step]
               /\ enrollment'[stepper'[v].step[1]] = enrollment[stepper[v].step[1]]
    BY <1>1, <1>2, <1>6, <1>7, <1>8, <2>1, <2>2 DEF S!TypeOK
  <2> QED BY <1>1, <2>1, <2>2 DEF JobsApart
<1>11. ASSUME NEW r \in S!Steps PROVE Passed(r)' /\ Posted(r)'
  <2>1. /\ Passed(r) /\ Posted(r) /\ r[1] \in Enrollees /\ r[2] \in Nat /\ r = <<r[1], r[2]>>
        /\ s = <<s[1], s[2]>> /\ enrollment[r[1]].at \in Nat
    BY <1>2, StepFields DEF SequenceInv, RowType
  <2>2. Passed(r)'
    <3>1. CASE r[1] # s[1]
      <4>1. executed'[r] = executed[r] /\ enrollment'[r[1]] = enrollment[r[1]]
        BY <1>2, <1>6, <1>8, <2>1, <3>1
      <4> QED BY <2>1, <4>1 DEF Passed, S!FailedAt
    <3>2. CASE r = s
      BY <1>2, <1>5, <1>6, <1>8, <3>2 DEF Passed, S!FailedAt
    <3>3. CASE r[1] = s[1] /\ r[2] # s[2]
      <4>1. executed'[r] = executed[r] /\ enrollment'[r[1]] = new
        BY <1>2, <1>6, <1>8, <2>1, <3>3
      <4>2. executed[r] = IF r[2] < s[2] THEN 1 ELSE 0
        BY <1>1, <1>2, <1>3, <2>1, <3>3 DEF Passed, S!FailedAt, entry
      <4> QED BY <1>2, <1>5, <2>1, <3>3, <4>1, <4>2 DEF Passed, S!FailedAt
    <3> QED BY <2>1, <3>1, <3>2, <3>3
  <2>3. MayPost(r)' => MayPost(r)
    <3>0. \A v \in Steppers :
            /\ Busy(v)' => v # w /\ Busy(v) /\ stepper'[v] = stepper[v] /\ stepper[v].step # s
            /\ Busy(v) /\ v # w => Busy(v)' /\ stepper'[v] = stepper[v]
      BY <1>1, JobEnds
    <3>1. CASE r[1] # s[1]
      <4>1. executed'[r] = executed[r] /\ enrollment'[r[1]] = enrollment[r[1]] /\ r # s
        BY <1>2, <1>6, <1>8, <2>1, <3>1
      <4> QED BY <3>0, <4>1 DEF MayPost
    <3>2. CASE r = s
      <4>1. executed'[r] = 1
        BY <1>2, <1>6, <3>2
      <4> QED BY <3>0, <3>2, <4>1 DEF MayPost
    <3>3. CASE r[1] = s[1] /\ r[2] # s[2]
      <4>1. executed'[r] = executed[r] /\ enrollment'[r[1]] = new /\ r # s
        BY <1>2, <1>6, <1>8, <2>1, <3>3
      <4>2. new.at <= r[2] => entry.at <= r[2]
        BY <1>2, <1>3, <1>5, <2>1
      <4>3. entry.status # "deleted" /\ entry = enrollment[r[1]]
        BY <1>1, <3>3 DEF entry
      <4> QED BY <3>3, <3>0, <4>1, <4>2, <4>3 DEF MayPost
    <3> QED BY <2>1, <3>1, <3>2, <3>3
  <2> QED BY <1>1, <1>2, <1>7, <2>1, <2>2, <2>3 DEF Posted
<1> QED BY <1>9, <1>10, <1>11 DEF SequenceInv

\* A job that is rolled back is counted, or its recipient is gone
LEMMA RollbackStep ==
    ASSUME SequenceInv, NEW w \in Steppers, S!Rollback(w)
    PROVE  SequenceInv'
<1> DEFINE s == stepper[w].step
<1>1. /\ S!TypeOK /\ JobsApart /\ stepper' = [stepper EXCEPT ![w] = S!Idle]
      /\ UNCHANGED <<removing, sequence, step, enrollment, executed, posted>>
      /\ posted \in [S!Steps -> Nat] /\ rollbacks \in Nat /\ MaxRollbacks \in Nat
  BY ServicesBounds DEF SequenceInv, S!Rollback, S!TypeOK
<1>2. Busy(w)
  BY <1>1, SequenceFields DEF S!Rollback
<1>3. s \in S!Steps
  BY <1>1, <1>2, JobEnds
<1>4. /\ rollbacks' \in 0 .. MaxRollbacks
      /\ \/ rollbacks' = rollbacks + 1
         \/ rollbacks' = rollbacks /\ enrollment[s[1]].status = "deleted"
      /\ \E after \in {"kept", "waiting"} : stepJob' = [stepJob EXCEPT ![s] = after]
  <2>1. \E after \in {"kept", "waiting"} : stepJob' = [stepJob EXCEPT ![s] = after]
    BY DEF S!Rollback
  <2>2. CASE S!CountRollback
    <3>1. rollbacks' \in 0 .. MaxRollbacks /\ rollbacks' = rollbacks + 1
      BY <1>1, <2>2 DEF S!CountRollback
    <3> QED BY <2>1, <3>1
  <2>3. CASE enrollment[s[1]].status = "deleted" /\ UNCHANGED rollbacks
    BY <1>1, <2>1, <2>3 DEF S!TypeOK
  <2> QED BY <2>2, <2>3 DEF S!Rollback
<1>5. S!TypeOK'
  <2>1. stepper' \in [Steppers -> {S!Idle} \cup JobType]
    BY <1>1, <1>2, JobEnds
  <2>2. stepJob' \in [S!Steps -> {"none", "waiting", "active", "kept"}]
    BY <1>1, <1>3, <1>4 DEF S!TypeOK
  <2> QED BY <1>1, <1>4, <2>1, <2>2 DEF S!TypeOK, JobType
<1>6. JobsApart'
  <2>1. ASSUME NEW v \in Steppers, Busy(v)'
        PROVE  /\ v # w /\ Busy(v) /\ stepper'[v] = stepper[v] /\ stepper[v].step \in S!Steps
               /\ stepper[v].step # s
    BY <1>1, <1>2, <2>1, JobEnds
  <2>2. ASSUME NEW v \in Steppers, Busy(v)'
        PROVE  stepJob'[stepper'[v].step] = stepJob[stepper[v].step]
    BY <1>1, <1>3, <1>4, <2>1, <2>2 DEF S!TypeOK
  <2> QED BY <1>1, <2>1, <2>2 DEF JobsApart
<1>7. ASSUME NEW r \in S!Steps PROVE Passed(r)' /\ Posted(r)'
  <2>1. Passed(r) /\ Posted(r)
    BY DEF SequenceInv
  <2>2. Passed(r)'
    BY <1>1, <2>1 DEF Passed, S!FailedAt
  <2>3. rollbacks' = rollbacks => (MayPost(r)' => MayPost(r))
    <3>1. SUFFICES ASSUME enrollment[s[1]].status = "deleted", MayPost(r)' PROVE MayPost(r)
      BY <1>1, <1>4
    <3>2. \A v \in Steppers : Busy(v)' => v # w /\ Busy(v) /\ stepper'[v] = stepper[v]
      BY <1>1, <1>2, JobEnds
    <3>3. r = s => ~MayPost(r)'
      <4>1. \A v \in Steppers : Busy(v)' => stepper'[v].step # s
        BY <1>1, <1>2, <3>2, JobEnds
      <4> QED BY <1>1, <3>1, <4>1 DEF MayPost
    <3> QED BY <1>1, <1>2, <3>1, <3>2, <3>3, JobEnds DEF MayPost
  <2> QED BY <1>1, <1>4, <2>1, <2>2, <2>3 DEF Posted
<1> QED BY <1>5, <1>6, <1>7 DEF SequenceInv

LEMMA SequenceInvariant == ServicesSpec => []SequenceInv
<1>1. ServicesInit => SequenceInv
  BY SequenceInit DEF ServicesInit
<1>2. SequenceInv /\ UNCHANGED sequenceRows => SequenceInv'
  BY DEF SequenceInv, sequenceRows, S!TypeOK, JobsApart, Passed, Posted, MayPost, Busy, S!FailedAt
<1>3. SequenceInv /\ S!Next => SequenceInv'
  BY PeopleStep, SchedulerStep, TakeStep, EmailStep, CommitStep, RollbackStep DEF S!Next
<1>4. SequenceInv /\ [ServicesNext]_vars => SequenceInv'
  BY <1>2, <1>3, SequenceMoves
<1> QED BY <1>1, <1>4, PTL DEF ServicesSpec

\* "executeStep is idempotent so a retry won't double-execute a step": the executions of a
\* recipient are the positions passed, once each, and the one failed at; an email goes out
\* once, and once more for each transaction that failed.
THEOREM SequenceRunsStepsOnce == ServicesSpec => []StepsRunOnce
<1>1. SequenceInv => StepsRunOnce
  BY DEF SequenceInv, Passed, Posted, StepsRunOnce, S!StepsRunOnce
<1> QED BY <1>1, SequenceInvariant, PTL

--------------------------------------------------------------------------------
(* Dunning, for any passes, invoices and rules: a reminder is sent at most once, a claim
   is worth its email, and passes with their claim rows implement OnceOnly *)

Claimed(w) == pass[w].pc = "claimed"

\* Neither claimed nor withdrawn
May(p) == p \notin logs /\ rule[p[2]] # "deleted"

\* A pass between claim and email holds a pair that nobody can claim, that was not sent
\* and that no other pass holds.
ClaimsApart ==
    /\ \A w \in Passes : Claimed(w) => mails[pass[w].pair] = 0 /\ ~May(pass[w].pair)
    /\ \A v, w \in Passes : v # w /\ Claimed(v) /\ Claimed(w) => pass[v].pair # pass[w].pair

DunningInv == TypeOK /\ ReminderOnce /\ ClaimIsMailed /\ ClaimsApart

LEMMA PairType == \A p \in Pairs : p[1] \in Invoices /\ p[2] \in Rules
BY DEF Pairs

\* What a pass holds, by where it stands
LEMMA PassFields ==
    ASSUME NEW p \in PassType
    PROVE  /\ p = Idle \/ p.job \in BOOLEAN
           /\ p.pc = "idle" => p = Idle
           /\ p.pc = "rules" => p \in [pc : {"rules"}, job : BOOLEAN, rules : SUBSET Rules]
           /\ p.pc = "loop" => p \in [pc : {"loop"}, job : BOOLEAN, todo : SUBSET Pairs]
           /\ p.pc = "claimed" =>
                p \in [pc : {"claimed"}, job : BOOLEAN, pair : Pairs, todo : SUBSET Pairs]
BY DEF PassType, Idle

LEMMA InitHolds == Init => DunningInv
<1> SUFFICES ASSUME Init PROVE DunningInv
  OBVIOUS
<1>1. \A p \in Pairs : mails[p] = 0
  BY DEF Init
<1>2. TypeOK
  BY DEF Init, TypeOK, PassType
<1>3. \A w \in Passes : ~Claimed(w)
  BY DEF Init, Claimed, Idle
<1> QED BY <1>1, <1>2, <1>3 DEF DunningInv, ReminderOnce, ClaimIsMailed, ClaimsApart, Init

--------------------------------------------------------------------------------
(* Steps of settings, rules, invoices and jobs: no pass moves, nothing is sent *)

\* Claims and rules that only make pairs unclaimable
LEMMA QuietStep ==
    ASSUME DunningInv, TypeOK', UNCHANGED <<mails, pass, lost>>,
           \A p \in Pairs : p \in logs' => p \in logs,
           \A p \in Pairs : May(p)' => May(p),
           \A p \in Pairs : p \in logs => p \in logs' \/ rule'[p[2]] = "deleted"
    PROVE  DunningInv'
<1>1. ReminderOnce' /\ ClaimIsMailed'
  BY DEF DunningInv, ReminderOnce, ClaimIsMailed, May
<1>2. ClaimsApart'
  <2>1. \A w \in Passes : Claimed(w) => pass[w].pair \in Pairs
    BY PassFields DEF DunningInv, TypeOK, Claimed
  <2> QED BY <2>1 DEF DunningInv, ClaimsApart, Claimed
<1> QED BY <1>1, <1>2 DEF DunningInv

LEMMA RuleStep ==
    ASSUME DunningInv, NEW r \in Rules, CreateRule(r) \/ UpdateRule(r) \/ DeleteRule(r)
    PROVE  DunningInv'
<1>1. TypeOK'
  BY DEF DunningInv, TypeOK, CreateRule, UpdateRule, DeleteRule
<1>2. \A p \in Pairs : May(p)' => May(p)
  BY PairType DEF DunningInv, TypeOK, May, CreateRule, UpdateRule, DeleteRule
<1>3. \A p \in Pairs : p \in logs' => p \in logs
  BY DEF CreateRule, UpdateRule, DeleteRule
<1>4. \A p \in Pairs : p \in logs => p \in logs' \/ rule'[p[2]] = "deleted"
  BY PairType DEF DunningInv, TypeOK, CreateRule, UpdateRule, DeleteRule
<1> QED BY <1>1, <1>2, <1>3, <1>4, QuietStep DEF CreateRule, UpdateRule, DeleteRule

LEMMA OutsideStep ==
    ASSUME DunningInv,
           \/ UpdateSettings \/ Cron \/ Evict
           \/ \E i \in Invoices : InvoiceMoves(i)
    PROVE  DunningInv'
<1>1. TypeOK' /\ UNCHANGED <<rule, logs, mails, pass, lost>>
  BY DEF DunningInv, TypeOK, UpdateSettings, Cron, Evict, InvoiceMoves
<1> QED BY <1>1, QuietStep DEF May

--------------------------------------------------------------------------------
(* Steps of a pass *)

\* A pass goes on without a claim: neither before the step nor after it
LEMMA WanderStep ==
    ASSUME DunningInv, NEW w \in Passes, NEW q \in PassType,
           pass' = [pass EXCEPT ![w] = q], q.pc # "claimed", ~Claimed(w),
           tick' \in {"none", "waiting", "active", "kept"},
           UNCHANGED <<dunning, rule, open, logs, mails, lost>>
    PROVE  DunningInv'
<1>1. TypeOK'
  BY DEF DunningInv, TypeOK
<1>2. \A v \in Passes : /\ Claimed(v)' <=> Claimed(v)
                        /\ Claimed(v) => pass'[v] = pass[v]
  BY DEF DunningInv, TypeOK, Claimed
<1>3. ReminderOnce' /\ ClaimIsMailed' /\ ClaimsApart'
  BY <1>2 DEF DunningInv, ReminderOnce, ClaimIsMailed, ClaimsApart, May, Claimed
<1> QED BY <1>1, <1>3 DEF DunningInv

LEMMA BeginStep ==
    ASSUME DunningInv, NEW w \in Passes, NEW job \in BOOLEAN, Begin(w, job)
    PROVE  DunningInv'
<1> DEFINE active == {r \in Rules : rule[r] = "active"}
           q == [pc |-> "rules", job |-> job, rules |-> active]
<1>1. ~Claimed(w) /\ pass \in [Passes -> PassType] /\ pass[w] = Idle /\ Idle \in PassType
  BY DEF Begin, Claimed, Idle, PassType, DunningInv, TypeOK
<1>2. tick' \in {"none", "waiting", "active", "kept"}
  BY DEF Begin, DunningInv, TypeOK
<1>3. CASE dunning /\ active # {}
  <2>1. q \in PassType /\ q.pc # "claimed"
    BY DEF PassType
  <2>2. pass' = [pass EXCEPT ![w] = q]
    BY <1>3 DEF Begin, Hold
  <2> QED BY <1>1, <1>2, <2>1, <2>2, WanderStep DEF Begin
<1>4. CASE ~(dunning /\ active # {})
  <2>1. pass' = [pass EXCEPT ![w] = Idle]
    BY <1>1, <1>4 DEF Begin
  <2>2. Idle.pc # "claimed"
    BY DEF Idle
  <2> QED BY <1>1, <1>2, <2>1, <2>2, WanderStep DEF Begin
<1> QED BY <1>3, <1>4

LEMMA ReadInvoicesStep ==
    ASSUME DunningInv, NEW w \in Passes, ReadInvoices(w)
    PROVE  DunningInv'
<1>1. PICK due \in SUBSET (open \X pass[w].rules) :
        pass' = [pass EXCEPT ![w] = [pc |-> "loop", job |-> pass[w].job, todo |-> due]]
  BY DEF ReadInvoices, Hold
<1>2. pass[w] \in [pc : {"rules"}, job : BOOLEAN, rules : SUBSET Rules]
  BY PassFields DEF DunningInv, TypeOK, ReadInvoices
<1>3. due \in SUBSET Pairs
  BY <1>1, <1>2 DEF DunningInv, TypeOK, Pairs
<1>4. [pc |-> "loop", job |-> pass[w].job, todo |-> due] \in PassType
  BY <1>2, <1>3 DEF PassType
<1> QED BY <1>1, <1>4, WanderStep DEF ReadInvoices, Claimed, DunningInv, TypeOK

LEMMA ClaimFailsStep ==
    ASSUME DunningInv, NEW w \in Passes, NEW p \in Pairs, ClaimFails(w, p)
    PROVE  DunningInv'
<1> DEFINE q == [pass[w] EXCEPT !.todo = @ \ {p}]
<1>1. pass[w] \in [pc : {"loop"}, job : BOOLEAN, todo : SUBSET Pairs]
  BY PassFields DEF DunningInv, TypeOK, ClaimFails
<1>2. q \in [pc : {"loop"}, job : BOOLEAN, todo : SUBSET Pairs]
  BY <1>1
<1>3. q \in PassType /\ q.pc # "claimed"
  BY <1>2 DEF PassType
<1> HIDE DEF q
<1>4. pass' = [pass EXCEPT ![w] = q]
  BY DEF ClaimFails, Hold, q
<1> QED BY <1>3, <1>4, WanderStep DEF ClaimFails, Claimed, DunningInv, TypeOK

LEMMA EndStep ==
    ASSUME DunningInv, NEW w \in Passes, Finish(w) \/ Throws(w)
    PROVE  DunningInv'
<1>1. Idle \in PassType /\ Idle.pc # "claimed" /\ ~Claimed(w)
  BY DEF PassType, Idle, Finish, Throws, Claimed
<1>2. /\ pass' = [pass EXCEPT ![w] = Idle]
      /\ tick' \in {"none", "waiting", "active", "kept"}
      /\ UNCHANGED <<dunning, rule, open, logs, mails, lost>>
  BY DEF Finish, Throws, Ends, Hold, DunningInv, TypeOK
<1> QED BY <1>1, <1>2, WanderStep

LEMMA ClaimStep ==
    ASSUME DunningInv, NEW w \in Passes, NEW p \in Pairs, Claim(w, p)
    PROVE  DunningInv'
<1> DEFINE q == [pc |-> "claimed", job |-> pass[w].job, pair |-> p,
                 todo |-> pass[w].todo \ {p}]
<1>1. pass[w] \in [pc : {"loop"}, job : BOOLEAN, todo : SUBSET Pairs]
  BY PassFields DEF DunningInv, TypeOK, Claim
<1>2. q \in PassType /\ q.pc = "claimed" /\ q.pair = p
  BY <1>1 DEF PassType
<1> HIDE DEF q
<1>3. pass' = [pass EXCEPT ![w] = q] /\ pass \in [Passes -> PassType]
  BY DEF Claim, Hold, q, DunningInv, TypeOK
<1>4. \A v \in Passes : pass'[v] = IF v = w THEN q ELSE pass[v]
  BY <1>3
<1>5. TypeOK'
  BY <1>2, <1>3 DEF DunningInv, TypeOK, Claim
<1>6. May(p) /\ mails[p] = 0
  BY DEF Claim, Claimable, May, DunningInv, ClaimIsMailed, TypeOK
<1>7. \A v \in Passes : v # w /\ Claimed(v) => pass[v].pair # p
  BY <1>6 DEF DunningInv, ClaimsApart
<1>8. /\ logs' = logs \cup {p} /\ mails' = mails /\ lost' = lost /\ rule' = rule
  BY DEF Claim
<1>9. ReminderOnce'
  BY <1>8 DEF DunningInv, ReminderOnce
<1>10. ClaimIsMailed'
  <2>1. pass'[w].pc = "claimed" /\ pass'[w].pair = p /\ pass[w].pc = "loop"
    BY <1>1, <1>2, <1>4
  <2> QED BY <1>4, <1>8, <2>1 DEF DunningInv, ClaimIsMailed
<1>11. ClaimsApart'
  BY <1>2, <1>4, <1>6, <1>7, <1>8 DEF DunningInv, ClaimsApart, Claimed, May
<1> QED BY <1>5, <1>9, <1>10, <1>11 DEF DunningInv

\* A pass lets go of the pair it claimed: sent, or lost
LEMMA ReleaseStep ==
    ASSUME DunningInv, NEW w \in Passes, Claimed(w), NEW q \in PassType, q.pc # "claimed",
           pass' = [pass EXCEPT ![w] = q],
           tick' \in {"none", "waiting", "active", "kept"},
           UNCHANGED <<dunning, rule, open, logs>>,
           \/ mails' = [mails EXCEPT ![pass[w].pair] = @ + 1] /\ UNCHANGED lost
           \/ lost' = lost \cup {pass[w].pair} /\ UNCHANGED mails
    PROVE  DunningInv'
<1> DEFINE p == pass[w].pair
<1>1. p \in Pairs /\ mails[p] = 0 /\ ~May(p) /\ mails \in [Pairs -> Nat]
  BY PassFields DEF DunningInv, TypeOK, ClaimsApart, Claimed
<1>2. \A v \in Passes : pass'[v] = IF v = w THEN q ELSE pass[v]
  BY DEF DunningInv, TypeOK
<1>3. TypeOK'
  BY <1>1 DEF DunningInv, TypeOK
<1>4. \A x \in Pairs : x # p => mails'[x] = mails[x] /\ (x \in lost' <=> x \in lost)
  BY <1>1
<1>5. mails'[p] = 1 \/ (mails'[p] = 0 /\ p \in lost')
  BY <1>1
<1> HIDE DEF p
<1>6. ReminderOnce'
  <2> SUFFICES ASSUME NEW x \in Pairs PROVE mails'[x] <= 1
    BY DEF ReminderOnce
  <2> QED BY <1>4, <1>5 DEF DunningInv, ReminderOnce
<1>7. ClaimIsMailed'
  <2> SUFFICES ASSUME NEW x \in Pairs
               PROVE  /\ x \in logs =>
                           \/ mails'[x] = 1 \/ x \in lost'
                           \/ \E v \in Passes : pass'[v].pc = "claimed" /\ pass'[v].pair = x
                      /\ mails'[x] > 0 => x \in logs \/ rule[x[2]] = "deleted"
    BY DEF ClaimIsMailed
  <2>1. CASE x = p
    BY <1>1, <1>5, <2>1 DEF May
  <2>2. CASE x # p
    <3>1. \A v \in Passes : pass[v].pc = "claimed" /\ pass[v].pair = x =>
                              pass'[v].pc = "claimed" /\ pass'[v].pair = x
      BY <1>2, <2>2 DEF p
    <3> QED BY <1>4, <2>2, <3>1 DEF DunningInv, ClaimIsMailed
  <2> QED BY <2>1, <2>2
<1>8. ClaimsApart'
  <2>1. \A v \in Passes : Claimed(v)' => v # w /\ Claimed(v) /\ pass'[v] = pass[v]
    BY <1>2 DEF Claimed
  <2>2. \A v \in Passes : v # w /\ Claimed(v) => pass[v].pair # p
    BY DEF DunningInv, ClaimsApart, p
  <2>3. \A v \in Passes : Claimed(v) => pass[v].pair \in Pairs
    BY PassFields DEF DunningInv, TypeOK, Claimed
  <2> QED BY <1>4, <2>1, <2>2, <2>3 DEF DunningInv, ClaimsApart, May
<1> QED BY <1>3, <1>6, <1>7, <1>8 DEF DunningInv

LEMMA MailStep ==
    ASSUME DunningInv, NEW w \in Passes, QueueMail(w) \/ QueueFails(w)
    PROVE  DunningInv'
<1> DEFINE q == [pc |-> "loop", job |-> pass[w].job, todo |-> pass[w].todo]
<1>1. Claimed(w)
  BY DEF QueueMail, QueueFails, Claimed
<1>2. pass[w] \in [pc : {"claimed"}, job : BOOLEAN, pair : Pairs, todo : SUBSET Pairs]
  BY <1>1, PassFields DEF DunningInv, TypeOK, Claimed
<1>3. q \in PassType /\ q.pc # "claimed"
  BY <1>2 DEF PassType
<1>4. pass' = [pass EXCEPT ![w] = q]
  BY DEF QueueMail, QueueFails, Proceed, Hold
<1> HIDE DEF q
<1>5. /\ tick' \in {"none", "waiting", "active", "kept"}
      /\ UNCHANGED <<dunning, rule, open, logs>>
  BY DEF QueueMail, QueueFails, LogsAfterFailure, DunningInv, TypeOK
<1>6. \/ mails' = [mails EXCEPT ![pass[w].pair] = @ + 1] /\ UNCHANGED lost
      \/ lost' = lost \cup {pass[w].pair} /\ UNCHANGED mails
  BY DEF QueueMail, QueueFails
<1> QED BY <1>1, <1>3, <1>4, <1>5, <1>6, ReleaseStep

LEMMA CrashStep ==
    ASSUME DunningInv, NEW w \in Passes, Crash(w)
    PROVE  DunningInv'
<1>1. /\ Idle \in PassType /\ Idle.pc # "claimed"
      /\ pass' = [pass EXCEPT ![w] = Idle]
      /\ tick' \in {"none", "waiting", "active", "kept"}
      /\ UNCHANGED <<dunning, rule, open, logs, mails>>
  BY DEF PassType, Idle, Crash, Hold, DunningInv, TypeOK
<1>2. CASE Claimed(w)
  <2>1. lost' = lost \cup {pass[w].pair} /\ UNCHANGED mails
    BY <1>2 DEF Crash, Claimed
  <2> QED BY <1>1, <1>2, <2>1, ReleaseStep
<1>3. CASE ~Claimed(w)
  <2>1. UNCHANGED lost
    BY <1>3 DEF Crash, Claimed
  <2> QED BY <1>1, <1>3, <2>1, WanderStep
<1> QED BY <1>2, <1>3

LEMMA StepHolds == DunningInv /\ [Next]_dunningVars => DunningInv'
<1> SUFFICES ASSUME DunningInv, [Next]_dunningVars PROVE DunningInv'
  OBVIOUS
<1>1. CASE UNCHANGED dunningVars
  <2>1. UNCHANGED <<rule, logs, mails, pass, lost>> /\ TypeOK'
    BY <1>1 DEF dunningVars, DunningInv, TypeOK
  <2> QED BY <2>1, QuietStep DEF May
<1>2. CASE Next
  <2>1. ASSUME NEW w \in Passes,
               \/ \E job \in BOOLEAN : Begin(w, job)
               \/ \E p \in Pairs : Claim(w, p) \/ ClaimFails(w, p)
        PROVE  DunningInv'
    BY <2>1, BeginStep, ClaimStep, ClaimFailsStep
  <2>2. ASSUME NEW w \in Passes,
               \/ ReadInvoices(w) \/ QueueMail(w) \/ QueueFails(w)
               \/ Finish(w) \/ Throws(w) \/ Crash(w)
        PROVE  DunningInv'
    BY <2>2, ReadInvoicesStep, MailStep, EndStep, CrashStep
  <2> QED BY <1>2, <2>1, <2>2, RuleStep, OutsideStep DEF Next
<1> QED BY <1>1, <1>2

LEMMA DunningInvariant == Spec => []DunningInv
BY InitHolds, StepHolds, PTL DEF Spec

\* The composition runs dunning as Dunning specifies it, so what follows holds of both
THEOREM ServicesRunDunning == ServicesSpec => Spec
<1>1. ServicesInit => Init
  BY DEF ServicesInit
<1>2. [ServicesNext]_vars => [Next]_dunningVars
  BY DEF ServicesNext, vars, CampaignSteps, DunningSteps, SequenceSteps, OutreachRests
<1> QED BY <1>1, <1>2, PTL DEF ServicesSpec, Spec

\* The rows, the jobs and what each pass holds keep their form.
THEOREM TypeCorrect == Spec => []TypeOK
<1>1. DunningInv => TypeOK
  BY DEF DunningInv
<1> QED BY <1>1, DunningInvariant, PTL

\* A given reminder goes out at most once.
THEOREM RemindersOnce == Spec => []ReminderOnce
<1>1. DunningInv => ReminderOnce
  BY DEF DunningInv
<1> QED BY <1>1, DunningInvariant, PTL

\* A claim is worth its email unless a failure or a deleted rule cost it.
THEOREM ClaimsAreMailed == Spec => []ClaimIsMailed
<1>1. DunningInv => ClaimIsMailed
  BY DEF DunningInv
<1> QED BY <1>1, DunningInvariant, PTL

--------------------------------------------------------------------------------
(* Dunning implements OnceOnly *)

MayBe == {p \in Pairs : p \notin logs /\ rule[p[2]] # "deleted"}

LEMMA InHandIs == InHand = {pass[w].pair : w \in {v \in Passes : Claimed(v)}}
BY DEF InHand, Claimed

\* A step that moves no claim and sends nothing is at most a withdrawal
LEMMA NothingTaken ==
    ASSUME DunningInv, InHand' = InHand, UNCHANGED mails,
           \A p \in Pairs : May(p)' => May(p)
    PROVE  Once!Next
<1>1. MayBe' \in SUBSET MayBe
  BY DEF MayBe, May
<1>2. Once!Withdraw
  BY <1>1 DEF Once!Withdraw, MayBe
<1> QED BY <1>2 DEF Once!Next

LEMMA InHandStays ==
    ASSUME DunningInv, NEW w \in Passes, NEW q \in PassType,
           pass' = [pass EXCEPT ![w] = q], q.pc # "claimed", ~Claimed(w)
    PROVE  InHand' = InHand
<1>1. \A v \in Passes : pass'[v] = IF v = w THEN q ELSE pass[v]
  BY DEF DunningInv, TypeOK
<1>2. {v \in Passes : pass'[v].pc = "claimed"} = {v \in Passes : pass[v].pc = "claimed"}
  BY <1>1 DEF Claimed
<1> QED BY <1>1, <1>2 DEF InHand, Claimed

\* The pass that held a pair was the only one to hold it
LEMMA LetGo ==
    ASSUME DunningInv, NEW w \in Passes, Claimed(w), NEW q \in PassType, q.pc # "claimed",
           pass' = [pass EXCEPT ![w] = q]
    PROVE  /\ pass[w].pair \in Pairs /\ pass[w].pair \in InHand
           /\ InHand' = InHand \ {pass[w].pair}
<1>1. pass[w].pair \in Pairs
  BY PassFields DEF DunningInv, TypeOK, Claimed
<1>2. \A v \in Passes : pass'[v] = IF v = w THEN q ELSE pass[v]
  BY DEF DunningInv, TypeOK
<1>3. \A v \in Passes : v # w /\ Claimed(v) => pass[v].pair # pass[w].pair
  BY DEF DunningInv, ClaimsApart
<1> QED BY <1>1, <1>2, <1>3 DEF InHand, Claimed

LEMMA ClaimTakes ==
    ASSUME DunningInv, NEW w \in Passes, NEW p \in Pairs, Claim(w, p)
    PROVE  Once!Take(p)
<1> DEFINE q == [pc |-> "claimed", job |-> pass[w].job, pair |-> p,
                 todo |-> pass[w].todo \ {p}]
<1>1. q.pc = "claimed" /\ q.pair = p /\ pass[w].pc = "loop"
  BY DEF Claim
<1> HIDE DEF q
<1>2. \A v \in Passes : pass'[v] = IF v = w THEN q ELSE pass[v]
  BY DEF Claim, Hold, q, DunningInv, TypeOK
<1>3. InHand' = InHand \cup {p}
  BY <1>1, <1>2 DEF InHand
<1>4. May(p) /\ logs' = logs \cup {p} /\ rule' = rule /\ mails' = mails
  BY DEF Claim, Claimable, May
<1>5. p \in MayBe /\ MayBe' = MayBe \ {p}
  BY <1>4 DEF MayBe, May
<1> QED BY <1>3, <1>4, <1>5 DEF Once!Take, MayBe

LEMMA MailSends ==
    ASSUME DunningInv, NEW w \in Passes, QueueMail(w) \/ QueueFails(w)
    PROVE  Once!Next
<1> DEFINE q == [pc |-> "loop", job |-> pass[w].job, todo |-> pass[w].todo]
           p == pass[w].pair
<1>1. Claimed(w)
  BY DEF QueueMail, QueueFails, Claimed
<1>2. pass[w] \in [pc : {"claimed"}, job : BOOLEAN, pair : Pairs, todo : SUBSET Pairs]
  BY <1>1, PassFields DEF DunningInv, TypeOK, Claimed
<1>3. q \in PassType /\ q.pc # "claimed"
  BY <1>2 DEF PassType
<1>4. pass' = [pass EXCEPT ![w] = q]
  BY DEF QueueMail, QueueFails, Proceed, Hold
<1> HIDE DEF q
<1>5. p \in Pairs /\ p \in InHand /\ InHand' = InHand \ {p}
  BY <1>1, <1>3, <1>4, LetGo
<1>6. MayBe' = MayBe
  BY DEF QueueMail, QueueFails, LogsAfterFailure, MayBe
<1>7. mails' = [mails EXCEPT ![p] = @ + 1] \/ mails' = mails
  BY DEF QueueMail, QueueFails
<1> HIDE DEF p
<1>8. Once!Send(p) \/ Once!Lose(p)
  BY <1>5, <1>6, <1>7 DEF Once!Send, Once!Lose, MayBe
<1> QED BY <1>5, <1>8 DEF Once!Next

LEMMA CrashLoses ==
    ASSUME DunningInv, NEW w \in Passes, Crash(w)
    PROVE  Once!Next
<1>1. /\ Idle \in PassType /\ Idle.pc # "claimed"
      /\ pass' = [pass EXCEPT ![w] = Idle]
      /\ UNCHANGED <<rule, logs, mails>>
  BY DEF PassType, Idle, Crash, Hold
<1>2. CASE Claimed(w)
  <2>1. /\ pass[w].pair \in Pairs /\ pass[w].pair \in InHand
        /\ InHand' = InHand \ {pass[w].pair}
    BY <1>1, <1>2, LetGo
  <2>2. MayBe' = MayBe
    BY <1>1 DEF MayBe
  <2>3. Once!Lose(pass[w].pair)
    BY <1>1, <2>1, <2>2 DEF Once!Lose, MayBe
  <2> QED BY <2>1, <2>3 DEF Once!Next
<1>3. CASE ~Claimed(w)
  <2>1. InHand' = InHand
    BY <1>1, <1>3, InHandStays
  <2> QED BY <1>1, <2>1, NothingTaken DEF May
<1> QED BY <1>2, <1>3

\* Settings, rules, invoices and jobs
LEMMA QuietWithdraws ==
    ASSUME DunningInv,
           \/ UpdateSettings \/ Cron \/ Evict
           \/ \E r \in Rules : CreateRule(r) \/ UpdateRule(r) \/ DeleteRule(r)
           \/ \E i \in Invoices : InvoiceMoves(i)
    PROVE  Once!Next
<1>1. UNCHANGED <<mails, pass>>
  BY DEF UpdateSettings, Cron, Evict, CreateRule, UpdateRule, DeleteRule, InvoiceMoves
<1>2. InHand' = InHand
  BY <1>1 DEF InHand
<1>3. \A p \in Pairs : May(p)' => May(p)
  BY PairType DEF DunningInv, TypeOK, May, UpdateSettings, Cron, Evict, CreateRule,
                  UpdateRule, DeleteRule, InvoiceMoves
<1> QED BY <1>1, <1>2, <1>3, NothingTaken

\* A pass that begins, reads, skips a pair or ends
LEMMA WanderingTakesNothing ==
    ASSUME DunningInv, NEW w \in Passes,
           \/ \E job \in BOOLEAN : Begin(w, job)
           \/ \E p \in Pairs : ClaimFails(w, p)
           \/ ReadInvoices(w) \/ Finish(w) \/ Throws(w)
    PROVE  Once!Next
<1>1. /\ ~Claimed(w) /\ UNCHANGED <<rule, logs, mails>>
      /\ \A v \in Passes : v # w => pass'[v] = pass[v]
  BY DEF Begin, ClaimFails, ReadInvoices, Finish, Throws, Ends, Hold, Claimed, Idle,
         DunningInv, TypeOK
<1>2. ~Claimed(w)'
  <2>1. pass \in [Passes -> PassType] /\ pass[w].pc # "claimed"
    BY <1>1 DEF DunningInv, TypeOK, Claimed
  <2>2. ASSUME NEW job \in BOOLEAN, Begin(w, job)
        PROVE  pass'[w].pc # "claimed"
    BY <2>1, <2>2 DEF Begin, Hold
  <2>3. ASSUME NEW p \in Pairs, ClaimFails(w, p)
        PROVE  pass'[w].pc # "claimed"
    <3>1. pass[w] \in [pc : {"loop"}, job : BOOLEAN, todo : SUBSET Pairs]
      BY <2>1, <2>3, PassFields DEF ClaimFails
    <3>2. pass'[w] = [pass[w] EXCEPT !.todo = @ \ {p}]
      BY <2>1, <2>3 DEF ClaimFails, Hold
    <3> QED BY <3>1, <3>2
  <2>4. CASE ReadInvoices(w)
    BY <2>1, <2>4 DEF ReadInvoices, Hold, Claimed
  <2>5. CASE Finish(w) \/ Throws(w)
    BY <2>1, <2>5 DEF Finish, Throws, Ends, Hold, Idle, Claimed
  <2> QED BY <2>2, <2>3, <2>4, <2>5 DEF Claimed
<1>3. InHand' = InHand
  <2>1. \A v \in Passes : /\ Claimed(v)' <=> Claimed(v)
                          /\ Claimed(v) => pass'[v] = pass[v]
    BY <1>1, <1>2 DEF Claimed
  <2> QED BY <2>1 DEF InHand, Claimed
<1> QED BY <1>1, <1>3, NothingTaken DEF May

LEMMA StepImplements == DunningInv /\ [Next]_dunningVars => [Once!Next]_Once!onceVars
<1> SUFFICES ASSUME DunningInv, [Next]_dunningVars PROVE [Once!Next]_Once!onceVars
  OBVIOUS
<1>1. CASE UNCHANGED dunningVars
  BY <1>1 DEF dunningVars, Once!onceVars, InHand
<1>2. CASE Next
  <2>1. ASSUME NEW w \in Passes, NEW p \in Pairs, Claim(w, p)
        PROVE  Once!Next
    BY <2>1, ClaimTakes DEF Once!Next
  <2>2. ASSUME NEW w \in Passes, QueueMail(w) \/ QueueFails(w) \/ Crash(w)
        PROVE  Once!Next
    BY <2>2, MailSends, CrashLoses
  <2> QED BY <1>2, <2>1, <2>2, QuietWithdraws, WanderingTakesNothing DEF Next
<1> QED BY <1>1, <1>2

LEMMA InitImplements == Init => Once!Init
<1> SUFFICES ASSUME Init PROVE Once!Init
  OBVIOUS
<1>1. MayBe = Pairs
  BY PairType DEF Init, MayBe
<1>2. InHand = {}
  BY DEF Init, InHand, Idle
<1> QED BY <1>1, <1>2 DEF Init, Once!Init, MayBe

\* The reminders of overlapping passes, with their rules, failures and crashes, are an
\* at-most-once service: the refinement that FiresAtMostOnce checks, for every instance.
THEOREM ImplementsOnceOnly == Spec => FiresAtMostOnce
BY InitImplements, StepImplements, DunningInvariant, PTL
   DEF Spec, FiresAtMostOnce, Once!Spec

================================================================================
