---------------------------- MODULE ApprovalsProofs ----------------------------
(***************************************************************************)
(* Proofs about Approvals, for any processes, chains, requests and calls:  *)
(* the decisions kept of a request match where it stands, and an approved  *)
(* request was approved by every step of a chain nobody replaced.          *)
(***************************************************************************)
EXTENDS Approvals, TLAPS

LEMMA ChainType ==
    ASSUME NEW chain \in Chains
    PROVE  /\ DOMAIN chain \subseteq Orders
           /\ \A o \in DOMAIN chain : chain[o] \in Approvers
BY ChainsAssumption

\* An order is a number
LEMMA OrderType == \A o \in Orders : o \in Nat
BY OrdersAssumption

--------------------------------------------------------------------------------
(* A call that has only read, and one that ends without a write *)

LEMMA CallStep ==
    ASSUME ApprovalsInv, NEW w \in Workers, NEW c \in CallType,
           worker' = [worker EXCEPT ![w] = c], ReadHolds(c),
           UNCHANGED <<process, steps, request, decisions, edited>>
    PROVE  ApprovalsInv'
<1>1. TypeOK'
  BY DEF ApprovalsInv, TypeOK, Exists
<1>2. AuditMatches' /\ ApprovedByEveryStep' /\ StandsOnChain'
  BY DEF ApprovalsInv, AuditMatches, ApprovedByEveryStep, StandsOnChain, Walked,
         ApprovedAt, Made, Exists
<1>3. ASSUME NEW v \in Workers PROVE ReadHolds(worker[v])'
  <2>1. worker'[v] = IF v = w THEN c ELSE worker[v]
    BY DEF ApprovalsInv, TypeOK
  <2>2. ReadHolds(worker'[v])
    BY <2>1 DEF ApprovalsInv
  <2> QED BY <2>2 DEF ReadHolds, Made, KeyFree
<1> QED BY <1>1, <1>2, <1>3 DEF ApprovalsInv

LEMMA IdleHolds == Idle \in CallType /\ ReadHolds(Idle)
BY DEF Idle, CallType, ReadHolds

LEMMA AbandonStep ==
    ASSUME ApprovalsInv, NEW w \in Workers, Abandon(w)
    PROVE  ApprovalsInv'
BY CallStep, IdleHolds DEF Abandon, Done

LEMMA CreateReadStep ==
    ASSUME ApprovalsInv, NEW w \in Workers, NEW p \in Processes, NEW o \in Orders,
           CreateRead(w, p, o)
    PROVE  ApprovalsInv'
<1> DEFINE c == [pc |-> "create", process |-> p, first |-> o, chain |-> steps[p]]
<1>1. steps[p] \in Chains
  BY DEF ApprovalsInv, TypeOK, CreateRead, Exists
<1>2. c \in CallType
  BY <1>1 DEF CallType
<1>3. ReadHolds(c)
  BY DEF CreateRead, ReadHolds
<1> QED BY <1>2, <1>3, CallStep DEF CreateRead, Continue

LEMMA CancelReadStep ==
    ASSUME ApprovalsInv, NEW w \in Workers, NEW r \in Requests, CancelRead(w, r)
    PROVE  ApprovalsInv'
<1> DEFINE c == [pc |-> "cancel", request |-> r]
<1>1. c \in CallType
  BY DEF CallType
<1>2. ReadHolds(c)
  BY DEF CancelRead, ReadHolds
<1> QED BY <1>1, <1>2, CallStep DEF CancelRead, Continue

LEMMA DecideReadStep ==
    ASSUME ApprovalsInv, NEW w \in Workers, NEW r \in Requests, NEW u \in Users,
           NEW verdict \in Verdicts, DecideRead(w, r, u, verdict)
    PROVE  ApprovalsInv'
<1> DEFINE c == [pc |-> "decide", request |-> r, step |-> request[r].current,
                 chain |-> steps[request[r].process], by |-> u, verdict |-> verdict]
<1>1. Made(r) /\ MayDecide(u, request[r].current, steps[request[r].process])
  BY DEF DecideRead
<1>2. request[r] \in RequestRow
  BY <1>1 DEF ApprovalsInv, TypeOK, Made
<1>3. steps[request[r].process] \in Chains
  <2>1. steps[request[r].process] \in Chains \cup {NoSteps}
    BY <1>2 DEF ApprovalsInv, TypeOK, RequestRow
  <2>2. steps[request[r].process] # NoSteps
    BY <1>1 DEF MayDecide, NoSteps
  <2> QED BY <2>1, <2>2
<1>4. c \in CallType
  BY <1>2, <1>3 DEF CallType, RequestRow
<1>5. ReadHolds(c)
  BY <1>1 DEF ReadHolds
<1> QED BY <1>4, <1>5, CallStep DEF DecideRead, Continue

--------------------------------------------------------------------------------
(* Decisions *)

\* What a call that may write its decision knows: the key is free, so the request
\* still stands at the step that was read
LEMMA DecideFacts ==
    ASSUME ApprovalsInv, NEW w \in Workers, worker[w].pc = "decide",
           KeyFree(worker[w].request, worker[w].step)
    PROVE  LET d == worker[w]
               r == d.request IN
           /\ r \in Requests /\ Made(r) /\ request[r] \in RequestRow
           /\ d.step = request[r].current /\ d.step \in Nat
           /\ d.chain \in Chains /\ MayDecide(d.by, d.step, d.chain)
           /\ d.by \in Users /\ d.verdict \in Verdicts
           /\ r \notin edited => d.chain = steps[request[r].process]
<1> DEFINE d == worker[w]
<1>1. d \in [pc : {"decide"}, request : Requests, step : Orders, chain : Chains,
              by : Users, verdict : Verdicts]
  BY DEF ApprovalsInv, TypeOK, CallType, Idle
<1>2. ReadHolds(d)
  BY DEF ApprovalsInv
<1>3. Made(d.request) /\ d.step = request[d.request].current
  BY <1>2 DEF ReadHolds
<1>4. request[d.request] \in RequestRow
  BY <1>1, <1>3 DEF ApprovalsInv, TypeOK, Made
<1> QED BY <1>1, <1>2, <1>3, <1>4, OrderType DEF ReadHolds

\* Whatever the decision does to the request, types and other calls' reads survive:
\* a call that read the same step finds its key taken
LEMMA DecidedKeeps ==
    ASSUME ApprovalsInv, NEW w \in Workers, worker[w].pc = "decide",
           NEW new \in RequestRow, Decided(w, new),
           new.process = request[worker[w].request].process
    PROVE  TypeOK' /\ \A v \in Workers : ReadHolds(worker[v])'
<1> DEFINE d == worker[w]
           e == [request |-> d.request, step |-> d.step, by |-> d.by,
                 verdict |-> d.verdict]
<1>1. KeyFree(d.request, d.step)
  BY DEF Decided
<1>2. /\ d.request \in Requests /\ Made(d.request)
      /\ d.step = request[d.request].current /\ d.by \in Users /\ d.verdict \in Verdicts
      /\ request[d.request] \in RequestRow
  BY <1>1, DecideFacts
<1>3. /\ decisions' = decisions \cup {e}
      /\ request' = [request EXCEPT ![d.request] = new]
      /\ worker' = [worker EXCEPT ![w] = Idle]
      /\ UNCHANGED <<process, steps, edited>>
  BY DEF Decided, Done
<1>4. e \in [request : Requests, step : Orders, by : Users, verdict : Verdicts]
  BY <1>2 DEF RequestRow
<1>5. request'[d.request] # NoRequest
  BY <1>2, <1>3 DEF RequestRow, NoRequest, Made, Closed, ApprovalsInv, TypeOK
<1>6. TypeOK'
  BY <1>2, <1>3, <1>4, IdleHolds DEF ApprovalsInv, TypeOK, Exists
<1>7. ASSUME NEW v \in Workers PROVE ReadHolds(worker[v])'
  <2>1. CASE v = w
    BY <2>1, <1>3 DEF ReadHolds, Idle, ApprovalsInv, TypeOK
  <2>2. CASE v # w
    <3> DEFINE c == worker[v]
    <3>1. worker'[v] = c /\ ReadHolds(c) /\ c \in CallType
      BY <2>2, <1>3 DEF ApprovalsInv, TypeOK
    <3>2. c.pc \in {"decide", "cancel"} => Made(c.request)'
      BY <3>1, <1>3, <1>5 DEF ReadHolds, Made, CallType, ApprovalsInv, TypeOK
    <3>3. c.pc = "decide" /\ KeyFree(c.request, c.step)'
            => c.step = request'[c.request].current
      <4> SUFFICES ASSUME c.pc = "decide", KeyFree(c.request, c.step)'
                   PROVE  c.step = request'[c.request].current
        OBVIOUS
      <4>1. KeyFree(c.request, c.step) /\ ~(c.request = d.request /\ c.step = d.step)
        <5>1. \A x \in decisions' : x.request = c.request => x.step # c.step
          BY <3>1 DEF KeyFree
        <5>2. e \in decisions' /\ e.request = d.request /\ e.step = d.step
          BY <1>3
        <5>3. \A x \in decisions : x \in decisions'
          BY <1>3
        <5> HIDE DEF e
        <5> QED BY <5>1, <5>2, <5>3 DEF KeyFree
      <4>2. c.step = request[c.request].current
        BY <4>1, <3>1 DEF ReadHolds
      <4>3. c.request # d.request
        BY <4>1, <4>2, <1>2
      <4> QED BY <4>2, <4>3, <1>3 DEF ApprovalsInv, TypeOK
    <3>4. c.pc = "decide" /\ c.request \notin edited
            => c.chain = steps[request'[c.request].process]
      BY <3>1, <1>2, <1>3 DEF ReadHolds, ApprovalsInv, TypeOK
    <3> QED BY <3>1, <3>2, <3>3, <3>4, <1>3 DEF ReadHolds
  <2> QED BY <2>1, <2>2
<1> QED BY <1>6, <1>7

\* The decision e is the first on the step where its request stands; the request keeps
\* its step unless it moves on with an approval
LEMMA DecidedMatches ==
    ASSUME ApprovalsInv, NEW w \in Workers, worker[w].pc = "decide",
           NEW new \in RequestRow, Decided(w, new),
           \/ /\ worker[w].verdict = "approve" /\ new.current > worker[w].step
              /\ new.status \notin {"approved", "rejected"}
           \/ /\ new.current = worker[w].step
              /\ worker[w].verdict = "approve" => new.status = "approved"
              /\ worker[w].verdict = "reject" => new.status = "rejected"
    PROVE  AuditMatches'
<1> DEFINE d == worker[w]
           r == d.request
           e == [request |-> r, step |-> d.step, by |-> d.by, verdict |-> d.verdict]
<1>1. KeyFree(r, d.step)
  BY DEF Decided
<1>2. /\ r \in Requests /\ Made(r) /\ d.step = request[r].current
      /\ d.step \in Nat /\ d.verdict \in Verdicts
  BY <1>1, DecideFacts
<1>3. /\ decisions' = decisions \cup {e}
      /\ request' = [request EXCEPT ![r] = new]
  BY DEF Decided
<1>4. request \in [Requests -> RequestRow \cup {NoRequest}]
  BY DEF ApprovalsInv, TypeOK
<1>5. request'[r] = new /\ \A x \in Requests \ {r} : request'[x] = request[x]
  BY <1>2, <1>3, <1>4
<1>6. new # NoRequest /\ new.current \in Nat
  BY OrderType DEF RequestRow, NoRequest, Closed
<1>7. \A x \in decisions : x.request \in Requests /\ x.step \in Nat
  BY OrderType DEF ApprovalsInv, TypeOK
<1>8. ASSUME NEW x \in decisions'
      PROVE  /\ request'[x.request] # NoRequest
             /\ x.step <= request'[x.request].current
             /\ x.step < request'[x.request].current => x.verdict = "approve"
             /\ x.step = request'[x.request].current =>
                  /\ request'[x.request].status # "pending"
                  /\ request'[x.request].status = "approved" => x.verdict = "approve"
                  /\ request'[x.request].status = "rejected" => x.verdict = "reject"
  <2>1. CASE x = e
    BY <2>1, <1>2, <1>5, <1>6 DEF Verdicts
  <2>2. CASE x \in decisions /\ x.request # r
    <3>1. request'[x.request] = request[x.request]
      BY <2>2, <1>5, <1>7
    <3>2. /\ request[x.request] # NoRequest
          /\ x.step <= request[x.request].current
          /\ x.step < request[x.request].current => x.verdict = "approve"
          /\ x.step = request[x.request].current =>
               /\ request[x.request].status # "pending"
               /\ request[x.request].status = "approved" => x.verdict = "approve"
               /\ request[x.request].status = "rejected" => x.verdict = "reject"
      BY <2>2 DEF ApprovalsInv, AuditMatches, Made
    <3> QED BY <3>1, <3>2
  <2>3. CASE x \in decisions /\ x.request = r
    <3>1. x.step <= d.step /\ x.step # d.step
      BY <2>3, <1>1, <1>2 DEF ApprovalsInv, AuditMatches, KeyFree
    <3>2. x.step < d.step /\ x.verdict = "approve"
      BY <3>1, <2>3, <1>2, <1>7 DEF ApprovalsInv, AuditMatches
    <3>3. x.step < new.current
      BY <3>2, <2>3, <1>2, <1>6, <1>7
    <3>4. request'[x.request] = new
      BY <2>3, <1>5
    <3>5. x.step \in Nat
      BY <2>3, <1>7
    <3> QED BY <3>2, <3>3, <3>4, <3>5, <1>6
  <2>4. x = e \/ x \in decisions
    BY <1>3
  <2> QED BY <2>1, <2>2, <2>3, <2>4, Zenon
<1>9. ASSUME NEW x \in Requests, request'[x].status \in {"approved", "rejected"}
      PROVE  \E y \in decisions' : y.request = x /\ y.step = request'[x].current
  <2>1. CASE x = r
    <3>1. new.current = d.step
      BY <2>1, <1>5, <1>9
    <3>2. e \in decisions' /\ e.request = x /\ e.step = d.step
      BY <2>1, <1>3
    <3>3. request'[x].current = d.step
      BY <3>1, <2>1, <1>5
    <3> HIDE DEF e
    <3> QED BY <3>2, <3>3
  <2>2. CASE x # r
    <3>1. PICK y \in decisions : y.request = x /\ y.step = request[x].current
      BY <2>2, <1>5, <1>9 DEF ApprovalsInv, AuditMatches
    <3> QED BY <3>1, <2>2, <1>3, <1>5
  <2> QED BY <2>1, <2>2
<1> QED BY <1>8, <1>9 DEF AuditMatches, Made

\* Approvals recorded so far stay
LEMMA ApprovalsStay ==
    ASSUME NEW w \in Workers, NEW new, Decided(w, new),
           NEW r \in Requests, NEW o,
           request'[r].process = request[r].process, ApprovedAt(r, o)
    PROVE  ApprovedAt(r, o)'
BY DEF Decided, ApprovedAt

\* The approval that is recorded is one by somebody the step names
LEMMA ApprovalCounts ==
    ASSUME ApprovalsInv, NEW w \in Workers, worker[w].pc = "decide",
           worker[w].verdict = "approve", worker[w].request \notin edited,
           NEW new \in RequestRow, Decided(w, new),
           new.process = request[worker[w].request].process
    PROVE  \A r \in Requests, o \in Orders :
             r = worker[w].request /\ o = worker[w].step => ApprovedAt(r, o)'
<1> DEFINE d == worker[w]
           e == [request |-> d.request, step |-> d.step, by |-> d.by,
                 verdict |-> d.verdict]
<1>1. KeyFree(d.request, d.step)
  BY DEF Decided
<1>2. /\ d.request \in Requests /\ MayDecide(d.by, d.step, d.chain)
      /\ d.chain = steps[request[d.request].process]
  BY <1>1, DecideFacts
<1>3. e \in decisions' /\ steps' = steps /\ request' = [request EXCEPT ![d.request] = new]
  BY DEF Decided
<1>4. request'[d.request].process = request[d.request].process
  BY <1>2, <1>3 DEF ApprovalsInv, TypeOK
<1>5. d.by \in Holders[steps'[request'[d.request].process][d.step]]
  BY <1>2, <1>3, <1>4 DEF MayDecide
<1> SUFFICES ASSUME NEW r \in Requests, NEW o \in Orders, r = d.request, o = d.step
             PROVE  ApprovedAt(r, o)'
  OBVIOUS
<1>6. /\ e.request = r /\ e.step = o /\ e.verdict = "approve"
      /\ e.by \in Holders[steps'[request'[r].process][o]]
  BY <1>5
<1> QED BY <1>3, <1>6 DEF ApprovedAt

\* Requests other than the decided one stand where they stood
LEMMA DecidedWalks ==
    ASSUME ApprovalsInv, NEW w \in Workers, worker[w].pc = "decide",
           NEW new \in RequestRow, Decided(w, new),
           new.process = request[worker[w].request].process,
           \A r \in Requests \ edited : r = worker[w].request =>
             /\ Walked(r)'
             /\ new.status = "approved" =>
                  \A o \in DOMAIN steps[new.process] : ApprovedAt(r, o)'
    PROVE  StandsOnChain' /\ ApprovedByEveryStep'
<1> DEFINE d == worker[w]
<1>1. d.request \in Requests
  BY DecideFacts DEF Decided
<1>2. /\ request' = [request EXCEPT ![d.request] = new]
      /\ UNCHANGED <<process, steps, edited>>
  BY DEF Decided
<1>3. request'[d.request] = new
  BY <1>1, <1>2 DEF ApprovalsInv, TypeOK
<1>4. \A r \in Requests : r # d.request => request'[r] = request[r]
  BY <1>1, <1>2 DEF ApprovalsInv, TypeOK
<1>5. ASSUME NEW r \in Requests \ edited, r # d.request, Made(r)'
      PROVE  Walked(r)'
  <2>1. Walked(r) /\ request'[r] = request[r]
    BY <1>4, <1>5 DEF Made, ApprovalsInv, StandsOnChain
  <2>2. \A o : ApprovedAt(r, o) => ApprovedAt(r, o)'
    BY <2>1, ApprovalsStay
  <2> QED BY <1>2, <2>1, <2>2 DEF Walked, Exists
<1>6. StandsOnChain'
  BY <1>2, <1>5 DEF StandsOnChain
<1>7. ASSUME NEW r \in Requests \ edited, request'[r].status = "approved",
             NEW o \in DOMAIN steps[request'[r].process]
      PROVE  ApprovedAt(r, o)'
  <2>1. CASE r = d.request
    BY <2>1, <1>3, <1>7
  <2>2. CASE r # d.request
    <3>1. request'[r] = request[r] /\ ApprovedAt(r, o)
      BY <2>2, <1>4, <1>7 DEF ApprovalsInv, ApprovedByEveryStep
    <3> QED BY <3>1, ApprovalsStay
  <2> QED BY <2>1, <2>2
<1>8. ApprovedByEveryStep'
  BY <1>2, <1>7 DEF ApprovedByEveryStep
<1> QED BY <1>6, <1>8

LEMMA RejectStep ==
    ASSUME ApprovalsInv, NEW w \in Workers, Reject(w)
    PROVE  ApprovalsInv'
<1> DEFINE d == worker[w]
           new == [request[d.request] EXCEPT !.status = "rejected"]
<1>1. d.pc = "decide" /\ d.verdict = "reject" /\ Decided(w, new)
  BY DEF Reject
<1>2. /\ d.request \in Requests /\ Made(d.request) /\ request[d.request] \in RequestRow
      /\ d.step = request[d.request].current
  BY <1>1, DecideFacts DEF Decided
<1>3. /\ new \in RequestRow /\ new.process = request[d.request].process
      /\ new.current = d.step /\ new.status = "rejected"
  BY <1>2 DEF RequestRow, Closed
<1> HIDE DEF new
<1>4. TypeOK' /\ \A v \in Workers : ReadHolds(worker[v])'
  BY <1>1, <1>3, DecidedKeeps
<1>5. AuditMatches'
  BY <1>1, <1>3, DecidedMatches
<1>6. ASSUME NEW r \in Requests \ edited, r = d.request
      PROVE  Walked(r)'
  <2>1. /\ UNCHANGED <<process, steps>>
        /\ request'[r] = new
    BY <1>1, <1>6, <1>2 DEF Decided, ApprovalsInv, TypeOK
  <2>2. Walked(r)
    BY <1>2, <1>6 DEF ApprovalsInv, StandsOnChain
  <2>3. request'[r].process = request[r].process /\ request'[r].current = request[r].current
    BY <2>1, <1>2, <1>3, <1>6
  <2>4. \A o : ApprovedAt(r, o) => ApprovedAt(r, o)'
    BY <1>1, <2>3, ApprovalsStay
  <2> QED BY <2>1, <2>2, <2>3, <2>4 DEF Walked, Exists
<1>7. StandsOnChain' /\ ApprovedByEveryStep'
  BY <1>1, <1>3, <1>6, DecidedWalks
<1> QED BY <1>4, <1>5, <1>7 DEF ApprovalsInv

\* Neither approved nor rejected: the decision that made it so would hold the key
LEMMA NotYetDecided ==
    ASSUME ApprovalsInv, NEW r \in Requests, KeyFree(r, request[r].current)
    PROVE  request[r].status \notin {"approved", "rejected"}
BY DEF ApprovalsInv, AuditMatches, KeyFree

LEMMA AdvanceStep ==
    ASSUME ApprovalsInv, NEW w \in Workers, NEW x \in Orders, Advance(w, x)
    PROVE  ApprovalsInv'
<1> DEFINE d == worker[w]
           new == [request[d.request] EXCEPT !.current = x]
<1>1. /\ d.pc = "decide" /\ d.verdict = "approve" /\ Decided(w, new)
      /\ IsNext(x, d.step, d.chain) /\ KeyFree(d.request, d.step)
  BY DEF Advance, Decided
<1>2. /\ d.request \in Requests /\ Made(d.request) /\ request[d.request] \in RequestRow
      /\ d.step = request[d.request].current /\ d.step \in Nat /\ d.chain \in Chains
      /\ d.request \notin edited => d.chain = steps[request[d.request].process]
  BY <1>1, DecideFacts
<1>3. /\ new \in RequestRow /\ new.process = request[d.request].process
      /\ new.current = x /\ new.status = request[d.request].status
  BY <1>2 DEF RequestRow
<1>4. new.status \notin {"approved", "rejected"} /\ new.current > d.step
  BY <1>1, <1>2, <1>3, NotYetDecided DEF IsNext
<1> HIDE DEF new
<1>5. TypeOK' /\ \A v \in Workers : ReadHolds(worker[v])'
  BY <1>1, <1>3, DecidedKeeps
<1>6. AuditMatches'
  BY <1>1, <1>3, <1>4, DecidedMatches
<1>7. ASSUME NEW r \in Requests \ edited, r = d.request
      PROVE  Walked(r)'
  <2>1. /\ UNCHANGED <<process, steps>>
        /\ request'[r] = new
    BY <1>1, <1>2, <1>7 DEF Decided, ApprovalsInv, TypeOK
  <2>2. Walked(r)
    BY <1>2, <1>7 DEF ApprovalsInv, StandsOnChain
  <2>3. \A o : ApprovedAt(r, o) => ApprovedAt(r, o)'
    BY <1>1, <1>3, <1>7, <2>1, ApprovalsStay
  <2>4. \A o \in Orders : o = d.step => ApprovedAt(r, o)'
    BY <1>1, <1>2, <1>3, <1>7, ApprovalCounts
  <2>5. d.chain = steps[request[r].process] /\ DOMAIN d.chain \subseteq Nat
    BY <1>2, <1>7, ChainType, OrderType
  <2>6. ASSUME NEW y \in DOMAIN d.chain, y < x
        PROVE  ApprovedAt(r, y)'
    <3>1. y <= d.step
      BY <1>1, <1>2, <2>5, <2>6, OrderType DEF IsNext
    <3>2. CASE y < d.step
      BY <3>2, <1>2, <1>7, <2>2, <2>3, <2>5 DEF Walked
    <3>3. CASE y = d.step
      BY <3>3, <2>4, <2>6, <1>2, ChainType
    <3> QED BY <3>1, <3>2, <3>3, <1>2, <2>5
  <2>7. /\ request'[r].process = request[r].process
        /\ request'[r].current = x
    BY <2>1, <1>3, <1>7
  <2> QED BY <1>1, <2>1, <2>2, <2>5, <2>6, <2>7 DEF Walked, Exists, IsNext
<1>8. StandsOnChain' /\ ApprovedByEveryStep'
  BY <1>1, <1>3, <1>4, <1>7, DecidedWalks
<1> QED BY <1>5, <1>6, <1>8 DEF ApprovalsInv

LEMMA ApproveStep ==
    ASSUME ApprovalsInv, NEW w \in Workers, Approve(w)
    PROVE  ApprovalsInv'
<1> DEFINE d == worker[w]
           new == [request[d.request] EXCEPT !.status = "approved"]
<1>1. /\ d.pc = "decide" /\ d.verdict = "approve" /\ Decided(w, new)
      /\ \A x \in DOMAIN d.chain : x <= d.step
  BY DEF Approve
<1>2. /\ d.request \in Requests /\ Made(d.request) /\ request[d.request] \in RequestRow
      /\ d.step = request[d.request].current /\ d.step \in Nat /\ d.chain \in Chains
      /\ d.request \notin edited => d.chain = steps[request[d.request].process]
  BY <1>1, DecideFacts DEF Decided
<1>3. /\ new \in RequestRow /\ new.process = request[d.request].process
      /\ new.current = d.step /\ new.status = "approved"
  BY <1>2 DEF RequestRow, Closed
<1> HIDE DEF new
<1>4. TypeOK' /\ \A v \in Workers : ReadHolds(worker[v])'
  BY <1>1, <1>3, DecidedKeeps
<1>5. AuditMatches'
  BY <1>1, <1>3, DecidedMatches
<1>6. ASSUME NEW r \in Requests \ edited, r = d.request
      PROVE  Walked(r)' /\ \A o \in DOMAIN steps[new.process] : ApprovedAt(r, o)'
  <2>1. /\ UNCHANGED <<process, steps>>
        /\ request'[r] = new
    BY <1>1, <1>6, <1>2 DEF Decided, ApprovalsInv, TypeOK
  <2>2. Walked(r)
    BY <1>2, <1>6 DEF ApprovalsInv, StandsOnChain
  <2>3. request'[r].process = request[r].process /\ request'[r].current = request[r].current
    BY <2>1, <1>2, <1>3, <1>6
  <2>4. \A o : ApprovedAt(r, o) => ApprovedAt(r, o)'
    BY <1>1, <2>3, ApprovalsStay
  <2>5. \A o \in Orders : o = d.step => ApprovedAt(r, o)'
    BY <1>1, <1>2, <1>3, <1>6, ApprovalCounts
  <2>6. d.chain = steps[request[r].process] /\ DOMAIN d.chain \subseteq Orders
    BY <1>2, <1>6, ChainType
  <2>7. ASSUME NEW o \in DOMAIN d.chain
        PROVE  ApprovedAt(r, o)'
    <3>1. CASE o = d.step
      BY <3>1, <2>5, <2>6
    <3>2. CASE o < d.step
      BY <3>2, <1>2, <1>6, <2>2, <2>4, <2>6 DEF Walked
    <3> QED BY <3>1, <3>2, <1>1, <1>2, <2>6, OrderType
  <2>8. Walked(r)'
    BY <2>1, <2>2, <2>3, <2>4 DEF Walked, Exists
  <2>9. steps[new.process] = d.chain
    BY <1>3, <1>6, <2>6
  <2> QED BY <2>7, <2>8, <2>9
<1>7. StandsOnChain' /\ ApprovedByEveryStep'
  BY <1>1, <1>3, <1>6, DecidedWalks
<1> QED BY <1>4, <1>5, <1>7 DEF ApprovalsInv

--------------------------------------------------------------------------------
(* The other writes *)

LEMMA CancelWriteStep ==
    ASSUME ApprovalsInv, NEW w \in Workers, CancelWrite(w)
    PROVE  ApprovalsInv'
<1> DEFINE t == worker[w].request
<1>1. t \in Requests /\ Made(t)
  <2>1. worker[w].pc = "cancel" /\ worker[w] \in CallType /\ ReadHolds(worker[w])
    BY DEF CancelWrite, ApprovalsInv, TypeOK
  <2>2. worker[w] \in [pc : {"cancel"}, request : Requests]
    BY <2>1 DEF CallType, Idle
  <2> QED BY <2>1, <2>2 DEF ReadHolds
<1>2. request[t] \in RequestRow
  BY <1>1 DEF ApprovalsInv, TypeOK, Made
<1> DEFINE new == [request[t] EXCEPT !.status = "cancelled"]
<1>3. /\ new \in RequestRow /\ new.status = "cancelled"
      /\ new.process = request[t].process /\ new.current = request[t].current
  BY <1>2 DEF RequestRow, Closed
<1>4. /\ request' = [request EXCEPT ![t] = new]
      /\ worker' = [worker EXCEPT ![w] = Idle]
      /\ UNCHANGED <<process, steps, decisions, edited>>
  BY DEF CancelWrite, Done
<1> HIDE DEF new
<1>5. /\ request'[t] = new /\ new # NoRequest
      /\ \A x \in Requests \ {t} : request'[x] = request[x]
  BY <1>1, <1>3, <1>4 DEF ApprovalsInv, TypeOK, RequestRow, NoRequest
<1>6. \A x \in Requests :
        /\ (request'[x] # NoRequest) <=> Made(x)
        /\ Made(x) => /\ request'[x].process = request[x].process
                      /\ request'[x].current = request[x].current
        /\ request'[x].status \in {request[x].status, "cancelled"}
  <2> TAKE x \in Requests
  <2>1. CASE x = t
    <3>1. request'[x] = new /\ request[x] = request[t] /\ Made(x)
      BY <2>1, <1>1, <1>5
    <3> QED BY <3>1, <1>3, <1>5
  <2>2. CASE x # t
    <3>1. request'[x] = request[x]
      BY <2>2, <1>5
    <3> QED BY <3>1 DEF Made
  <2> QED BY <2>1, <2>2
<1>7. TypeOK'
  BY <1>1, <1>3, <1>4, IdleHolds DEF ApprovalsInv, TypeOK, Exists
<1>8. AuditMatches'
  <2>1. ASSUME NEW e \in decisions
        PROVE  /\ request'[e.request] # NoRequest
               /\ request'[e.request].current = request[e.request].current
               /\ request'[e.request].status \in {request[e.request].status, "cancelled"}
               /\ Made(e.request)
    BY <1>6 DEF ApprovalsInv, AuditMatches, TypeOK
  <2>2. ASSUME NEW r \in Requests, request'[r].status \in {"approved", "rejected"}
        PROVE  request[r].status \in {"approved", "rejected"}
               /\ request'[r].current = request[r].current
    BY <1>6, <2>2 DEF Made, NoRequest
  <2> QED BY <1>4, <2>1, <2>2 DEF ApprovalsInv, AuditMatches, Made
<1>9. ASSUME NEW r \in Requests, Made(r)
      PROVE  /\ Walked(r) => Walked(r)'
             /\ \A o : ApprovedAt(r, o) => ApprovedAt(r, o)'
  BY <1>4, <1>6, <1>9 DEF Walked, Exists, ApprovedAt
<1>10. StandsOnChain'
  BY <1>4, <1>6, <1>9 DEF ApprovalsInv, StandsOnChain, Made
<1>11. ApprovedByEveryStep'
  <2>1. ASSUME NEW r \in Requests \ edited, request'[r].status = "approved",
               NEW o \in DOMAIN steps[request'[r].process]
        PROVE  ApprovedAt(r, o)'
    <3>1. request[r].status = "approved" /\ Made(r)
      BY <1>6, <2>1 DEF Made, NoRequest
    <3>2. ApprovedAt(r, o)
      BY <3>1, <1>6, <2>1 DEF ApprovalsInv, ApprovedByEveryStep
    <3> QED BY <3>1, <3>2, <1>9
  <2> QED BY <1>4, <2>1 DEF ApprovedByEveryStep
<1>12. ASSUME NEW v \in Workers PROVE ReadHolds(worker[v])'
  <2>1. CASE v = w
    BY <2>1, <1>4 DEF ReadHolds, Idle, ApprovalsInv, TypeOK
  <2>2. CASE v # w
    <3>1. worker'[v] = worker[v] /\ ReadHolds(worker[v]) /\ worker[v] \in CallType
      BY <2>2, <1>4 DEF ApprovalsInv, TypeOK
    <3>2. worker[v].pc \in {"decide", "cancel"} =>
            worker[v].request \in Requests /\ Made(worker[v].request)
      BY <3>1 DEF ReadHolds, CallType, Idle
    <3> QED BY <3>1, <3>2, <1>4, <1>6 DEF ReadHolds, Made, KeyFree
  <2> QED BY <2>1, <2>2
<1> QED BY <1>7, <1>8, <1>10, <1>11, <1>12 DEF ApprovalsInv

LEMMA CreateWriteStep ==
    ASSUME ApprovalsInv, NEW w \in Workers, NEW r \in Requests, CreateWrite(w, r)
    PROVE  ApprovalsInv'
<1> DEFINE c == worker[w]
           new == [status |-> "pending", process |-> c.process, current |-> c.first]
<1>1. c \in [pc : {"create"}, process : Processes, first : Orders, chain : Chains]
  BY DEF CreateWrite, ApprovalsInv, TypeOK, CallType, Idle
<1>2. /\ ~Made(r) /\ Exists(c.process)
      /\ request' = [request EXCEPT ![r] = new]
      /\ edited' = IF c.chain = steps[c.process] THEN edited ELSE edited \cup {r}
      /\ worker' = [worker EXCEPT ![w] = Idle]
      /\ UNCHANGED <<process, steps, decisions>>
  BY DEF CreateWrite, Done
<1>3. new \in RequestRow /\ new # NoRequest
  BY <1>1 DEF RequestRow, NoRequest
<1>4. request'[r] = new /\ \A x \in Requests \ {r} : request'[x] = request[x]
  BY <1>2 DEF ApprovalsInv, TypeOK
<1>5. edited \subseteq edited' /\ edited' \subseteq edited \cup {r}
  BY <1>2
<1>6. \A e \in decisions : e.request \in Requests \ {r}
  BY <1>2 DEF ApprovalsInv, AuditMatches, TypeOK
<1>7. TypeOK'
  BY <1>2, <1>3, IdleHolds DEF ApprovalsInv, TypeOK, Exists
<1>8. AuditMatches'
  <2>1. ASSUME NEW e \in decisions
        PROVE  request'[e.request] = request[e.request] /\ Made(e.request)
    BY <1>4, <1>6 DEF ApprovalsInv, AuditMatches
  <2>2. ASSUME NEW x \in Requests, request'[x].status \in {"approved", "rejected"}
        PROVE  request'[x] = request[x]
    BY <1>4, <2>2
  <2> QED BY <1>2, <2>1, <2>2 DEF ApprovalsInv, AuditMatches, Made
<1>9. ASSUME NEW x \in Requests \ edited', x # r, Made(x)
      PROVE  /\ Walked(x)' /\ x \notin edited
             /\ \A o : ApprovedAt(x, o) => ApprovedAt(x, o)'
  BY <1>2, <1>4, <1>5, <1>9 DEF ApprovalsInv, StandsOnChain, Walked, Exists, ApprovedAt
<1>10. r \notin edited' => Walked(r)'
  <2> SUFFICES ASSUME r \notin edited' PROVE Walked(r)'
    OBVIOUS
  <2>1. c.chain = steps[c.process]
    BY <1>2
  <2>2. IsFirst(c.first, c.chain)
    BY <1>1 DEF ApprovalsInv, ReadHolds
  <2>3. \A x \in DOMAIN c.chain : ~(x < c.first)
    BY <2>2, <1>1, ChainType, OrderType DEF IsFirst
  <2> QED BY <1>2, <1>4, <2>1, <2>2, <2>3 DEF Walked, Exists, IsFirst
<1>11. StandsOnChain'
  BY <1>4, <1>9, <1>10 DEF StandsOnChain, Made
<1>12. ApprovedByEveryStep'
  <2>1. ASSUME NEW x \in Requests \ edited', request'[x].status = "approved",
               NEW o \in DOMAIN steps[request'[x].process]
        PROVE  ApprovedAt(x, o)'
    <3>1. x # r /\ request'[x] = request[x] /\ Made(x)
      BY <1>4, <2>1 DEF Made, NoRequest
    <3>2. x \notin edited /\ \A y : ApprovedAt(x, y) => ApprovedAt(x, y)'
      BY <3>1, <2>1, <1>9
    <3> QED BY <3>1, <3>2, <2>1 DEF ApprovalsInv, ApprovedByEveryStep
  <2> QED BY <1>2, <2>1 DEF ApprovedByEveryStep
<1>13. ASSUME NEW v \in Workers PROVE ReadHolds(worker[v])'
  <2>1. CASE v = w
    BY <2>1, <1>2 DEF ReadHolds, Idle, ApprovalsInv, TypeOK
  <2>2. CASE v # w
    <3>1. worker'[v] = worker[v] /\ ReadHolds(worker[v]) /\ worker[v] \in CallType
      BY <2>2, <1>2 DEF ApprovalsInv, TypeOK
    <3>2. worker[v].pc \in {"decide", "cancel"} =>
            /\ Made(worker[v].request)
            /\ request'[worker[v].request] = request[worker[v].request]
      BY <3>1, <1>2, <1>4 DEF ReadHolds, CallType, Idle
    <3> QED BY <3>1, <3>2, <1>2, <1>5 DEF ReadHolds, Made, KeyFree
  <2> QED BY <2>1, <2>2
<1> QED BY <1>7, <1>8, <1>11, <1>12, <1>13 DEF ApprovalsInv

\* Nobody walks the chain of a process that is created, edited or removed: requests
\* that are not edited keep their process and its steps
LEMMA AdministerStep ==
    ASSUME ApprovalsInv, NEW p \in Processes, Administer(p)
    PROVE  ApprovalsInv'
<1>1. UNCHANGED <<request, decisions, worker>> /\ edited \subseteq edited'
  BY DEF Administer, ProcessCreate, ProcessUpdate, ProcessRemove
<1>2. TypeOK'
  <2>1. CASE ProcessCreate(p)
    BY <2>1, <1>1 DEF ProcessCreate, ApprovalsInv, TypeOK, Exists
  <2>2. CASE ProcessUpdate(p)
    BY <2>2, <1>1 DEF ProcessUpdate, ApprovalsInv, TypeOK, Exists, On
  <2>3. CASE ProcessRemove(p)
    BY <2>3, <1>1 DEF ProcessRemove, ApprovalsInv, TypeOK, Exists
  <2> QED BY <2>1, <2>2, <2>3 DEF Administer
<1>3. AuditMatches'
  BY <1>1 DEF ApprovalsInv, AuditMatches, Made
<1>4. ASSUME NEW r \in Requests \ edited', Made(r)
      PROVE  /\ r \notin edited
             /\ Exists(request[r].process) /\ Exists(request[r].process)'
             /\ steps'[request[r].process] = steps[request[r].process]
  <2>1. r \notin edited /\ Exists(request[r].process) /\ request[r] \in RequestRow
    BY <1>1, <1>4 DEF ApprovalsInv, StandsOnChain, Walked, TypeOK, Made
  <2>2. request[r].process \in Processes
    BY <2>1 DEF RequestRow
  <2>3. CASE ProcessCreate(p)
    BY <1>1, <2>1, <2>2, <2>3 DEF ProcessCreate, Exists, ApprovalsInv, TypeOK
  <2>4. CASE ProcessUpdate(p)
    BY <1>1, <1>4, <2>1, <2>2, <2>4 DEF ProcessUpdate, Exists, On, ApprovalsInv, TypeOK
  <2>5. CASE ProcessRemove(p)
    BY <1>1, <1>4, <2>1, <2>2, <2>5 DEF ProcessRemove, Exists, On, ApprovalsInv, TypeOK
  <2> QED BY <2>1, <2>3, <2>4, <2>5 DEF Administer
<1>5. \A r \in Requests \ edited' : \A o :
        Made(r) /\ ApprovedAt(r, o) => ApprovedAt(r, o)'
  BY <1>1, <1>4 DEF ApprovedAt
<1>6. StandsOnChain'
  BY <1>1, <1>4, <1>5 DEF ApprovalsInv, StandsOnChain, Walked, Made
<1>7. ApprovedByEveryStep'
  <2>1. ASSUME NEW r \in Requests \ edited', request[r].status = "approved",
               NEW o \in DOMAIN steps'[request[r].process]
        PROVE  ApprovedAt(r, o)'
    <3>1. Made(r)
      BY <2>1 DEF Made, NoRequest
    <3> QED BY <3>1, <1>4, <1>5, <2>1 DEF ApprovalsInv, ApprovedByEveryStep
  <2> QED BY <1>1, <2>1 DEF ApprovedByEveryStep
<1>8. ASSUME NEW v \in Workers PROVE ReadHolds(worker[v])'
  <2>1. ReadHolds(worker[v]) /\ worker[v] \in CallType
    BY DEF ApprovalsInv, TypeOK
  <2>2. worker[v].pc = "decide" => worker[v].request \in Requests
    BY <2>1 DEF CallType, Idle
  <2> QED BY <1>1, <1>4, <2>1, <2>2 DEF ReadHolds, Made, KeyFree
<1> QED BY <1>2, <1>3, <1>6, <1>7, <1>8 DEF ApprovalsInv

--------------------------------------------------------------------------------
(* The invariant *)

LEMMA Initially == Init => ApprovalsInv
<1> SUFFICES ASSUME Init PROVE ApprovalsInv
  OBVIOUS
<1>1. /\ \A p \in Processes : process[p] = "none" /\ steps[p] = NoSteps
      /\ \A r \in Requests : request[r] = NoRequest
      /\ \A w \in Workers : worker[w] = Idle
      /\ decisions = {} /\ edited = {}
  BY DEF Init
<1>2. TypeOK
  BY IdleHolds DEF Init, TypeOK, Exists
<1>3. AuditMatches /\ ApprovedByEveryStep /\ StandsOnChain
  BY <1>1 DEF AuditMatches, ApprovedByEveryStep, StandsOnChain, Made, NoRequest
<1>4. \A w \in Workers : ReadHolds(worker[w])
  BY <1>1, IdleHolds
<1> QED BY <1>2, <1>3, <1>4 DEF ApprovalsInv

LEMMA CallPreserves ==
    ASSUME ApprovalsInv, NEW w \in Workers, Call(w)
    PROVE  ApprovalsInv'
<1>1. CASE \E p \in Processes, o \in Orders : CreateRead(w, p, o)
  BY <1>1, CreateReadStep
<1>2. CASE \E r \in Requests : CreateWrite(w, r) \/ CancelRead(w, r)
  BY <1>2, CreateWriteStep, CancelReadStep
<1>3. CASE \E r \in Requests, u \in Users, v \in Verdicts : DecideRead(w, r, u, v)
  BY <1>3, DecideReadStep
<1>4. CASE Reject(w) \/ Approve(w) \/ CancelWrite(w)
  BY <1>4, RejectStep, ApproveStep, CancelWriteStep
<1>5. CASE \E x \in Orders : Advance(w, x)
  BY <1>5, AdvanceStep
<1>6. CASE Abandon(w)
  BY <1>6, AbandonStep
<1> QED BY <1>1, <1>2, <1>3, <1>4, <1>5, <1>6 DEF Call

LEMMA Stutter == ApprovalsInv /\ UNCHANGED vars => ApprovalsInv'
<1> SUFFICES ASSUME ApprovalsInv, UNCHANGED vars PROVE ApprovalsInv'
  OBVIOUS
<1>1. TypeOK' /\ AuditMatches'
  BY DEF ApprovalsInv, vars, TypeOK, AuditMatches, Exists, Made
<1>2. ApprovedByEveryStep' /\ StandsOnChain'
  BY DEF ApprovalsInv, vars, ApprovedByEveryStep, StandsOnChain, Walked, ApprovedAt,
         Made, Exists
<1>3. \A w \in Workers : ReadHolds(worker[w])'
  BY DEF ApprovalsInv, vars, ReadHolds, Made, KeyFree
<1> QED BY <1>1, <1>2, <1>3 DEF ApprovalsInv

\* However decisions, cancellations and edits of the chain overlap, decisions match the
\* walk, unedited requests stand on their chain, and reads are good for their writes.
THEOREM ApprovalsInvariant == Spec => []ApprovalsInv
<1>1. Init => ApprovalsInv
  BY Initially
<1>2. ApprovalsInv /\ [Next]_vars => ApprovalsInv'
  BY CallPreserves, AdministerStep, Stutter DEF Next
<1> QED BY <1>1, <1>2, PTL DEF Spec

\* Tables and calls keep their types.
THEOREM TypeInvariant == Spec => []TypeOK
<1>1. ApprovalsInv => TypeOK
  BY DEF ApprovalsInv
<1> QED BY <1>1, ApprovalsInvariant, PTL

\* decide(): the chain never advances, and no request is approved or rejected, without
\* the decision row that says so, and no row is there that the request does not show.
THEOREM AuditInvariant == Spec => []AuditMatches
<1>1. ApprovalsInv => AuditMatches
  BY DEF ApprovalsInv
<1> QED BY <1>1, ApprovalsInvariant, PTL

\* An approved request whose chain was not replaced was approved at every step, by a
\* user the step names.
THEOREM ApprovedInvariant == Spec => []ApprovedByEveryStep
<1>1. ApprovalsInv => ApprovedByEveryStep
  BY DEF ApprovalsInv
<1> QED BY <1>1, ApprovalsInvariant, PTL

--------------------------------------------------------------------------------
(* Steps *)

\* A request that moves is the one decided, and its approval is new
LEMMA AdvanceIsRecorded ==
    ASSUME ApprovalsInv, NEW w \in Workers, NEW x \in Orders, Advance(w, x),
           NEW r \in Requests, request'[r].current # request[r].current
    PROVE  /\ request'[r].current > request[r].current
           /\ \E e \in decisions' \ decisions :
                e.request = r /\ e.step = request[r].current /\ e.verdict = "approve"
<1> DEFINE d == worker[w]
           e == [request |-> d.request, step |-> d.step, by |-> d.by,
                 verdict |-> d.verdict]
<1>1. /\ d.pc = "decide" /\ d.verdict = "approve" /\ KeyFree(d.request, d.step)
      /\ x > d.step /\ decisions' = decisions \cup {e}
      /\ request' = [request EXCEPT ![d.request] = [request[d.request] EXCEPT !.current = x]]
  BY DEF Advance, Decided, IsNext
<1>2. /\ d.request \in Requests /\ d.step = request[d.request].current
      /\ request[d.request] \in RequestRow
  BY <1>1, DecideFacts
<1>3. r = d.request
  BY <1>1, <1>2 DEF ApprovalsInv, TypeOK
<1>4. request'[r].current = x
  BY <1>1, <1>2, <1>3 DEF ApprovalsInv, TypeOK, RequestRow
<1>5. e.request = r /\ e.step = request[r].current /\ e.verdict = "approve"
  BY <1>1, <1>2, <1>3
<1>6. e \in decisions' /\ e \notin decisions
  BY <1>1, <1>2, <1>3, <1>5 DEF KeyFree
<1> HIDE DEF e
<1> QED BY <1>1, <1>2, <1>3, <1>4, <1>5, <1>6

\* Every other step leaves every request where it stands
LEMMA OthersStay ==
    ASSUME ApprovalsInv, NEW w \in Workers, NEW r \in Requests, Made(r),
           \/ Reject(w) \/ Approve(w) \/ CancelWrite(w) \/ Abandon(w)
           \/ \E x \in Requests : CreateWrite(w, x)
    PROVE  request'[r].current = request[r].current
<1>1. request[r] \in RequestRow /\ request \in [Requests -> RequestRow \cup {NoRequest}]
  BY DEF ApprovalsInv, TypeOK, Made
<1>2. CASE Reject(w) \/ Approve(w)
  BY <1>1, <1>2 DEF Reject, Approve, Decided, RequestRow
<1>3. CASE CancelWrite(w)
  BY <1>1, <1>3 DEF CancelWrite, RequestRow
<1>4. CASE Abandon(w) \/ \E x \in Requests : CreateWrite(w, x)
  BY <1>1, <1>4 DEF Abandon, CreateWrite, Made
<1> QED BY <1>2, <1>3, <1>4

\* A request moves only forward, and only with a new approval of the step it leaves.
THEOREM AdvanceNeedsApproval == Spec => ChainAdvances
<1> DEFINE Moves(r) ==
      Made(r) /\ request'[r].current # request[r].current =>
        /\ request'[r].current > request[r].current
        /\ \E d \in decisions' \ decisions :
             d.request = r /\ d.step = request[r].current /\ d.verdict = "approve"
<1>1. ApprovalsInv /\ [Next]_vars => [\A r \in Requests : Moves(r)]_vars
  <2> SUFFICES ASSUME ApprovalsInv, Next, NEW r \in Requests, Made(r),
                      request'[r].current # request[r].current
               PROVE  Moves(r)
    OBVIOUS
  <2>1. ~UNCHANGED request
    OBVIOUS
  <2>2. PICK w \in Workers : Call(w)
    BY <2>1 DEF Next, Administer, ProcessCreate, ProcessUpdate, ProcessRemove
  <2>3. \E x \in Orders : Advance(w, x)
    BY <2>1, <2>2, OthersStay DEF Call, CreateRead, CancelRead, DecideRead
  <2> QED BY <2>3, AdvanceIsRecorded
<1> QED BY <1>1, ApprovalsInvariant, PTL DEF Spec, ChainAdvances

================================================================================
