------------------------------- MODULE Approvals -------------------------------
(***************************************************************************)
(* Approval chains: approvals/approval-processes.service.ts and            *)
(* approval-requests.service.ts.                                           *)
(*                                                                         *)
(* A process is a chain of steps in ascending order, each with an approver *)
(* (a user, a role or the requester's manager).  A request walks the chain *)
(* of its process, one decision per step.  decide(), cancel() and create() *)
(* read first and write later under READ COMMITTED, while administrators   *)
(* replace the chain.  Nothing but the unique key of approval_decisions on *)
(* (requestId, stepOrder) holds two decisions apart.                       *)
(***************************************************************************)
EXTENDS Integers

CONSTANTS Workers,    \* API calls in progress at one time
          Processes,  \* ids of approval_processes
          Requests,   \* ids of approval_requests
          Orders,     \* the orders steps may have
          Users,
          Approvers,  \* what a step may name: users, roles, the manager
          Holders,    \* who may decide for each: nobody, yet, for the manager
          Chains      \* the chains an administrator may define: order -> approver

ASSUME OrdersAssumption == Orders \subseteq Nat
ASSUME HoldersAssumption == Holders \in [Approvers -> SUBSET Users]

\* validateSteps(): at least one step, and no order twice
ASSUME ChainsAssumption ==
    Chains \subseteq UNION {[O -> Approvers] : O \in (SUBSET Orders) \ {{}}}

NoSteps == [o \in {} |-> 0]

Verdicts == {"approve", "reject"}
Closed   == {"approved", "rejected", "cancelled"}

NoRequest == [status |-> "none"]

VARIABLES
    process,   \* Processes -> "none" | "active" | "inactive" | "removed"
    steps,     \* approval_steps: order -> approver, for each process
    request,   \* approval_requests: a row by id, or NoRequest
    decisions, \* approval_decisions
    worker,    \* what each call has read and is about to write
    edited     \* history: requests whose chain was replaced under them

vars == <<process, steps, request, decisions, worker, edited>>

Idle == [pc |-> "idle"]

Init ==
    /\ process = [p \in Processes |-> "none"]
    /\ steps = [p \in Processes |-> NoSteps]
    /\ request = [r \in Requests |-> NoRequest]
    /\ decisions = {}
    /\ worker = [w \in Workers |-> Idle]
    /\ edited = {}

\* Mutant: a removed process is still found
ExistsForever(p) == process[p] # "none"

Exists(p) == process[p] \in {"active", "inactive"}
Made(r)   == request[r] # NoRequest

On(p) == {r \in Requests : Made(r) /\ request[r].process = p}

Done(w)        == worker' = [worker EXCEPT ![w] = Idle]
Continue(w, r) == worker' = [worker EXCEPT ![w] = r]

--------------------------------------------------------------------------------
(* approval-processes.service: create, update, remove; one transaction each, and
   the checks before them are made again inside *)

ProcessCreate(p) ==
    /\ process[p] = "none"
    /\ \E s \in {"active", "inactive"} : process' = [process EXCEPT ![p] = s]
    /\ \E chain \in Chains : steps' = [steps EXCEPT ![p] = chain]
    /\ UNCHANGED <<request, decisions, worker, edited>>

\* Any of the fields; the steps are deleted and inserted as a whole
ProcessUpdate(p) ==
    /\ Exists(p)
    /\ \E s \in {"active", "inactive"} : process' = [process EXCEPT ![p] = s]
    /\ \E chain \in Chains \cup {steps[p]} :
         /\ steps' = [steps EXCEPT ![p] = chain]
         /\ edited' = IF chain = steps[p] THEN edited ELSE edited \cup On(p)
    /\ UNCHANGED <<request, decisions, worker>>

\* Refused while any request names the process, by the counts or the foreign key
ProcessRemove(p) ==
    /\ Exists(p) /\ On(p) = {}
    /\ process' = [process EXCEPT ![p] = "removed"]
    /\ steps' = [steps EXCEPT ![p] = NoSteps]
    /\ UNCHANGED <<request, decisions, worker, edited>>

--------------------------------------------------------------------------------
(* approval-requests.service *)

IsFirst(o, chain) == o \in DOMAIN chain /\ \A x \in DOMAIN chain : o <= x

CreateRead(w, p, o) ==
    /\ worker[w] = Idle
    /\ process[p] = "active" /\ IsFirst(o, steps[p])
    /\ Continue(w, [pc |-> "create", process |-> p, first |-> o, chain |-> steps[p]])
    /\ UNCHANGED <<process, steps, request, decisions, edited>>

\* The foreign key refuses a process removed since; one deactivated or edited since
\* gets its request
CreateWrite(w, r) ==
    LET c == worker[w] IN
    /\ c.pc = "create" /\ ~Made(r) /\ Exists(c.process)
    /\ request' = [request EXCEPT ![r] =
                     [status |-> "pending", process |-> c.process, current |-> c.first]]
    /\ edited' = IF c.chain = steps[c.process] THEN edited ELSE edited \cup {r}
    /\ Done(w)
    /\ UNCHANGED <<process, steps, decisions>>

\* Mutant: anybody may decide
MayDecideAnyone(u, o, chain) == o \in DOMAIN chain

MayDecide(u, o, chain) == o \in DOMAIN chain /\ u \in Holders[chain[o]]

\* The request with its chain, and who the user is
DecideRead(w, r, u, verdict) ==
    /\ worker[w] = Idle
    /\ Made(r) /\ request[r].status = "pending"
    /\ MayDecide(u, request[r].current, steps[request[r].process])
    /\ Continue(w, [pc |-> "decide", request |-> r, step |-> request[r].current,
                    chain |-> steps[request[r].process], by |-> u, verdict |-> verdict])
    /\ UNCHANGED <<process, steps, request, decisions, edited>>

\* Mutant: no unique key
KeyFreeAlways(r, o) == TRUE

\* The unique key on (requestId, stepOrder)
KeyFree(r, o) == \A d \in decisions : d.request = r => d.step # o

\* Mutant: the steps are not taken in their order
IsNextAny(x, o, chain) == x \in DOMAIN chain /\ x # o

\* The next step is the first with a greater order
IsNext(x, o, chain) ==
    x \in DOMAIN chain /\ x > o /\ \A y \in DOMAIN chain : y > o => x <= y

\* Decision and request in one transaction; the status is not looked at again
Decided(w, new) ==
    LET d == worker[w] IN
    /\ KeyFree(d.request, d.step)
    /\ decisions' = decisions \cup {[request |-> d.request, step |-> d.step,
                                     by |-> d.by, verdict |-> d.verdict]}
    /\ request' = [request EXCEPT ![d.request] = new]
    /\ Done(w)
    /\ UNCHANGED <<process, steps, edited>>

\* One reject anywhere in the chain kills the request
Reject(w) ==
    LET d == worker[w] IN
    /\ d.pc = "decide" /\ d.verdict = "reject"
    /\ Decided(w, [request[d.request] EXCEPT !.status = "rejected"])

Advance(w, x) ==
    LET d == worker[w] IN
    /\ d.pc = "decide" /\ d.verdict = "approve"
    /\ IsNext(x, d.step, d.chain)
    /\ Decided(w, [request[d.request] EXCEPT !.current = x])

Approve(w) ==
    LET d == worker[w] IN
    /\ d.pc = "decide" /\ d.verdict = "approve"
    /\ \A x \in DOMAIN d.chain : x <= d.step
    /\ Decided(w, [request[d.request] EXCEPT !.status = "approved"])

\* The requester takes the request back
CancelRead(w, r) ==
    /\ worker[w] = Idle /\ Made(r) /\ request[r].status = "pending"
    /\ Continue(w, [pc |-> "cancel", request |-> r])
    /\ UNCHANGED <<process, steps, request, decisions, edited>>

CancelWrite(w) ==
    /\ worker[w].pc = "cancel"
    /\ request' = [request EXCEPT ![worker[w].request].status = "cancelled"]
    /\ Done(w)
    /\ UNCHANGED <<process, steps, decisions, edited>>

\* A conflict (P2002), a missing row, an error or a crash: nothing is written
Abandon(w) ==
    /\ worker[w] # Idle
    /\ Done(w)
    /\ UNCHANGED <<process, steps, request, decisions, edited>>

--------------------------------------------------------------------------------
Call(w) ==
    \/ \E p \in Processes, o \in Orders : CreateRead(w, p, o)
    \/ \E r \in Requests : CreateWrite(w, r) \/ CancelRead(w, r)
    \/ \E r \in Requests, u \in Users, v \in Verdicts : DecideRead(w, r, u, v)
    \/ Reject(w) \/ Approve(w) \/ CancelWrite(w)
    \/ \E x \in Orders : Advance(w, x)
    \/ Abandon(w)

Administer(p) == ProcessCreate(p) \/ ProcessUpdate(p) \/ ProcessRemove(p)

Next == (\E w \in Workers : Call(w)) \/ (\E p \in Processes : Administer(p))

Spec == Init /\ [][Next]_vars

--------------------------------------------------------------------------------
(* Properties *)

RequestRow == [status : {"pending"} \cup Closed, process : Processes, current : Orders]

CallType ==
    {Idle}
      \cup [pc : {"create"}, process : Processes, first : Orders, chain : Chains]
      \cup [pc : {"decide"}, request : Requests, step : Orders, chain : Chains,
            by : Users, verdict : Verdicts]
      \cup [pc : {"cancel"}, request : Requests]

TypeOK ==
    /\ process \in [Processes -> {"none", "active", "inactive", "removed"}]
    /\ steps \in [Processes -> Chains \cup {NoSteps}]
    /\ \A p \in Processes : Exists(p) => steps[p] \in Chains
    /\ request \in [Requests -> RequestRow \cup {NoRequest}]
    /\ decisions \subseteq [request : Requests, step : Orders, by : Users,
                            verdict : Verdicts]
    /\ worker \in [Workers -> CallType]
    /\ edited \subseteq Requests

\* "The chain can never advance without a matching decision row (and vice-versa)":
\* whatever decisions, cancellations and edits overlap, a request has left behind only
\* steps that were approved, nobody has decided a step it has not reached, a pending
\* request has no decision on its step, and an approved or rejected one has that very
\* decision on the step it stands at.
AuditMatches ==
    /\ \A d \in decisions :
         /\ Made(d.request) /\ d.step <= request[d.request].current
         /\ d.step < request[d.request].current => d.verdict = "approve"
         /\ d.step = request[d.request].current =>
              /\ request[d.request].status # "pending"
              /\ request[d.request].status = "approved" => d.verdict = "approve"
              /\ request[d.request].status = "rejected" => d.verdict = "reject"
    /\ \A r \in Requests :
         request[r].status \in {"approved", "rejected"} =>
           \E d \in decisions : d.request = r /\ d.step = request[r].current

ApprovedAt(r, o) ==
    \E d \in decisions : /\ d.request = r /\ d.step = o /\ d.verdict = "approve"
                         /\ d.by \in Holders[steps[request[r].process][o]]

\* A request is approved only when every step of its process was approved by somebody
\* that step names; only an edit of the process in the meantime can change this.
ApprovedByEveryStep ==
    \A r \in Requests \ edited :
        request[r].status = "approved" =>
          \A o \in DOMAIN steps[request[r].process] : ApprovedAt(r, o)

\* Why it is so: an unedited request stands at a step of its chain and has passed all
\* the earlier ones; and what a call has read of a step nobody has decided since is
\* still so.
Walked(r) ==
    LET o == request[r].current
        chain == steps[request[r].process] IN
    /\ Exists(request[r].process)
    /\ o \in DOMAIN chain
    /\ \A x \in DOMAIN chain : x < o => ApprovedAt(r, x)

StandsOnChain == \A r \in Requests \ edited : Made(r) => Walked(r)

ReadHolds(c) ==
    /\ c.pc = "create" => IsFirst(c.first, c.chain)
    /\ c.pc \in {"decide", "cancel"} => Made(c.request)
    /\ c.pc = "decide" =>
         /\ KeyFree(c.request, c.step) => c.step = request[c.request].current
         /\ MayDecide(c.by, c.step, c.chain)
         /\ c.request \notin edited => c.chain = steps[request[c.request].process]

ApprovalsInv ==
    /\ TypeOK /\ AuditMatches /\ ApprovedByEveryStep /\ StandsOnChain
    /\ \A w \in Workers : ReadHolds(worker[w])

\* schema.prisma: "the request can never skip a step" undecided: it moves on only
\* together with an approval of where it stood, and never back.
ChainAdvances ==
    [][\A r \in Requests :
         Made(r) /\ request'[r].current # request[r].current =>
           /\ request'[r].current > request[r].current
           /\ \E d \in decisions' \ decisions :
                d.request = r /\ d.step = request[r].current /\ d.verdict = "approve"]_vars

\* Only pending requests accept decisions, and only pending requests can be cancelled:
\* a closed request stays what it is.
ClosedIsFinal ==
    [][\A r \in Requests :
         request[r].status \in Closed => request'[r].status = request[r].status]_vars

================================================================================
