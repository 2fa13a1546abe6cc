-------------------------------- MODULE Proposals --------------------------------
(***************************************************************************)
(* One proposal and its signatures: proposals/proposals.service.ts and     *)
(* signatures/signatures.service.ts.                                       *)
(*                                                                         *)
(* Statuses are read in one statement and written in another.  A viewed    *)
(* proposal gets a placeholder row; signing and revoking work on the       *)
(* newest row that is not revoked, then on the proposal, each in a         *)
(* statement of its own.                                                   *)
(***************************************************************************)
EXTENDS Integers, Sequences, FiniteSets

CONSTANTS Requests,      \* requests in progress
          MaxRows,       \* bound on signature rows
          MaxMeetings,   \* bound on requests that begin beside another
          MaxCut         \* bound on requests cut off half way

VARIABLES
    proposal,    \* status, signed (signedAt is set)
    signatures,  \* the rows in the order of createdAt: kind, revoked
    request,     \* what each request holds
    clicked,     \* history: signedAt was last set by accept(), which makes no row
    meetings,    \* history: requests that began beside another
    cut          \* history: requests cut off between their writes

proposalVars == <<proposal, signatures, request, clicked, meetings, cut>>

Missing   == [status |-> "none", signed |-> FALSE]
NoRequest == [pc |-> "idle"]

Init ==
    /\ proposal = Missing /\ signatures = <<>> /\ clicked = FALSE
    /\ request = [q \in Requests |-> NoRequest]
    /\ meetings = 0 /\ cut = 0

There == proposal.status \notin {"none", "deleted"}

Begins(q, call) ==
    LET beside == \E r \in Requests : request[r] # NoRequest IN
    /\ request[q] = NoRequest
    /\ beside => meetings < MaxMeetings
    /\ meetings' = IF beside THEN meetings + 1 ELSE meetings
    /\ request' = [request EXCEPT ![q] = call]

Goes(q, call) == request' = [request EXCEPT ![q] = call]
Ends(q) == Goes(q, NoRequest)

--------------------------------------------------------------------------------
(* The proposal *)

Create ==
    /\ proposal = Missing
    /\ proposal' = [proposal EXCEPT !.status = "draft"]
    /\ UNCHANGED <<signatures, request, clicked, meetings, cut>>

\* updateStatus and bulkUpdateStatus: any status over any other, signedAt left as it is
UpdateStatus ==
    /\ There
    /\ \E s \in {"draft", "sent", "open", "revising", "declined", "accepted"} :
         proposal' = [proposal EXCEPT !.status = s]
    /\ UNCHANGED <<signatures, request, clicked, meetings, cut>>

\* send, delete, and the client's opening, accepting and declining
From(call) ==
    CASE call = "send"   -> {"draft", "revising", "sent"}
      [] call = "delete" -> {"draft"}
      [] call = "open"   -> {"sent"}
      [] OTHER           -> {"sent", "open"}

To(call) ==
    CASE call = "send"   -> "sent"
      [] call = "delete" -> "deleted"
      [] call = "open"   -> "open"
      [] call = "accept" -> "accepted"
      [] OTHER           -> "declined"

MoveRead(q) ==
    /\ \E call \in {"send", "delete", "open", "accept", "decline"} :
         /\ proposal.status \in From(call)
         /\ Begins(q, [pc |-> "move", call |-> call])
    /\ UNCHANGED <<proposal, signatures, clicked, cut>>

MoveWrite(q) ==
    LET call == request[q].call IN
    /\ request[q].pc = "move"
    /\ IF There
         THEN /\ proposal' = [status |-> To(call),
                              signed |-> proposal.signed \/ call = "accept"]
              /\ clicked' = (clicked \/ call = "accept")
         ELSE UNCHANGED <<proposal, clicked>>
    /\ Ends(q)
    /\ UNCHANGED <<signatures, meetings, cut>>

--------------------------------------------------------------------------------
(* Signatures *)

Active == {n \in 1 .. Len(signatures) : ~signatures[n].revoked}

\* findActiveSignatureRow
Newest == CHOOSE n \in Active : \A k \in Active : k <= n

Row(kind) == [kind |-> kind, revoked |-> FALSE]

SignRead(q) ==
    /\ proposal.status \in {"sent", "open"}
    /\ Begins(q, [pc |-> "sign"])
    /\ UNCHANGED <<proposal, signatures, clicked, cut>>

\* A fresh row, always: a placeholder has the epoch as its signedAt, which is no null
SignRow(q) ==
    /\ request[q].pc = "sign" /\ Len(signatures) < MaxRows
    /\ signatures' = Append(signatures, Row("signature"))
    /\ Goes(q, [pc |-> "signed"])
    /\ UNCHANGED <<proposal, clicked, meetings, cut>>

SignDocument(q) ==
    /\ request[q].pc = "signed"
    /\ IF There
         THEN proposal' = [status |-> "accepted", signed |-> TRUE] /\ clicked' = FALSE
         ELSE UNCHANGED <<proposal, clicked>>
    /\ Ends(q)
    /\ UNCHANGED <<signatures, meetings, cut>>

\* trackView: the audit trail of the newest row, or a placeholder
ViewRead(q) ==
    /\ There /\ Active = {}
    /\ Begins(q, [pc |-> "view"])
    /\ UNCHANGED <<proposal, signatures, clicked, cut>>

ViewRow(q) ==
    /\ request[q].pc = "view" /\ Len(signatures) < MaxRows
    /\ signatures' = Append(signatures, Row("placeholder"))
    /\ Ends(q)
    /\ UNCHANGED <<proposal, clicked, meetings, cut>>

RevokeRead(q) ==
    /\ Active # {}
    /\ Begins(q, [pc |-> "revoke", row |-> Newest])
    /\ UNCHANGED <<proposal, signatures, clicked, cut>>

RevokeRow(q) ==
    /\ request[q].pc = "revoke"
    /\ signatures' = [signatures EXCEPT ![request[q].row].revoked = TRUE]
    /\ Goes(q, [pc |-> "revoked"])
    /\ UNCHANGED <<proposal, clicked, meetings, cut>>

\* Mutant: the status alone goes back
RevertedHalf == [proposal EXCEPT !.status = "sent"]

\* revertDocumentForRevocation
Reverted == [status |-> "sent", signed |-> FALSE]

RevokeDocument(q) ==
    /\ request[q].pc = "revoked"
    /\ IF There THEN proposal' = Reverted /\ clicked' = FALSE
       ELSE UNCHANGED <<proposal, clicked>>
    /\ Ends(q)
    /\ UNCHANGED <<signatures, meetings, cut>>

\* A statement fails or the process dies; what was written stays
Fails(q) ==
    /\ request[q] # NoRequest
    /\ LET half == request[q].pc \in {"signed", "revoked"} IN
       /\ half => cut < MaxCut
       /\ cut' = IF half THEN cut + 1 ELSE cut
    /\ Ends(q)
    /\ UNCHANGED <<proposal, signatures, clicked, meetings>>

--------------------------------------------------------------------------------
Next ==
    \/ Create \/ UpdateStatus
    \/ \E q \in Requests : \/ MoveRead(q) \/ MoveWrite(q)
                           \/ SignRead(q) \/ SignRow(q) \/ SignDocument(q)
                           \/ ViewRead(q) \/ ViewRow(q)
                           \/ RevokeRead(q) \/ RevokeRow(q) \/ RevokeDocument(q)
                           \/ Fails(q)

Spec == Init /\ [][Next]_proposalVars

--------------------------------------------------------------------------------
(* Properties *)

RequestType ==
    {NoRequest} \cup [pc : {"sign", "signed", "view", "revoked"}]
                \cup [pc : {"move"}, call : {"send", "delete", "open", "accept", "decline"}]
                \cup [pc : {"revoke"}, row : 1 .. MaxRows]

TypeOK ==
    /\ proposal \in [status : {"none", "draft", "sent", "open", "revising", "declined",
                               "accepted", "deleted"}, signed : BOOLEAN]
    /\ signatures \in Seq([kind : {"placeholder", "signature"}, revoked : BOOLEAN])
    /\ Len(signatures) <= MaxRows
    /\ request \in [Requests -> RequestType]
    /\ clicked \in BOOLEAN /\ meetings \in 0 .. MaxMeetings /\ cut \in 0 .. MaxCut

\* A proposal that is signed has a signature that holds, and it is the row revoke() and
\* the PDF take: the newest one that is not revoked.  Views, status changes, signing and
\* revoking again keep it so; requests that overlap or are cut off may not, and the
\* "Accept" click sets signedAt without a row.
SignedIsCovered ==
    There /\ proposal.signed /\ ~clicked /\ meetings = 0 /\ cut = 0 =>
        \/ \E q \in Requests : request[q].pc = "revoked"
        \/ Active # {} /\ signatures[Newest].kind = "signature"

\* "If a placeholder Signature exists (from `track-view`), reuse it; else create new": while
\* requests come one after the other, a document has one row that is not revoked.
OneActiveRow == meetings = 0 => Cardinality(Active) <= 1

================================================================================
