---------------------------------- MODULE Calls ----------------------------------
(***************************************************************************)
(* Click-to-call and the call log: calls/calls.service.ts.                 *)
(*                                                                         *)
(* A dial counts the rows of the last minute, has Twilio place the call,   *)
(* and only then inserts the row that Twilio's callbacks look for.  A      *)
(* callback reads the row in one transaction, updates it in another and,   *)
(* for a completed call, writes the timeline in a third.  Every call here  *)
(* belongs to a lead or a client: the others have no timeline.             *)
(***************************************************************************)
EXTENDS Integers, FiniteSets

CONSTANTS CallIds,
          Servers,      \* requests in progress
          MaxDials,     \* MAX_DIALS_PER_MINUTE
          MaxBeside,    \* bound on requests that begin beside another
          MaxAnswered,  \* bound on calls of which Twilio sends callbacks
          MaxMishaps     \* bound on callbacks delivered again, failures and deletions

VARIABLES
    row,       \* CallIds -> status and where the duration comes from; a duration of 0 is
               \* "none" until the call completes and "zero" since
    line,      \* CallIds -> what Twilio did: "none", "placed", "ringing" or how it ended
    wire,      \* callbacks under way: pairs of call and message
    server,    \* what each request holds
    minute,    \* rows created in the last minute
    placed,    \* history: calls Twilio placed in the last minute
    timeline,  \* CallIds -> activities written
    unseen,    \* history: placed calls whose row was not inserted, or was deleted
    astray,    \* history: calls with a callback that failed, found no row or came out of turn
    unwritten, \* history: calls whose activity could not be written
    beside,    \* history: requests that began beside another
    mishaps     \* history: callbacks delivered again, failed requests and deleted rows

callVars == <<row, line, wire, server, minute, placed, timeline, unseen, astray, unwritten,
              beside, mishaps>>

NoRow    == [status |-> "none", duration |-> "none"]
Waiting  == [pc |-> "idle"]
Endings  == {"completed", "busy"}
Messages == Endings \cup {"ringing", "recording"}

Init ==
    /\ row = [c \in CallIds |-> NoRow]
    /\ line = [c \in CallIds |-> "none"]
    /\ wire = {} /\ minute = {} /\ placed = {}
    /\ server = [s \in Servers |-> Waiting]
    /\ timeline = [c \in CallIds |-> 0]
    /\ unseen = {} /\ astray = {} /\ unwritten = {}
    /\ beside = 0 /\ mishaps = 0

There(c) == row[c].status \notin {"none", "deleted"}

Goes(s, call) == server' = [server EXCEPT ![s] = call]
Returns(s)    == Goes(s, Waiting)

Begins(s, call) ==
    LET other == \E t \in Servers : server[t] # Waiting IN
    /\ server[s] = Waiting
    /\ other => beside < MaxBeside
    /\ beside' = IF other THEN beside + 1 ELSE beside
    /\ Goes(s, call)

--------------------------------------------------------------------------------
(* dial() *)

\* Mutant: one more than the limit
MayDialOneMore == Cardinality(minute) <= MaxDials

\* Every row counts, logged ones too
MayDial == Cardinality(minute) < MaxDials

DialCount(s) ==
    /\ MayDial
    /\ Begins(s, [pc |-> "dial"])
    /\ UNCHANGED <<row, line, wire, minute, placed, timeline, unseen, astray, unwritten,
                   mishaps>>

\* client.calls.create()
DialPlace(s, c) ==
    /\ server[s].pc = "dial"
    /\ line[c] = "none" /\ row[c].status = "none"
    /\ line' = [line EXCEPT ![c] = "placed"]
    /\ placed' = placed \cup {c}
    /\ Goes(s, [pc |-> "row", call |-> c])
    /\ UNCHANGED <<row, wire, minute, timeline, unseen, astray, unwritten, beside, mishaps>>

DialRow(s) ==
    LET c == server[s].call IN
    /\ server[s].pc = "row"
    /\ row' = [row EXCEPT ![c].status = "queued"]
    /\ minute' = minute \cup {c}
    /\ Returns(s)
    /\ UNCHANGED <<line, wire, placed, timeline, unseen, astray, unwritten, beside, mishaps>>

--------------------------------------------------------------------------------
(* People: logCall(), update() and remove() *)

\* The row; its activity is a second transaction
LogCall(s, c) ==
    /\ line[c] = "none" /\ row[c].status = "none"
    /\ row' = [row EXCEPT ![c].status = "logged"]
    /\ minute' = minute \cup {c}
    /\ Begins(s, [pc |-> "activity", call |-> c])
    /\ UNCHANGED <<line, wire, placed, timeline, unseen, astray, unwritten, mishaps>>

Zeroed(c) == IF row[c].status = "completed" THEN "zero" ELSE "none"

\* The duration as somebody corrects it, which may be to 0
Update(c) ==
    /\ There(c)
    /\ \E duration \in {"edited", Zeroed(c)} :
         row' = [row EXCEPT ![c].duration = duration]
    /\ UNCHANGED <<line, wire, server, minute, placed, timeline, unseen, astray, unwritten,
                   beside, mishaps>>

Remove(c) ==
    /\ There(c)
    /\ mishaps < MaxMishaps /\ mishaps' = mishaps + 1
    /\ row' = [row EXCEPT ![c] = [status |-> "deleted", duration |-> "none"]]
    /\ minute' = minute \ {c}
    /\ unseen' = unseen \cup ({c} \cap placed)
    /\ UNCHANGED <<line, wire, server, placed, timeline, astray, unwritten, beside>>

--------------------------------------------------------------------------------
(* Twilio, and the clock *)

\* "ringing" stands for every status before the end, "busy" for every end but "completed"
Rings(c) ==
    /\ line[c] = "placed"
    /\ Cardinality({d \in CallIds : line[d] \notin {"none", "placed"}}) < MaxAnswered
    /\ line' = [line EXCEPT ![c] = "ringing"]
    /\ wire' = wire \cup {<<c, "ringing">>}
    /\ UNCHANGED <<row, server, minute, placed, timeline, unseen, astray, unwritten, beside,
                   mishaps>>

\* A completed call has a recording as well
HangsUp(c) ==
    /\ line[c] = "ringing"
    /\ \E how \in Endings :
         /\ line' = [line EXCEPT ![c] = how]
         /\ wire' = wire \cup {<<c, how>>}
                         \cup (IF how = "completed" THEN {<<c, "recording">>} ELSE {})
    /\ UNCHANGED <<row, server, minute, placed, timeline, unseen, astray, unwritten, beside,
                   mishaps>>

\* A call leaves the minute before its row does, which is younger
MinutePasses(c) ==
    /\ \/ c \in placed /\ placed' = placed \ {c} /\ UNCHANGED minute
       \/ c \in minute \ placed /\ minute' = minute \ {c} /\ UNCHANGED placed
    /\ UNCHANGED <<row, line, wire, server, timeline, unseen, astray, unwritten, beside,
                   mishaps>>

--------------------------------------------------------------------------------
(* handleStatusCallback() and handleRecordingCallback() *)

\* An earlier message of the call is not dealt with yet
Early(c, m) ==
    \/ m # "ringing" /\ <<c, "ringing">> \in wire
    \/ m = "recording" /\ <<c, "completed">> \in wire
    \/ \E s \in Servers : server[s].pc = "callback" /\ server[s].call = c

\* The row is looked up by the call's sid.  The message may come once more.
CallbackRead(s, c, m) ==
    /\ <<c, m>> \in wire
    /\ \/ wire' = wire \ {<<c, m>>} /\ UNCHANGED mishaps
       \/ mishaps < MaxMishaps /\ mishaps' = mishaps + 1 /\ UNCHANGED wire
    /\ IF There(c)
         THEN Begins(s, [pc |-> "callback", call |-> c, says |-> m,
                         duration |-> row[c].duration])
         ELSE server[s] = Waiting /\ UNCHANGED <<server, beside>>
    /\ astray' = IF ~There(c) \/ Early(c, m) \/ wire' = wire THEN astray \cup {c} ELSE astray
    /\ UNCHANGED <<row, line, minute, placed, timeline, unseen, unwritten>>

\* Only where there was no duration, that is when the row was read: "filled" if that was since
\* the call completed
Recorded(s) ==
    CASE server[s].duration = "none" -> "recording"
      [] server[s].duration = "zero" -> "filled"
      [] OTHER                       -> row[server[s].call].duration

\* CallDuration comes with the end of the call, and may be 0 or missing; a recording has a
\* length
Durations(s) ==
    LET told == server[s].says
        old  == row[server[s].call].duration IN
    CASE told = "ringing"   -> {old}
      [] told = "completed" -> {"call", "zero"} \cup ({old} \ {"none"})
      [] told = "busy"      -> {"none", old}
      [] told = "recording" -> {Recorded(s)}

Told(s, duration) ==
    [status   |-> IF server[s].says = "recording" THEN row[server[s].call].status
                  ELSE server[s].says,
     duration |-> duration]

\* Mutant: the end of any call
CompletesAnyhow(s) == server[s].says \in Endings

Completes(s) == server[s].says = "completed"

\* The update of a row that was deleted meanwhile throws
CallbackWrite(s) ==
    LET c == server[s].call IN
    /\ server[s].pc = "callback"
    /\ IF There(c)
         THEN \E duration \in Durations(s) : row' = [row EXCEPT ![c] = Told(s, duration)]
         ELSE UNCHANGED row
    /\ IF There(c) /\ Completes(s) THEN Goes(s, [pc |-> "activity", call |-> c])
       ELSE Returns(s)
    /\ UNCHANGED <<line, wire, minute, placed, timeline, unseen, astray, unwritten, beside,
                   mishaps>>

\* writeTimelineActivity()
Activity(s) ==
    /\ server[s].pc = "activity"
    /\ timeline' = [timeline EXCEPT ![server[s].call] = @ + 1]
    /\ Returns(s)
    /\ UNCHANGED <<row, line, wire, minute, placed, unseen, astray, unwritten, beside, mishaps>>

\* A query fails, the process dies, or Twilio does not place the call
Fails(s) ==
    LET r == server[s] IN
    /\ r # Waiting
    /\ mishaps < MaxMishaps /\ mishaps' = mishaps + 1
    /\ unseen'    = IF r.pc = "row" THEN unseen \cup {r.call} ELSE unseen
    /\ astray'    = IF r.pc = "callback" THEN astray \cup {r.call} ELSE astray
    /\ unwritten' = IF r.pc = "activity" THEN unwritten \cup {r.call} ELSE unwritten
    /\ Returns(s)
    /\ UNCHANGED <<row, line, wire, minute, placed, timeline, beside>>

--------------------------------------------------------------------------------
Next ==
    \/ \E c \in CallIds : Update(c) \/ Remove(c) \/ Rings(c) \/ HangsUp(c) \/ MinutePasses(c)
    \/ \E s \in Servers : \/ DialCount(s) \/ DialRow(s)
                          \/ CallbackWrite(s) \/ Activity(s) \/ Fails(s)
    \/ \E s \in Servers, c \in CallIds : DialPlace(s, c) \/ LogCall(s, c)
    \/ \E s \in Servers, c \in CallIds, m \in Messages : CallbackRead(s, c, m)

Spec == Init /\ [][Next]_callVars

--------------------------------------------------------------------------------
(* Properties *)

DurationType == {"none", "zero", "call", "edited", "recording", "filled"}

ServerType ==
    [pc : {"idle", "dial"}] \cup [pc : {"row", "activity"}, call : CallIds]
    \cup [pc : {"callback"}, call : CallIds, says : Messages, duration : DurationType]

TypeOK ==
    /\ row \in [CallIds ->
                  [status : {"none", "deleted", "logged", "queued", "ringing"} \cup Endings,
                   duration : DurationType]]
    /\ line \in [CallIds -> {"none", "placed", "ringing"} \cup Endings]
    /\ wire \subseteq CallIds \X Messages
    /\ server \in [Servers -> ServerType]
    /\ timeline \in [CallIds -> Nat]
    /\ UNION {minute, placed, unseen, astray, unwritten} \subseteq CallIds
    /\ beside \in 0 .. MaxBeside /\ mishaps \in 0 .. MaxMishaps

\* "Cap dials by counting Call rows created in the last 60s": within a minute Twilio places
\* no more calls than that, and one more only for a dial that began beside another request
\* and for a call whose row is missing, because its insert failed or somebody deleted it.
DialsBounded == Cardinality(placed) <= MaxDials + beside + Cardinality(unseen)

InHand(c) ==
    \E s \in Servers : server[s].pc \in {"row", "callback", "activity"} /\ server[s].call = c

\* "When a call is LOGGED or a click-to-call COMPLETES we write an activities row", and no
\* other time: a row that says so has its entry, or somebody is writing it, or that write
\* failed; an entry comes twice only of a callback that does.  Once the callbacks of a call
\* have come, each in its turn and after the row, the row says how the call ended, and
\* the length of the call, unless Twilio or somebody made it 0, is not replaced by that of
\* the recording.
CallLeavesTrace ==
    \A c \in CallIds :
        /\ row[c].status \in {"logged", "completed"} =>
             timeline[c] > 0 \/ InHand(c) \/ c \in unwritten
        /\ timeline[c] <= 1 + mishaps
        /\ timeline[c] > 0 => line[c] \in {"none", "completed"}
        /\ /\ line[c] \in Endings /\ c \notin astray /\ There(c) /\ ~InHand(c)
           /\ wire \cap ({c} \X Messages) = {}
           => /\ row[c].status = line[c]
              /\ line[c] = "completed" =>
                     row[c].duration \notin {"none", "recording"}

================================================================================
