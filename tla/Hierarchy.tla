-------------------------------- MODULE Hierarchy --------------------------------
(***************************************************************************)
(* The tree of clients and the merging of duplicates:                      *)
(* account-hierarchy.service.ts and mergeClient of dedup.service.ts.       *)
(*                                                                         *)
(* Each call is one READ COMMITTED transaction: it sees the rows that were *)
(* committed, its own writes appear when it commits, and a row it has      *)
(* locked or written makes the others wait.  A call that waits for a lock  *)
(* here has not begun.  Of the records that point at clients there is one  *)
(* invoice; the columns that a merge fills in are left out.                *)
(***************************************************************************)
EXTENDS Integers, FiniteSets

CONSTANTS Editors,   \* requests in progress
          Clients,   \* the clients of an organization
          MaxDepth,  \* MAX_DEPTH: levels below a root
          MaxCalls,  \* bound on calls
          MaxApart   \* bound on calls that begin beside one that holds none of their rows

VARIABLES
    parent,      \* parentClientId of each client, or none
    mergedInto,  \* mergedIntoId of each client, or none
    owner,       \* the client of the invoice
    editor,      \* the transaction of each request
    calls,       \* number of calls begun
    apart,       \* history: calls that began beside one that holds none of their rows
    folded       \* history: a client was merged into one two or more levels below it

treeVars == <<parent, mergedInto, owner, editor, calls, apart, folded>>

Settled == [pc |-> "idle"]

Init ==
    /\ parent = [c \in Clients |-> "none"] /\ mergedInto = [c \in Clients |-> "none"]
    /\ owner \in Clients
    /\ editor = [e \in Editors |-> Settled]
    /\ calls = 0 /\ apart = 0 /\ folded = FALSE

--------------------------------------------------------------------------------
(* The recursive queries *)

\* The row reached from c in n steps along a column that points at clients
Climb(column, c, n) ==
    LET at[k \in 0 .. n] ==
            IF k = 0 THEN c
            ELSE LET before == at[k - 1] IN IF before = "none" THEN "none" ELSE column[before]
    IN at[n]

\* getAncestorsTx: the rows of the chain above c, which stops after MaxDepth of them
Above(c) == {n \in 1 .. MaxDepth : Climb(parent, c, n) \notin {"none", c}}

Ancestors(c) == {Climb(parent, c, n) : n \in Above(c)}

\* getHierarchyTx: the depth of the tree below c, which stops after MaxDepth levels
Below(c) ==
    LET levels == {n \in 0 .. MaxDepth : \E d \in Clients : Climb(parent, d, n) = c}
    IN CHOOSE n \in levels : \A k \in levels : k <= n

--------------------------------------------------------------------------------
(* Transactions *)

\* The rows of clients that a transaction has locked
Rows(e) ==
    CASE editor[e].pc = "link"  -> {editor[e].child, editor[e].under}
      [] editor[e].pc = "moved" -> editor[e].kids
                                   \cup (IF editor[e].freed THEN {editor[e].winner} ELSE {})
      [] OTHER                  -> {}

\* Mutant: rows are read without FOR UPDATE
FreeUnlocked(e, rows) == TRUE

Free(e, rows) == \A f \in Editors \ {e} : Rows(f) \cap rows = {}

Ready(e) == editor[e] = Settled /\ calls < MaxCalls

Begins(e, call, rows) ==
    LET beside == \E f \in Editors \ {e} :
                      /\ editor[f] # Settled
                      /\ {editor[f].pc, call.pc} = {"link"} => Rows(f) \cap rows = {}
    IN /\ beside => apart < MaxApart
       /\ calls' = calls + 1
       /\ apart' = IF beside THEN apart + 1 ELSE apart
       /\ editor' = [editor EXCEPT ![e] = call]

Ends(e) == editor' = [editor EXCEPT ![e] = Settled]

\* setParent() locks both rows, then checks for a cycle and for the depth
SetParentChecks(e) ==
    /\ Ready(e)
    /\ \E child, under \in Clients :
         /\ child # under /\ Free(e, {child, under})
         /\ child \notin Ancestors(under)
         /\ Cardinality(Above(under)) + Below(child) + 1 <= MaxDepth
         /\ Begins(e, [pc |-> "link", child |-> child, under |-> under], {child, under})
    /\ UNCHANGED <<parent, mergedInto, owner, folded>>

SetParentWrites(e) ==
    /\ editor[e].pc = "link"
    /\ parent' = [parent EXCEPT ![editor[e].child] = editor[e].under]
    /\ Ends(e)
    /\ UNCHANGED <<mergedInto, owner, calls, apart, folded>>

UnsetParent(e) ==
    /\ Ready(e)
    /\ \E c \in Clients : Free(e, {c}) /\ parent' = [parent EXCEPT ![c] = "none"]
    /\ calls' = calls + 1
    /\ UNCHANGED <<mergedInto, owner, editor, apart, folded>>

\* Mutant: the winner may itself be merged into another
MergeableInto(winner, loser) == mergedInto[loser] = "none"

Mergeable(winner, loser) == mergedInto[loser] = "none" /\ mergedInto[winner] = "none"

\* mergeClient() reads both rows without a lock
MergeReads(e) ==
    /\ Ready(e)
    /\ \E winner, loser \in Clients :
         /\ winner # loser /\ Mergeable(winner, loser)
         /\ Begins(e, [pc |-> "merge", winner |-> winner, loser |-> loser,
                       freed |-> parent[winner] = loser], {winner, loser})
    /\ UNCHANGED <<parent, mergedInto, owner, folded>>

\* It takes the loser's invoices and children, the winner excepted ...
MergeMoves(e) ==
    LET winner == editor[e].winner
        loser  == editor[e].loser
        kids   == {c \in Clients \ {winner} : parent[c] = loser}
    IN /\ editor[e].pc = "merge"
       /\ Free(e, kids \cup (IF editor[e].freed THEN {winner} ELSE {}))
       /\ owner = loser => \A f \in Editors \ {e} : ~(editor[f].pc = "moved" /\ editor[f].took)
       /\ editor' = [editor EXCEPT ![e] =
              [pc |-> "moved", winner |-> winner, loser |-> loser, freed |-> @.freed,
               kids |-> kids, took |-> owner = loser]]
       /\ UNCHANGED <<parent, mergedInto, owner, calls, apart, folded>>

\* ... and marks the loser.  The winner's parent is cleared if it was the loser when read.
MergeCommits(e) ==
    LET winner == editor[e].winner
        loser  == editor[e].loser
    IN /\ editor[e].pc = "moved" /\ Free(e, {loser})
       /\ parent' = [c \in Clients |-> IF c = winner /\ editor[e].freed THEN "none"
                                       ELSE IF c \in editor[e].kids THEN winner
                                       ELSE parent[c]]
       /\ owner' = IF editor[e].took THEN winner ELSE owner
       /\ mergedInto' = [mergedInto EXCEPT ![loser] = winner]
       /\ folded' = (folded \/ \E n \in 1 .. Cardinality(Clients) :
                                   Climb(parent, winner, n) \in editor[e].kids)
       /\ Ends(e)
       /\ UNCHANGED <<calls, apart>>

\* A failing query, a deadlock that the database breaks: the transaction is rolled back
Fails(e) ==
    /\ editor[e] # Settled
    /\ Ends(e)
    /\ UNCHANGED <<parent, mergedInto, owner, calls, apart, folded>>

--------------------------------------------------------------------------------
Next ==
    \E e \in Editors : \/ SetParentChecks(e) \/ SetParentWrites(e) \/ UnsetParent(e)
                       \/ MergeReads(e) \/ MergeMoves(e) \/ MergeCommits(e) \/ Fails(e)

Spec == Init /\ [][Next]_treeVars

--------------------------------------------------------------------------------
(* Properties *)

Pairs == [pc : {"link"}, child : Clients, under : Clients]

TypeOK ==
    /\ {parent, mergedInto} \subseteq [Clients -> Clients \cup {"none"}]
    /\ owner \in Clients
    /\ editor \in [Editors -> {Settled} \cup Pairs
           \cup [pc : {"merge"}, winner : Clients, loser : Clients, freed : BOOLEAN]
           \cup [pc : {"moved"}, winner : Clients, loser : Clients, freed : BOOLEAN,
                 kids : SUBSET Clients, took : BOOLEAN]]
    /\ calls \in 0 .. MaxCalls /\ apart \in 0 .. MaxApart /\ folded \in BOOLEAN

EndsWithin(column, n) == \A c \in Clients : Climb(column, c, n) = "none"

\* setParent() locks both rows and checks inside the same transaction so that no
\* "concurrent re-parent ... could slip a cycle past the validator".  It does for calls that
\* share a row: whatever is re-parented, cut loose and merged, no client is its own
\* ancestor, and until a merge none is deeper than MAX_DEPTH, unless two calls overlapped
\* that wait for no row of each other, or a client was merged into one of its descendants
\* other than its children.
TreeHasRoots ==
    apart = 0 /\ ~folded =>
        /\ EndsWithin(parent, Cardinality(Clients))
        /\ EndsWithin(mergedInto, 1) => EndsWithin(parent, MaxDepth + 1)

\* A merge repoints every reference from the loser, "atomically": following mergedIntoId
\* from a merged client comes to one that was not merged, and that is where its invoice is,
\* unless the merge overlapped another call.
MergedHasSurvivor ==
    apart = 0 =>
        /\ EndsWithin(mergedInto, Cardinality(Clients))
        /\ mergedInto[owner] = "none"

================================================================================
