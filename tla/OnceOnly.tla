-------------------------------- MODULE OnceOnly --------------------------------
(***************************************************************************)
(* What a claim row promises: of a set of items each is sent at most once, *)
(* and losing one is the only way a claimed item is not sent.              *)
(*                                                                         *)
(* The specification behind dunning's "hard guarantee" ("failing closed    *)
(* means: at worst, one missed reminder; never a duplicate").              *)
(***************************************************************************)
EXTENDS Integers

CONSTANT Items

VARIABLES
    may,     \* items that may still be taken
    inHand,  \* items taken and not yet sent
    sent     \* Items -> how often it was sent

onceVars == <<may, inHand, sent>>

Init == may = Items /\ inHand = {} /\ sent = [i \in Items |-> 0]

Take(i) ==
    /\ i \in may
    /\ may' = may \ {i} /\ inHand' = inHand \cup {i}
    /\ UNCHANGED sent

Send(i) ==
    /\ i \in inHand
    /\ inHand' = inHand \ {i}
    /\ sent' = [sent EXCEPT ![i] = @ + 1]
    /\ UNCHANGED may

Lose(i) ==
    /\ i \in inHand
    /\ inHand' = inHand \ {i}
    /\ UNCHANGED <<may, sent>>

\* Some items are not to be sent after all; those in hand still are
Withdraw ==
    /\ may' \in SUBSET may
    /\ UNCHANGED <<inHand, sent>>

Next == \/ \E i \in Items : Take(i) \/ Send(i) \/ Lose(i)
        \/ Withdraw

Spec == Init /\ [][Next]_onceVars

================================================================================
