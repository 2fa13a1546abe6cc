------------------------------ MODULE MCApprovals ------------------------------
(* Instances of Approvals for TLC. *)
EXTENDS Approvals, TLC

CONSTANTS p1, r1, u1, u2, clerk, board, w1, w2

OneProcess  == {p1}
OneRequest  == {r1}
TwoUsers    == {u1, u2}
TwoWorkers  == {w1, w2}
ClerkBoard  == {clerk, board}
ThreeOrders == {0, 1, 2}

\* The first user is the clerk, the second the board's only member
HoldersOne == [a \in Approvers |-> IF a = clerk THEN {u1} ELSE {u2}]

\* One step or several, with and without a step in between, by other approvers
SomeChains == {0 :> clerk, 2 :> board, 0 :> clerk @@ 2 :> board,
               0 :> board @@ 2 :> clerk, 0 :> clerk @@ 1 :> board @@ 2 :> clerk}

CallSymmetry == Permutations(Workers)

================================================================================
