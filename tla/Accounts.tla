------------------------------ MODULE Accounts ------------------------------
(***************************************************************************)
(* What the table users promises: accounts are only ever added, one at a   *)
(* time, and never one that conflicts with an account that is there.       *)
(***************************************************************************)
CONSTANTS Row, Conflict(_, _)

VARIABLE users

Init == users = {}

Add(row) ==
  /\ \A u \in users : ~Conflict(u, row)
  /\ users' = users \cup {row}

Next == \E row \in Row : Add(row)

Spec == Init /\ [][Next]_users

=============================================================================
