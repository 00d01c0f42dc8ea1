---------------------------- MODULE PetContract ----------------------------
(***************************************************************************)
(* What the rest of the application may assume of a pet: its status walks  *)
(* along the status machine one allowed step at a time, and a search is    *)
(* running for it exactly while that status is an active one, because the  *)
(* map shows a pet through its current search.  Nothing here says how the  *)
(* services, their transactions or the episode rows achieve it.            *)
(***************************************************************************)
EXTENDS PetStatus

CONSTANTS Pets, Nil

VARIABLES
  status,     \* status[p]: the status of p, Nil while p does not exist
  searching   \* searching[p]: whether a search for p is running

vars == <<status, searching>>

Init ==
  /\ status    = [p \in Pets |-> Nil]
  /\ searching = [p \in Pets |-> FALSE]

\* The row of p and its search change together.
Become(p, st) ==
  /\ status'    = [status EXCEPT ![p] = st]
  /\ searching' = [searching EXCEPT ![p] = IF st = Nil THEN FALSE
                                           ELSE IsActiveSearchStatus(st)]

Create(p) == status[p] = Nil /\ \E st \in InitialStatuses : Become(p, st)

Move(p) == status[p] # Nil /\ \E st \in AllowedTransitions[status[p]] : Become(p, st)

Remove(p) == status[p] # Nil /\ Become(p, Nil)

Next == \E p \in Pets : Create(p) \/ Move(p) \/ Remove(p)

Spec == Init /\ [][Next]_vars
=============================================================================
