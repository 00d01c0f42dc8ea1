----------------------------- MODULE PetStatus -----------------------------
(***************************************************************************)
(* The status machine of a pet (domain/status_machine.go) and which        *)
(* statuses are an active search (domain/episode.go).  No state of its own. *)
(***************************************************************************)

ValidPetStatuses == {"registered", "lost", "found", "archived", "stray",
                     "adoption", "adopted"}

\* The statuses a pet may be created with; CreatePet refuses the others.
InitialStatuses == {"registered", "adoption", "stray"}

AllowedTransitions ==
  [registered |-> {"lost", "archived"},
   lost       |-> {"registered", "found", "archived"},
   found      |-> {"registered", "archived"},
   archived   |-> {"registered"},
   stray      |-> {"found"},
   adoption   |-> {"adopted", "archived"},
   adopted    |-> {"adoption", "archived"}]

ValidateTransition(from, to) == from = to \/ to \in AllowedTransitions[from]

IsActiveSearchStatus(status) == status \in {"lost", "stray"}
=============================================================================
