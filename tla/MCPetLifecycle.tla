--------------------------- MODULE MCPetLifecycle ---------------------------
(***************************************************************************)
(* Instances of PetLifecycle for TLC.  Users, requests and report ids are  *)
(* interchangeable: no definition names one or chooses one.                *)
(***************************************************************************)
EXTENDS PetLifecycle, TLC

Symmetry == Permutations(Users) \cup Permutations(Requests) \cup Permutations(ReportIds)
=============================================================================
