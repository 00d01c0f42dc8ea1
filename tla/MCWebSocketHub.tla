--------------------------- MODULE MCWebSocketHub ---------------------------
(***************************************************************************)
(* Instances of WebSocketHub for TLC.  Users, tickets, connections and     *)
(* workers are interchangeable; the runs that check liveness do not use    *)
(* the symmetry.                                                           *)
(***************************************************************************)
EXTENDS WebSocketHub, TLC

Symmetry == Permutations(User) \cup Permutations(Ticket)
              \cup Permutations(Conn) \cup Permutations(Worker)
=============================================================================
