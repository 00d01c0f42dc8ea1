----------------------------- MODULE MCOtpCodes ------------------------------
(***************************************************************************)
(* Limits small enough to be reached: email is full for an account before  *)
(* it is full for all, recovery the other way round.                       *)
(***************************************************************************)
EXTENDS OtpCodes

MCUserMax == [c \in Channels |-> IF c = "email" THEN 1 ELSE 2]
MCGlobalMax == [c \in Channels |-> IF c = "email" THEN 2 ELSE 1]
=============================================================================
