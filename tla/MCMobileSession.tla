--------------------------- MODULE MCMobileSession ---------------------------
(* Two people use the phone in turn; the first signs in twice. *)
EXTENDS MobileSession

CONSTANTS ana, bruno, a1, a2, b1

MCUsers == {ana, bruno}
MCTokens == {a1, a2, b1}
MCOwnerOf == [t \in Tokens |-> IF t = b1 THEN bruno ELSE ana]
=============================================================================
