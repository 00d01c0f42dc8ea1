---------------------------- MODULE MCWebClient -----------------------------
(* Two people share the tab; one of them signs in twice. *)
EXTENDS WebClient

CONSTANTS ana, bruno, a1, a2, b1, layout, chat

MCUsers == {ana, bruno}
MCTokens == {a1, a2, b1}
MCTwoTokens == {a1, b1}
MCOwnerOf == [t \in Tokens |-> IF t = b1 THEN bruno ELSE ana]
=============================================================================
