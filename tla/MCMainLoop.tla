------------------------------ MODULE MCMainLoop ------------------------------
(* A stream of a two-byte handshake and three messages of 2, 1 and 3 bytes.    *)
(* The first message may arrive with the handshake; its handler, and the       *)
(* handshake, may give up.                                                     *)
EXTENDS MainLoop

MCHeads == {3, 5, 6}
MCBodyLen == [h \in MCHeads |-> CASE h = 3 -> 1 [] h = 5 -> 0 [] h = 6 -> 2]
MCRecordEnd == [p \in 0..7 |-> IF p < 2 THEN 2 ELSE IF p < 4 THEN 4 ELSE 8]
MCFallible == {0, 3}
==============================================================================
