----------------------------- MODULE MCUpdateLoop ------------------------------
(* A screen of one pixel or two.                                               *)
EXTENDS UpdateLoop

MCSizes == {"small", "large"}
MCArea == [s \in MCSizes |-> IF s = "small" THEN {1} ELSE {1, 2}]
===============================================================================
