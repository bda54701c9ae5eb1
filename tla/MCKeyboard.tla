------------------------------ MODULE MCKeyboard ------------------------------
(* Caps Lock, Shift, a letter, a key without levels and F12.                   *)
EXTENDS Keyboard

MCKeys == {"caps", "shift", "a", "space", "f12"}
MCSym ==
  [k \in MCKeys |-> [l \in BOOLEAN |-> IF k = "a" /\ l THEN "A" ELSE k]]
===============================================================================
