-------------------------------- MODULE MCSeats --------------------------------
(* Two seats and room for two, which differ in nothing but their names, and   *)
(* two outputs.  The window of 10 by 9 has almost the proportions of the      *)
(* first screen, which is larger, and is wider than those of the second,      *)
(* which is smaller.                                                          *)
EXTENDS Wayland, TLC

CONSTANTS seat0, seat1, address0, address1, output0, output1

MCSeatSet == {seat0, seat1}
MCAddresses == {address0, address1}
MCOutputs == {output0, output1}
MCSizes == {<<0, 0>>, <<10, 9>>}
MCScreenSizes == {<<11, 10>>, <<6, 8>>}
MCSymmetry ==
  Permutations(MCSeatSet) \cup Permutations(MCAddresses) \cup Permutations(MCOutputs)
===============================================================================
