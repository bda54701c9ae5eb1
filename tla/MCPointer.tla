------------------------------- MODULE MCPointer -------------------------------
(* A mouse with one button that is known and one that is not.                  *)
EXTENDS Pointer

MCDistances == {-4, 2, 7}
===============================================================================
