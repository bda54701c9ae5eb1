-------------------------------- MODULE Wayland --------------------------------
(***************************************************************************)
(* What the compositor tells of its seats and of the window, over one       *)
(* connection and in any order (main.c): the window is made once the server *)
(* has told its size, and is configured only then.                          *)
(***************************************************************************)
EXTENDS Seats, Window

(* A seat's event; the window is configured when there is one. *)
SeatStep == Next /\ (configured' # "no" => Open) /\ UNCHANGED wvars
WindowStep == Running /\ WindowNext /\ UNCHANGED vars

WaylandInit == Init /\ WindowInit
WaylandNext == SeatStep \/ WindowStep
WaylandSpec == WaylandInit /\ [][WaylandNext]_<<vars, wvars>>
===============================================================================
