-------------------------------- MODULE Pointer --------------------------------
(***************************************************************************)
(* One pointer (pointer.c, on_pointer_event of main.c): Wayland's events    *)
(* come in groups that a frame event ends, and each frame becomes RFB       *)
(* pointer events.                                                          *)
(*                                                                         *)
(* RFB has no scroll events: a step of the wheel is a press and a release   *)
(* of one of four more buttons.  Wayland reports scrolling as a distance,   *)
(* so pointer_frame cuts the distance into steps and keeps the rest.        *)
(*                                                                         *)
(* The window has two surfaces, the picture and the background around it;   *)
(* only what happens on the picture is for the server.                      *)
(***************************************************************************)
EXTENDS Integers

CONSTANTS
  Buttons,      \* buttons of the mouse
  Mapped,       \* those of them that pointer_button knows
  StepSize,     \* STEP_SIZE
  Distances,    \* distances an axis event may report
  MaxDistance,  \* bound: how far one axis is scrolled, in sum
  Positions     \* places on the picture

ASSUME PointerAssumption ==
  /\ Mapped \subseteq Buttons
  /\ StepSize \in Nat \ {0}
  /\ Distances \subseteq Int
  /\ MaxDistance \in Nat

Axes == {"vertical", "horizontal"}
Scroll == {"up", "down", "left", "right"}   \* POINTER_SCROLL_*
ASSUME ScrollAssumption == Scroll \cap Buttons = {}

VARIABLES
  held,       \* buttons the user holds
  place,      \* where the user has the pointer
  over,       \* the surface below it: "picture", "background" or "none"
  group,      \* events since the last frame: "none"; "focus", only enter and
              \* leave; "device", others too
  moved,      \* has there been a motion event since the enter event?
  handling,   \* pointer.handle_event
  pressed,    \* pointer.pressed
  at,         \* pointer.x and pointer.y
  axis,       \* pointer.vertical_axis_value and .horizontal_axis_value
  scrolling,  \* is the loop of on_pointer_event running?
  steps,      \* its vertical_steps and horizontal_steps, with their signs
  mask,       \* the server: buttons that are down
  target,     \* where it has the pointer
  clicks,     \* steps it got, right and down counted positive
  scrolled,   \* distance that axis events reported on the picture
  told        \* history: where the last motion over the picture was reported;
              \* before the first, where pointer_new has put the pointer

user == <<held, place>>
compositor == <<over, group, moved>>
pointer == <<handling, pressed, at>>
wheel == <<axis, scrolling, steps>>
server == <<mask, target, clicks>>
history == <<scrolled, told>>
vars == <<user, compositor, pointer, wheel, server, history>>

-------------------------------------------------------------------------------
(* The compositor's events. *)

PointerEnter(s) ==
  /\ ~scrolling /\ over = "none"
  /\ over' = s
  /\ place' \in Positions
  /\ group' = IF group = "none" THEN "focus" ELSE group
  /\ moved' = FALSE
  /\ handling' = (s = "picture")
  /\ UNCHANGED <<held, pressed, at, wheel, server, history>>

(* A surface keeps the pointer while a button is held on it.  The picture's *)
(* frames are handled until another surface is entered.                    *)
PointerLeave ==
  /\ ~scrolling /\ over # "none"
  /\ held = {} /\ group # "device"
  /\ over' = "none"
  /\ group' = "focus"
  /\ handling' = (over = "picture")
  /\ UNCHANGED <<user, moved, pressed, at, wheel, server, history>>

Device == ~scrolling /\ over # "none" /\ group' = "device"

(* Fault: the first motion after an enter event is taken for part of it. *)
PointerMotionLate(p) ==
  /\ Device
  /\ place' = p
  /\ moved' = TRUE
  /\ at' = IF handling /\ moved THEN p ELSE at
  /\ told' = IF over = "picture" THEN p ELSE told
  /\ UNCHANGED <<held, over, handling, pressed, wheel, server, scrolled>>

PointerMotion(p) ==
  /\ Device
  /\ place' = p
  /\ moved' = TRUE
  /\ at' = IF handling THEN p ELSE at
  /\ told' = IF over = "picture" THEN p ELSE told
  /\ UNCHANGED <<held, over, handling, pressed, wheel, server, scrolled>>

(* pointer_button, pointer_set_button_state *)
PointerButton(b) ==
  /\ Device
  /\ held' = IF b \in held THEN held \ {b} ELSE held \cup {b}
  /\ pressed' =
       IF ~handling \/ b \notin Mapped THEN pressed
       ELSE IF b \in held THEN pressed \ {b} ELSE pressed \cup {b}
  /\ UNCHANGED <<place, over, moved, handling, at, wheel, server, history>>

PointerAxis(a, d) ==
  /\ Device
  /\ (scrolled[a] + d) \in (-MaxDistance)..MaxDistance
  /\ IF handling
     THEN /\ axis' = [axis EXCEPT ![a] = @ + d]
          /\ scrolled' = [scrolled EXCEPT ![a] = @ + d]
     ELSE UNCHANGED <<axis, scrolled>>
  /\ UNCHANGED <<user, over, moved, pointer, scrolling, steps, server, told>>

-------------------------------------------------------------------------------
(* The frame: pointer_frame, on_pointer_event. *)

(* SendPointerEvent *)
ServerGets(m) == mask' = m /\ target' = at

(* trunc(v / STEP_SIZE) *)
StepsIn(v) == IF v >= 0 THEN v \div StepSize ELSE -((-v) \div StepSize)

(* Fault: the distance left over is forgotten. *)
RestForgotten(v) == 0

(* What pointer_frame leaves in the axis value. *)
Rest(v) == v - StepsIn(v) * StepSize

PointerFrame ==
  /\ ~scrolling /\ group # "none"
  /\ group' = "none"
  /\ IF handling
     THEN LET n == [a \in Axes |-> StepsIn(axis[a])] IN
          /\ axis' = [a \in Axes |-> Rest(axis[a])]
          /\ IF \A a \in Axes : n[a] = 0
             THEN ServerGets(pressed) /\ UNCHANGED <<scrolling, steps, clicks>>
             ELSE scrolling' = TRUE /\ steps' = n /\ UNCHANGED server
     ELSE UNCHANGED <<wheel, server>>
  /\ UNCHANGED <<user, over, moved, pointer, history>>

Sign(n) == IF n > 0 THEN 1 ELSE IF n < 0 THEN -1 ELSE 0

(* The buttons that stand for the steps still to do; the mask loses those   *)
(* of an axis when its steps are done.                                      *)
ScrollMask ==
  (IF steps["vertical"] < 0 THEN {"up"}
   ELSE IF steps["vertical"] > 0 THEN {"down"} ELSE {})
    \cup
  (IF steps["horizontal"] < 0 THEN {"left"}
   ELSE IF steps["horizontal"] > 0 THEN {"right"} ELSE {})

(* One turn of the loop, first half: the buttons go down, which is what the *)
(* server counts.                                                           *)
ScrollPress ==
  /\ scrolling /\ mask \cap Scroll = {}
  /\ ScrollMask # {}
  /\ ServerGets(pressed \cup ScrollMask)
  /\ clicks' = [a \in Axes |-> clicks[a] + Sign(steps[a])]
  /\ UNCHANGED <<user, compositor, pointer, wheel, history>>

(* Fault: the buttons of a step are not released. *)
ScrollReleaseSkipped ==
  /\ scrolling /\ mask \cap Scroll # {}
  /\ steps' = [a \in Axes |-> steps[a] - Sign(steps[a])]
  /\ scrolling' = (\E a \in Axes : steps'[a] # 0)
  /\ UNCHANGED <<user, compositor, pointer, axis, server, history>>

(* Second half: they go up, and the steps are counted down. *)
ScrollRelease ==
  /\ scrolling /\ mask \cap Scroll # {}
  /\ ServerGets(pressed)
  /\ steps' = [a \in Axes |-> steps[a] - Sign(steps[a])]
  /\ scrolling' = (\E a \in Axes : steps'[a] # 0)
  /\ UNCHANGED <<user, compositor, pointer, axis, clicks, history>>

-------------------------------------------------------------------------------
Init ==
  /\ held = {} /\ place \in Positions
  /\ over = "none" /\ group = "none" /\ moved = FALSE
  /\ handling = FALSE /\ pressed = {} /\ at \in Positions
  /\ axis = [a \in Axes |-> 0]
  /\ scrolling = FALSE /\ steps = [a \in Axes |-> 0]
  /\ mask = {} /\ target = at /\ told = at
  /\ clicks = [a \in Axes |-> 0] /\ scrolled = [a \in Axes |-> 0]

Next ==
  \/ \E s \in {"picture", "background"} : PointerEnter(s)
  \/ PointerLeave
  \/ \E p \in Positions : PointerMotion(p)
  \/ \E b \in Buttons : PointerButton(b)
  \/ \E a \in Axes, d \in Distances : PointerAxis(a, d)
  \/ PointerFrame \/ ScrollPress \/ ScrollRelease

Spec == Init /\ [][Next]_vars

-------------------------------------------------------------------------------
(* Properties.                                                             *)

(* Between frames the server has down the buttons that are held on the      *)
(* picture, and no other: neither a button whose release was not for the    *)
(* picture, nor one of those that stand for the wheel.                      *)
ButtonsAgree ==
  group = "none" /\ ~scrolling =>
    mask = IF over = "picture" THEN held \cap Mapped ELSE {}

(* No distance is lost or made up, in whatever portions it comes and        *)
(* whichever way it goes: it is in the clicks the server got, in the steps  *)
(* of the loop, or kept in the axis value; and between frames less than a   *)
(* step is kept back.                                                       *)
StepsLeft(a) ==
  IF scrolling /\ mask \cap Scroll # {} THEN steps[a] - Sign(steps[a]) ELSE steps[a]
ScrollConserved ==
  \A a \in Axes :
    /\ scrolled[a] = (clicks[a] + StepsLeft(a)) * StepSize + axis[a]
    /\ group = "none" => axis[a] < StepSize /\ -axis[a] < StepSize

(* A button goes down on the server where the pointer was last reported on  *)
(* the picture, which is where the user has pressed it if there was a       *)
(* motion event since the picture was entered.  Without one it is not:      *)
(* pointer_enter ignores the position.                                      *)
PressedInPlace ==
  [][(mask' \cap Mapped) \ mask # {} =>
       /\ target' = told
       /\ moved => target' = place]_vars
===============================================================================
