----------------------------- MODULE PointerProofs -----------------------------
(***************************************************************************)
(* Proofs about Pointer: for any buttons, any length of a step and any      *)
(* distances,                                                               *)
(*   - the server has down what is held on the picture (ButtonsAgree),      *)
(*   - no distance of the wheel is lost or made up (ScrollConserved),       *)
(*   - a button goes down where a motion event on the picture was last      *)
(*     reported, which is where the user pressed it if there was one since  *)
(*     the enter event (PressedInPlace).                                    *)
(*                                                                         *)
(* The invariant says what pointer.c may rely on between events: "pressed"  *)
(* is right after each of them, and the server's mask only when the frame   *)
(* is over, or nothing has happened in it that needs one.                   *)
(***************************************************************************)
EXTENDS Pointer, TLAPS

TypeOK ==
  /\ held \subseteq Buttons /\ pressed \subseteq Mapped /\ mask \subseteq Mapped \cup Scroll
  /\ over \in {"picture", "background", "none"} /\ group \in {"none", "focus", "device"}
  /\ moved \in BOOLEAN /\ handling \in BOOLEAN /\ scrolling \in BOOLEAN
  /\ axis \in [Axes -> Int] /\ steps \in [Axes -> Int]
  /\ clicks \in [Axes -> Int] /\ scrolled \in [Axes -> Int]

(* Which surface has the pointer, and what follows for its frames. *)
Focus ==
  /\ over = "none" => held = {} /\ group # "device"
  /\ over # "none" => handling = (over = "picture")
  /\ scrolling => group = "none"

PressedAgrees == pressed = IF over = "picture" THEN held \cap Mapped ELSE {}

(* The server knows of every button, but for those of a frame that is not   *)
(* over and those of the loop's turn.                                       *)
MaskAgrees ==
  ~scrolling => /\ mask \cap Scroll = {}
                /\ group # "device" \/ over # "picture" => mask = pressed

(* Every step is done when the loop ends; less than one is left when a      *)
(* frame does.                                                              *)
NothingLeft ==
  /\ ~scrolling => \A a \in Axes : steps[a] = 0
  /\ group # "device" \/ ~handling =>
       \A a \in Axes : axis[a] < StepSize /\ -axis[a] < StepSize

(* pointer_motion takes the place of every motion over the picture, and of  *)
(* no other.                                                               *)
PlaceKnown ==
  /\ at = told
  /\ over = "picture" /\ moved => at = place

PointerInv ==
  TypeOK /\ Focus /\ PressedAgrees /\ MaskAgrees /\ NothingLeft /\ PlaceKnown
         /\ ScrollConserved

-------------------------------------------------------------------------------
(* trunc(): the whole steps in a distance and what is left, of its sign.    *)
LEMMA Truncated ==
  ASSUME NEW v \in Int
  PROVE  /\ StepsIn(v) \in Int /\ Rest(v) \in Int
         /\ Rest(v) < StepSize /\ -Rest(v) < StepSize
         /\ v = StepsIn(v) * StepSize + Rest(v)
<1>1. StepSize \in Nat \ {0}
  BY PointerAssumption
<1>2. \A n \in Nat : /\ n \div StepSize \in Nat
                     /\ n - (n \div StepSize) * StepSize \in 0 .. StepSize - 1
  BY <1>1
<1>3. CASE v >= 0
  BY <1>1, <1>2, <1>3 DEF StepsIn, Rest
<1>4. CASE v < 0
  <2> DEFINE q == (-v) \div StepSize
  <2>1. q \in Nat /\ -v - q * StepSize \in 0 .. StepSize - 1
    BY <1>2, <1>4
  <2>2. StepsIn(v) = -q
    BY <1>4 DEF StepsIn
  <2> HIDE DEF q
  <2>3. Rest(v) = v + q * StepSize
    BY <1>1, <2>1, <2>2 DEF Rest
  <2>4. QED
    BY <1>1, <2>1, <2>2, <2>3
<1>5. QED
  BY <1>3, <1>4

LEMMA Signs == \A n \in Int : Sign(n) \in Int
BY DEF Sign

LEMMA PointerInitially == Init => PointerInv
<1> SUFFICES ASSUME Init PROVE PointerInv
  OBVIOUS
<1> USE PointerAssumption DEF Init
<1>1. TypeOK
  <2>1. [a \in Axes |-> 0] \in [Axes -> Int]
    OBVIOUS
  <2>2. moved \in BOOLEAN /\ handling \in BOOLEAN /\ scrolling \in BOOLEAN
    OBVIOUS
  <2>3. QED
    BY <2>1, <2>2 DEF TypeOK
<1>2. Focus /\ PressedAgrees /\ MaskAgrees /\ PlaceKnown
  BY DEF Focus, PressedAgrees, MaskAgrees, PlaceKnown
<1>3. NothingLeft
  BY DEF NothingLeft
<1>4. ScrollConserved
  <2> SUFFICES ASSUME NEW a \in Axes
               PROVE  /\ scrolled[a] = (clicks[a] + StepsLeft(a)) * StepSize + axis[a]
                      /\ axis[a] < StepSize /\ -axis[a] < StepSize
    BY DEF ScrollConserved
  <2>1. StepsLeft(a) = 0 /\ axis[a] = 0 /\ scrolled[a] = 0 /\ clicks[a] = 0
    BY DEF StepsLeft
  <2>2. QED
    BY <2>1
<1>5. QED
  BY <1>1, <1>2, <1>3, <1>4 DEF PointerInv

(* What is true of the wheel between the frames' ends stays true when no    *)
(* part of it moves.                                                        *)
LEMMA WheelStill ==
  ASSUME PointerInv, UNCHANGED <<axis, scrolling, steps, mask, clicks, scrolled>>,
         group' = "none" => group = "none"
  PROVE  ScrollConserved'
<1>1. \A a \in Axes : StepsLeft(a)' = StepsLeft(a)
  BY DEF StepsLeft
<1>2. QED
  BY <1>1 DEF PointerInv, ScrollConserved

LEMMA PointerKept == PointerInv /\ [Next]_vars => PointerInv'
<1> SUFFICES ASSUME PointerInv, [Next]_vars PROVE PointerInv'
  OBVIOUS
<1>1. ASSUME NEW s \in {"picture", "background"}, PointerEnter(s)
      PROVE  PointerInv'
  <2> USE <1>1 DEF PointerEnter, wheel, server, history
  <2>1. TypeOK'
    BY DEF PointerInv, TypeOK
  <2>2. Focus' /\ PressedAgrees'
    BY DEF PointerInv, TypeOK, Focus, PressedAgrees
  <2>3. MaskAgrees'
    BY DEF PointerInv, TypeOK, Focus, MaskAgrees
  <2>4. NothingLeft'
    BY DEF PointerInv, TypeOK, Focus, NothingLeft
  <2>5. PlaceKnown'
    BY DEF PointerInv, TypeOK, Focus, PressedAgrees, PlaceKnown
  <2>6. ScrollConserved'
    BY WheelStill
  <2>7. QED
    BY <2>1, <2>2, <2>3, <2>4, <2>5, <2>6 DEF PointerInv
<1>2. CASE PointerLeave
  <2> USE <1>2 DEF PointerLeave, user, wheel, server, history
  <2>1. TypeOK'
    BY DEF PointerInv, TypeOK
  <2>2. Focus' /\ PressedAgrees'
    BY DEF PointerInv, TypeOK, Focus, PressedAgrees
  <2>3. MaskAgrees'
    BY DEF PointerInv, TypeOK, Focus, MaskAgrees
  <2>4. NothingLeft'
    BY DEF PointerInv, TypeOK, Focus, NothingLeft
  <2>5. PlaceKnown'
    BY DEF PointerInv, TypeOK, PlaceKnown
  <2>6. ScrollConserved'
    BY WheelStill
  <2>7. QED
    BY <2>1, <2>2, <2>3, <2>4, <2>5, <2>6 DEF PointerInv
<1>3. ASSUME NEW p \in Positions, PointerMotion(p)
      PROVE  PointerInv'
  <2> USE <1>3 DEF PointerMotion, Device, wheel, server
  <2>1. TypeOK'
    BY DEF PointerInv, TypeOK
  <2>2. Focus' /\ PressedAgrees'
    BY DEF PointerInv, TypeOK, Focus, PressedAgrees
  <2>3. MaskAgrees'
    BY DEF PointerInv, TypeOK, MaskAgrees
  <2>4. NothingLeft'
    BY DEF PointerInv, TypeOK, NothingLeft
  <2>5. PlaceKnown'
    BY DEF PointerInv, TypeOK, Focus, PlaceKnown
  <2>6. ScrollConserved'
    BY WheelStill
  <2>7. QED
    BY <2>1, <2>2, <2>3, <2>4, <2>5, <2>6 DEF PointerInv
<1>4. ASSUME NEW b \in Buttons, PointerButton(b)
      PROVE  PointerInv'
  <2> USE <1>4, PointerAssumption DEF PointerButton, Device, wheel, server, history
  <2>1. TypeOK'
    BY DEF PointerInv, TypeOK
  <2>2. Focus' /\ PressedAgrees'
    BY DEF PointerInv, TypeOK, Focus, PressedAgrees
  <2>3. MaskAgrees'
    <3>1. over # "picture" => pressed' = pressed
      BY DEF PointerInv, TypeOK, Focus
    <3>2. QED
      BY <3>1 DEF PointerInv, TypeOK, MaskAgrees
  <2>4. NothingLeft'
    BY DEF PointerInv, TypeOK, NothingLeft
  <2>5. PlaceKnown'
    BY DEF PointerInv, TypeOK, Focus, PlaceKnown
  <2>6. ScrollConserved'
    BY WheelStill
  <2>7. QED
    BY <2>1, <2>2, <2>3, <2>4, <2>5, <2>6 DEF PointerInv
<1>5. ASSUME NEW a \in Axes, NEW d \in Distances, PointerAxis(a, d)
      PROVE  PointerInv'
  <2> USE <1>5, PointerAssumption DEF PointerAxis, Device, user, pointer, server
  <2>1. TypeOK'
    BY DEF PointerInv, TypeOK
  <2>2. Focus' /\ PressedAgrees'
    BY DEF PointerInv, TypeOK, Focus, PressedAgrees
  <2>3. MaskAgrees'
    BY DEF PointerInv, TypeOK, MaskAgrees
  <2>4. NothingLeft'
    BY DEF PointerInv, TypeOK, NothingLeft
  <2>5. PlaceKnown'
    BY DEF PointerInv, TypeOK, PlaceKnown
  <2>6. ScrollConserved'
    <3> SUFFICES ASSUME NEW c \in Axes
                 PROVE  scrolled'[c] = (clicks'[c] + StepsLeft(c)') * StepSize + axis'[c]
      BY DEF ScrollConserved
    <3>1. /\ scrolled[c] \in Int /\ axis[c] \in Int /\ clicks'[c] = clicks[c]
          /\ StepsLeft(c)' = StepsLeft(c)
          /\ scrolled[c] = (clicks[c] + StepsLeft(c)) * StepSize + axis[c]
      BY DEF PointerInv, TypeOK, ScrollConserved, StepsLeft
    <3>2. (clicks[c] + StepsLeft(c)) * StepSize \in Int
      BY DEF PointerInv, TypeOK, StepsLeft
    <3>3. scrolled'[c] - axis'[c] = scrolled[c] - axis[c]
          /\ scrolled'[c] \in Int /\ axis'[c] \in Int
      BY <3>1 DEF PointerInv, TypeOK
    <3>4. QED
      BY <3>1, <3>2, <3>3
  <2>7. QED
    BY <2>1, <2>2, <2>3, <2>4, <2>5, <2>6 DEF PointerInv
<1>6. CASE PointerFrame
  <2> DEFINE n == [a \in Axes |-> StepsIn(axis[a])]
  <2> USE <1>6 DEF PointerFrame, user, pointer, history
  <2>1. TypeOK'
    BY Truncated DEF PointerInv, TypeOK, wheel, server, ServerGets
  <2>2. Focus' /\ PressedAgrees'
    BY DEF PointerInv, TypeOK, Focus, PressedAgrees, wheel
  <2>3. CASE ~handling
    <3> USE <2>3 DEF wheel, server
    <3>1. over # "picture"
      BY DEF PointerInv, TypeOK, Focus
    <3>2. MaskAgrees'
      BY <3>1 DEF PointerInv, MaskAgrees
    <3>3. NothingLeft' /\ PlaceKnown'
      BY DEF PointerInv, NothingLeft, PlaceKnown
    <3>4. ScrollConserved'
      BY DEF PointerInv, NothingLeft, ScrollConserved, StepsLeft
    <3>5. QED
      BY <2>1, <2>2, <3>2, <3>3, <3>4 DEF PointerInv
  <2>4. CASE handling
    <3>1. /\ axis' = [a \in Axes |-> Rest(axis[a])] /\ clicks' = clicks /\ scrolled' = scrolled
          /\ \A a \in Axes : steps'[a] = n[a]
          /\ ~scrolling /\ \A a \in Axes : steps[a] = 0
      BY <2>4 DEF PointerInv, TypeOK, NothingLeft, server
    <3>2. mask \cap Scroll = {}
      BY DEF PointerInv, MaskAgrees
    <3>3. mask' \cap Scroll = {}
      BY <2>4, <3>2, PointerAssumption, ScrollAssumption DEF PointerInv, TypeOK, server, ServerGets
    <3>4. MaskAgrees'
      BY <2>4, <3>3 DEF PointerInv, TypeOK, MaskAgrees, ServerGets
    <3>5. NothingLeft'
      <4>1. \A a \in Axes : axis'[a] < StepSize /\ -axis'[a] < StepSize
        BY <3>1, Truncated DEF PointerInv, TypeOK
      <4>2. ~scrolling' => \A a \in Axes : steps'[a] = 0
        BY <2>4, <3>1
      <4>3. QED
        BY <4>1, <4>2 DEF NothingLeft
    <3>6. PlaceKnown'
      BY DEF PointerInv, PlaceKnown
    <3>7. ScrollConserved'
      <4> SUFFICES ASSUME NEW a \in Axes
                   PROVE  /\ scrolled[a] = (clicks[a] + StepsLeft(a)') * StepSize + axis'[a]
                          /\ axis'[a] < StepSize /\ -axis'[a] < StepSize
        BY <3>1 DEF ScrollConserved
      <4>1. StepsLeft(a) = 0 /\ StepsLeft(a)' = n[a] /\ axis'[a] = Rest(axis[a])
        BY <3>1, <3>3 DEF StepsLeft
      <4>2. scrolled[a] = (clicks[a] + 0) * StepSize + axis[a]
        BY <4>1 DEF PointerInv, ScrollConserved
      <4>3. /\ n[a] \in Int /\ Rest(axis[a]) \in Int
            /\ Rest(axis[a]) < StepSize /\ -Rest(axis[a]) < StepSize
            /\ axis[a] = n[a] * StepSize + Rest(axis[a])
        BY Truncated DEF PointerInv, TypeOK
      <4>4. clicks[a] \in Int /\ axis[a] \in Int /\ StepSize \in Int
        BY PointerAssumption DEF PointerInv, TypeOK
      <4> HIDE DEF n
      <4>5. (clicks[a] + n[a]) * StepSize = (clicks[a] + 0) * StepSize + n[a] * StepSize
        BY <4>3, <4>4
      <4>6. QED
        BY <4>1, <4>2, <4>3, <4>4, <4>5
    <3>8. QED
      BY <2>1, <2>2, <3>4, <3>5, <3>6, <3>7 DEF PointerInv
  <2>5. QED
    BY <2>3, <2>4
<1>7. CASE ScrollPress
  <2> USE <1>7, PointerAssumption, ScrollAssumption
      DEF ScrollPress, ServerGets, user, compositor, pointer, wheel, history
  <2>1. ScrollMask \subseteq Scroll
    BY DEF ScrollMask, Scroll
  <2>2. TypeOK'
    <3>1. clicks' \in [Axes -> Int]
      BY Signs DEF PointerInv, TypeOK
    <3>2. QED
      BY <2>1, <3>1 DEF PointerInv, TypeOK
  <2>3. Focus' /\ PressedAgrees'
    BY DEF PointerInv, Focus, PressedAgrees
  <2>4. MaskAgrees' /\ NothingLeft' /\ PlaceKnown'
    BY DEF PointerInv, TypeOK, MaskAgrees, NothingLeft, PlaceKnown
  <2>5. ScrollConserved'
    <3> SUFFICES ASSUME NEW a \in Axes
                 PROVE  /\ scrolled'[a] = (clicks'[a] + StepsLeft(a)') * StepSize + axis'[a]
                        /\ group' = "none" => axis'[a] < StepSize /\ -axis'[a] < StepSize
      BY DEF ScrollConserved
    <3>1. mask' \cap Scroll # {}
      BY <2>1
    <3>2. /\ StepsLeft(a) = steps[a] /\ StepsLeft(a)' = steps[a] - Sign(steps[a])
          /\ clicks'[a] = clicks[a] + Sign(steps[a])
      BY <3>1 DEF StepsLeft
    <3>3. steps[a] \in Int /\ clicks[a] \in Int /\ Sign(steps[a]) \in Int
      BY Signs DEF PointerInv, TypeOK
    <3>4. clicks'[a] + StepsLeft(a)' = clicks[a] + StepsLeft(a)
      BY <3>2, <3>3
    <3>5. QED
      BY <3>4 DEF PointerInv, ScrollConserved
  <2>6. QED
    BY <2>2, <2>3, <2>4, <2>5 DEF PointerInv
<1>8. CASE ScrollRelease
  <2> USE <1>8, PointerAssumption, ScrollAssumption
      DEF ScrollRelease, ServerGets, user, compositor, pointer, history
  <2>1. mask' \cap Scroll = {}
    BY DEF PointerInv, TypeOK
  <2>2. TypeOK'
    <3>1. steps' \in [Axes -> Int]
      BY Signs DEF PointerInv, TypeOK
    <3>2. QED
      BY <3>1 DEF PointerInv, TypeOK
  <2>3. Focus' /\ PressedAgrees'
    BY DEF PointerInv, Focus, PressedAgrees
  <2>4. MaskAgrees' /\ PlaceKnown'
    BY <2>1 DEF PointerInv, MaskAgrees, PlaceKnown
  <2>5. NothingLeft'
    BY DEF PointerInv, NothingLeft
  <2>6. ScrollConserved'
    <3>1. \A a \in Axes : StepsLeft(a)' = StepsLeft(a)
      BY <2>1 DEF StepsLeft
    <3>2. QED
      BY <3>1 DEF PointerInv, ScrollConserved
  <2>7. QED
    BY <2>2, <2>3, <2>4, <2>5, <2>6 DEF PointerInv
<1>9. CASE UNCHANGED vars
  <2> USE <1>9 DEF vars, user, compositor, pointer, wheel, server, history
  <2>1. ScrollConserved'
    BY WheelStill
  <2>2. QED
    BY <2>1 DEF PointerInv, TypeOK, Focus, PressedAgrees, MaskAgrees, NothingLeft, PlaceKnown
<1>10. QED
  BY <1>1, <1>2, <1>3, <1>4, <1>5, <1>6, <1>7, <1>8, <1>9 DEF Next

LEMMA PointerAlways == Spec => []PointerInv
BY PointerInitially, PointerKept, PTL DEF Spec

(* Between frames the server has down the buttons held on the picture, and  *)
(* none else: neither one whose release went to another surface nor one     *)
(* that stands for the wheel (pointer_button, on_pointer_event).            *)
THEOREM ButtonsAlwaysAgree == Spec => []ButtonsAgree
<1>1. PointerInv => ButtonsAgree
  BY DEF PointerInv, PressedAgrees, MaskAgrees, ButtonsAgree
<1>2. QED
  BY <1>1, PointerAlways, PTL

(* No distance is lost or made up, whichever way the wheel goes and in      *)
(* whatever portions (pointer_axis, pointer_frame, on_pointer_event).       *)
THEOREM ScrollAlwaysConserved == Spec => []ScrollConserved
BY PointerAlways, PTL DEF PointerInv

(* A button goes down on the server where the pointer was last reported on  *)
(* the picture (pointer_motion, on_pointer_event), and where the user       *)
(* pressed it if it was reported there since pointer_enter, which ignores   *)
(* the position.                                                           *)
THEOREM PressesInPlace == Spec => PressedInPlace
<1>1. PointerInv /\ [Next]_vars =>
        [(mask' \cap Mapped) \ mask # {} =>
           target' = told /\ (moved => target' = place)]_vars
  <2> SUFFICES ASSUME PointerInv, [Next]_vars, (mask' \cap Mapped) \ mask # {}
               PROVE  target' = told /\ (moved => target' = place)
    OBVIOUS
  <2>1. PointerFrame \/ ScrollPress \/ ScrollRelease
    BY DEF Next, PointerEnter, PointerLeave, PointerMotion, PointerButton, PointerAxis,
           server, vars
  <2>2. mask' \cap Mapped \subseteq pressed \cup mask /\ target' = at
    BY <2>1, PointerAssumption, ScrollAssumption
       DEF PointerFrame, ScrollPress, ScrollRelease, ServerGets, server, ScrollMask, Scroll
  <2>3. at = told /\ (moved => at = place)
    BY <2>2 DEF PointerInv, PressedAgrees, PlaceKnown
  <2>4. QED
    BY <2>2, <2>3
<1>2. QED
  BY <1>1, PointerAlways, PTL DEF Spec, PressedInPlace
===============================================================================
