----------------------------- MODULE KeyboardProofs -----------------------------
(***************************************************************************)
(* Theorems about Keyboard, for every set of keys.                         *)
(***************************************************************************)
EXTENDS Keyboard, FiniteSetTheorems, TLAPS

(* What they are proved for: keys are told apart by their codes, none is    *)
(* F12 with a modifier and another symbol without, the slots suffice and    *)
(* the focus does not arrive with the lock key down.                        *)
Sound ==
  /\ Extended
  /\ \A k \in Keys \ Sent, l \in BOOLEAN : Sym[k][l] = F12
  /\ Cardinality(Keys) <= Slots
  /\ ~LockHeld

(* Where the handlers' loops are. *)
Loops ==
  /\ pc = "idle" => todo = {}
  /\ pc = "enter" => focused /\ mods_due /\ todo \subseteq held
  /\ pc = "leave" => ~focused /\ todo = pressed
  /\ mods_due => focused
  /\ waiting => focused /\ mods_due /\ LockKey \notin held
  /\ pc = "enter" => waiting

(* The client knows which keys are held, but for those a loop has to do.    *)
Tracking ==
  /\ focused => pressed = held \ todo
  /\ ~focused => pressed = todo

ServerFollows == remote = pressed \cap Sent

Locks ==
  /\ focused /\ ~waiting => remote_lock = locked
  /\ ~focused \/ waiting \/ ~mods_due => remote_lock = led

KInv == TypeOK /\ Loops /\ Tracking /\ ServerFollows /\ Locks

-------------------------------------------------------------------------------
(* A key that is not in a slot finds one. *)
LEMMA SlotsSuffice ==
  ASSUME Sound, pressed \in SUBSET Keys, NEW k \in Keys, k \notin pressed
  PROVE  Cardinality(pressed) < Slots
<1>1. IsFiniteSet(Keys)
  BY KeyboardAssumption
<1>2. pressed \in SUBSET Keys /\ pressed # Keys
  OBVIOUS
<1>3. /\ IsFiniteSet(pressed)
      /\ Cardinality(pressed) <= Cardinality(Keys)
      /\ Cardinality(Keys) # Cardinality(pressed)
  BY <1>1, <1>2, FS_Subset
<1>4. Cardinality(pressed) \in Nat /\ Cardinality(Keys) \in Nat
  BY <1>1, <1>3, FS_CardinalityType
<1>5. Slots \in Nat /\ Cardinality(Keys) <= Slots
  BY KeyboardAssumption DEF Sound
<1> QED
  BY <1>3, <1>4, <1>5

(* What handle_key does to the client's and the server's view.             *)
LEMMA HandleKeyEffect ==
  ASSUME Sound, KInv, NEW k \in Keys, NEW down \in BOOLEAN, HandleKey(k, down),
         ~down \/ k \notin pressed
  PROVE  /\ pressed' = IF down THEN pressed \cup {k} ELSE pressed \ {k}
         /\ pressed' \in SUBSET Keys
         /\ level' \in BOOLEAN /\ toggled' \in BOOLEAN
         /\ remote_lock' = IF k = LockKey /\ down THEN ~remote_lock ELSE remote_lock
         /\ ServerFollows'
<1> USE DEF KInv, TypeOK
<1>1. level' \in BOOLEAN
  BY DEF HandleKey
<1>2. pressed' = IF down THEN pressed \cup {k} ELSE pressed \ {k}
  BY SlotsSuffice DEF HandleKey
<1>3. k \notin Sent <=> Sym[k][level'] = F12
  BY <1>1 DEF Sound, Sent
<1>4. LockKey \in Sent
  BY KeyboardAssumption DEF Sent
<1>5. CASE k \notin Sent
  <2>1. toggled' \in BOOLEAN /\ UNCHANGED server
    BY <1>3, <1>5 DEF HandleKey, OnEvent
  <2>2. ServerFollows'
    BY <1>2, <1>5, <2>1 DEF ServerFollows, server
  <2> QED
    BY <1>1, <1>2, <1>4, <1>5, <2>1, <2>2 DEF server
<1>6. CASE k \in Sent
  <2>1. ServerGets(k, level', down) /\ UNCHANGED toggled
    BY <1>3, <1>6 DEF HandleKey, OnEvent
  <2>2. remote' = IF down THEN remote \cup {k} ELSE remote \ {k}
    BY <2>1 DEF ServerGets, Ident, Sound
  <2>3. ServerFollows'
    BY <1>2, <1>6, <2>2 DEF ServerFollows
  <2> QED
    BY <1>1, <1>2, <2>1, <2>3 DEF ServerGets
<1> QED
  BY <1>5, <1>6

LEMMA InitOK == Init => KInv
BY DEF Init, KInv, TypeOK, Loops, Tracking, ServerFollows, Locks

LEMMA KeyUnseenKeeps ==
  ASSUME KInv, NEW k \in Keys, NEW down \in BOOLEAN, KeyUnseen(k, down)
  PROVE  KInv'
<1> USE DEF KeyUnseen, Key, compositor, loop, keyboard, server
<1>1. TypeOK'
  BY DEF KInv, TypeOK
<1>2. Loops' /\ Tracking' /\ ServerFollows' /\ Locks'
  BY DEF KInv, TypeOK, Loops, Tracking, ServerFollows, Locks
<1> QED
  BY <1>1, <1>2 DEF KInv

LEMMA KeyboardKeyKeeps ==
  ASSUME Sound, KInv, NEW k \in Keys, NEW down \in BOOLEAN, KeyboardKey(k, down)
  PROVE  KInv'
<1> USE DEF KInv
<1>1. HandleKey(k, down) /\ Key(k, down) /\ focused /\ pc = "idle" /\ ~mods_due
      /\ UNCHANGED <<focused, loop, led, waiting>> /\ todo = {} /\ ~waiting
      /\ mods_due' = (k \in {LockKey, LevelKey})
  BY DEF KeyboardKey, Key, Loops
<1>2. pressed = held
  BY <1>1 DEF Tracking
<1>3. ~down \/ k \notin pressed
  BY <1>1, <1>2 DEF Key
<1>4. /\ pressed' = IF down THEN pressed \cup {k} ELSE pressed \ {k}
      /\ pressed' \in SUBSET Keys
      /\ level' \in BOOLEAN /\ toggled' \in BOOLEAN
      /\ remote_lock' = IF k = LockKey /\ down THEN ~remote_lock ELSE remote_lock
      /\ ServerFollows'
  BY <1>1, <1>3, HandleKeyEffect
<1>5. held' = pressed'
  BY <1>1, <1>2, <1>4 DEF Key
<1>6. locked' = IF k = LockKey /\ down THEN ~locked ELSE locked
  BY <1>1 DEF Key
<1>7. TypeOK'
  BY <1>1, <1>4, <1>5, <1>6 DEF TypeOK, loop
<1>8. Loops' /\ Tracking'
  BY <1>1, <1>5 DEF Loops, Tracking, loop
<1>9. Locks'
  <2>1. remote_lock = locked /\ remote_lock = led
    BY <1>1 DEF Locks
  <2>2. remote_lock' = locked'
    BY <1>4, <1>6, <2>1
  <2>3. ~mods_due' => remote_lock' = remote_lock
    BY <1>1, <1>4
  <2> QED
    BY <1>1, <2>1, <2>2, <2>3 DEF Locks
<1> QED
  BY <1>4, <1>7, <1>8, <1>9

LEMMA KeyboardEnterKeeps ==
  ASSUME Sound, KInv, KeyboardEnter
  PROVE  KInv'
<1> USE DEF KeyboardEnter, user, server
<1>1. TypeOK'
  BY DEF KInv, TypeOK
<1>2. pressed = {} /\ LockKey \notin held
  BY DEF KInv, Loops, Tracking, Sound
<1>3. Loops' /\ Tracking'
  BY <1>2 DEF KInv, Loops, Tracking
<1>4. ServerFollows' /\ Locks'
  BY DEF KInv, ServerFollows, Locks
<1> QED
  BY <1>1, <1>3, <1>4 DEF KInv

LEMMA KeyboardLeaveKeeps ==
  ASSUME KInv, KeyboardLeave
  PROVE  KInv'
<1> USE DEF KeyboardLeave, user, server, keyboard
<1>1. TypeOK'
  BY DEF KInv, TypeOK
<1>2. Loops' /\ Tracking'
  BY DEF KInv, Loops, Tracking
<1>4. ServerFollows' /\ Locks'
  BY DEF KInv, ServerFollows, Locks, Loops
<1> QED
  BY <1>1, <1>2, <1>4 DEF KInv

LEMMA KeyboardModifiersKeeps ==
  ASSUME Sound, KInv, KeyboardModifiers
  PROVE  KInv'
<1> USE DEF KeyboardModifiers, user, loop
<1>1. TypeOK'
  <2>1. level' \in BOOLEAN /\ led' \in BOOLEAN
    BY DEF KInv, TypeOK
  <2>2. remote_lock' \in BOOLEAN
    BY DEF KInv, TypeOK, ToggleLock, server
  <2> QED
    BY <2>1, <2>2 DEF KInv, TypeOK
<1>2. Loops' /\ Tracking'
  BY DEF KInv, Loops, Tracking
<1>3. ServerFollows'
  <2>1. CASE waiting /\ led # locked
    <3>1. LockKey \notin remote
      BY <2>1 DEF KInv, Loops, Tracking, ServerFollows
    <3>2. remote' = remote
      BY <2>1, <3>1 DEF ToggleLock, Ident, Sound
    <3> QED
      BY <3>2 DEF KInv, ServerFollows
  <2>2. CASE ~(waiting /\ led # locked)
    BY <2>2 DEF KInv, ServerFollows, server
  <2> QED
    BY <2>1, <2>2
<1>4. Locks'
  <2>1. remote_lock' = locked
    BY DEF KInv, TypeOK, Locks, ToggleLock, server
  <2> QED
    BY <2>1 DEF Locks
<1> QED
  BY <1>1, <1>2, <1>3, <1>4 DEF KInv

LEMMA LoopKeyKeeps ==
  ASSUME Sound, KInv, NEW k \in Keys, LoopKey(k)
  PROVE  KInv'
<1> USE DEF KInv
<1>1. /\ pc \in {"enter", "leave"} /\ k \in todo /\ todo' = todo \ {k}
      /\ HandleKey(k, pc = "enter")
      /\ UNCHANGED <<user, compositor, pc, led, waiting>>
  BY DEF LoopKey, TypeOK
<1>2. CASE pc = "enter"
  <2>1. k \in held /\ pressed = held \ todo /\ k \notin pressed /\ waiting /\ k # LockKey
    BY <1>1, <1>2 DEF Loops, Tracking
  <2>2. HandleKey(k, TRUE)
    BY <1>1, <1>2
  <2>3. /\ pressed' = pressed \cup {k} /\ pressed' \in SUBSET Keys
        /\ level' \in BOOLEAN /\ toggled' \in BOOLEAN
        /\ remote_lock' = remote_lock
        /\ ServerFollows'
    BY <2>1, <2>2, HandleKeyEffect
  <2>4. TypeOK'
    BY <1>1, <2>3 DEF TypeOK, user, compositor
  <2>5. Loops' /\ Tracking'
    BY <1>1, <1>2, <2>1, <2>3 DEF Loops, Tracking, user, compositor
  <2>6. Locks'
    BY <1>1, <2>3 DEF Locks, user, compositor
  <2> QED
    BY <2>3, <2>4, <2>5, <2>6
<1>3. CASE pc = "leave"
  <2>1. pressed = todo /\ ~focused
    BY <1>3 DEF Loops
  <2>2. HandleKey(k, FALSE)
    BY <1>1, <1>3
  <2>3. /\ pressed' = pressed \ {k} /\ pressed' \in SUBSET Keys
        /\ level' \in BOOLEAN /\ toggled' \in BOOLEAN
        /\ remote_lock' = remote_lock
        /\ ServerFollows'
    BY <2>2, HandleKeyEffect
  <2>4. TypeOK'
    BY <1>1, <2>3 DEF TypeOK, user, compositor
  <2>5. Loops' /\ Tracking'
    BY <1>1, <1>3, <2>1, <2>3 DEF Loops, Tracking, user, compositor
  <2>6. Locks'
    BY <1>1, <2>3 DEF Locks, user, compositor
  <2> QED
    BY <2>3, <2>4, <2>5, <2>6
<1> QED
  BY <1>1, <1>2, <1>3

LEMMA LoopEndsKeeps ==
  ASSUME KInv, LoopEnds
  PROVE  KInv'
<1> USE DEF LoopEnds, user, compositor, keyboard, server
<1>1. TypeOK'
  BY DEF KInv, TypeOK
<1>2. Loops' /\ Tracking' /\ ServerFollows' /\ Locks'
  BY DEF KInv, Loops, Tracking, ServerFollows, Locks
<1> QED
  BY <1>1, <1>2 DEF KInv

THEOREM Invariance ==
  ASSUME Sound
  PROVE  Spec => []KInv
<1>1. KInv /\ [Next]_vars => KInv'
  <2> SUFFICES ASSUME KInv, [Next]_vars PROVE KInv'
    OBVIOUS
  <2>1. CASE \E k \in Keys, down \in BOOLEAN : KeyUnseen(k, down)
    BY <2>1, KeyUnseenKeeps
  <2>2. CASE \E k \in Keys, down \in BOOLEAN : KeyboardKey(k, down)
    BY <2>2, Sound, KeyboardKeyKeeps
  <2>3. CASE KeyboardEnter
    BY <2>3, Sound, KeyboardEnterKeeps
  <2>4. CASE KeyboardLeave
    BY <2>4, KeyboardLeaveKeeps
  <2>5. CASE KeyboardModifiers
    BY <2>5, Sound, KeyboardModifiersKeeps
  <2>6. CASE \E k \in Keys : LoopKey(k)
    BY <2>6, Sound, LoopKeyKeeps
  <2>7. CASE LoopEnds
    BY <2>7, LoopEndsKeeps
  <2>8. CASE UNCHANGED vars
    BY <2>8 DEF KInv, TypeOK, Loops, Tracking, ServerFollows, Locks,
                vars, user, compositor, loop, keyboard, server
  <2> QED
    BY <2>1, <2>2, <2>3, <2>4, <2>5, <2>6, <2>7, <2>8 DEF Next
<1> QED
  BY <1>1, InitOK, PTL DEF Spec

(* Whatever the user and the compositor do, what keyboard.c tracks are keys *)
(* of the keyboard, and keyboard_enter and keyboard_leave are at a line of  *)
(* their loops.                                                             *)
THEOREM TypeCorrect ==
  ASSUME Sound
  PROVE  Spec => []TypeOK
<1>1. KInv => TypeOK
  BY DEF KInv
<1> QED
  BY <1>1, Invariance, PTL

(* Whatever the user and the compositor do, the server has down the keys    *)
(* that are held in the window, and none without the focus: keyboard_enter, *)
(* keyboard_leave and keyboard_key leave no key stuck.                      *)
THEOREM NoKeyIsStuck ==
  ASSUME Sound
  PROVE  Spec => []KeysAgree
<1>1. KInv => KeysAgree
  <2> SUFFICES ASSUME KInv, pc = "idle"
               PROVE  remote = IF focused THEN held \cap Sent ELSE {}
    BY DEF KeysAgree
  <2>1. todo = {} /\ remote = pressed \cap Sent
    BY DEF KInv, Loops, ServerFollows
  <2>2. CASE focused
    <3>1. pressed = held
      BY <2>1, <2>2 DEF KInv, Tracking
    <3> QED
      BY <2>1, <2>2, <3>1
  <2>3. CASE ~focused
    <3>1. pressed = {}
      BY <2>1, <2>3 DEF KInv, Tracking
    <3> QED
      BY <2>1, <2>3, <3>1
  <2> QED
    BY <2>2, <2>3
<1> QED
  BY <1>1, Invariance, PTL

(* keyboard_sync_led_state presses the lock key when the lock changed       *)
(* without the focus, and only then.                                       *)
THEOREM LockIsKept ==
  ASSUME Sound
  PROVE  Spec => []LocksAgree
<1>1. KInv => LocksAgree
  BY DEF KInv, Loops, Locks, LocksAgree
<1> QED
  BY <1>1, Invariance, PTL
-------------------------------------------------------------------------------
(* Which keys go up in a step.                                             *)
Toggles == toggled' # toggled
F12GoesUp == \E k \in Keys \ Sent : k \in pressed /\ k \notin pressed'

(* handle_key toggles for a key that goes up and is F12.                    *)
LEMMA HandleKeyToggles ==
  ASSUME Sound, KInv, NEW k \in Keys, NEW down \in BOOLEAN, HandleKey(k, down),
         ~down <=> k \in pressed
  PROVE  Toggles <=> F12GoesUp
<1>1. level' \in BOOLEAN /\ toggled \in BOOLEAN
  BY DEF HandleKey, KInv, TypeOK
<1>2. pressed' = IF down THEN pressed \cup {k} ELSE pressed \ {k}
  BY HandleKeyEffect
<1>3. k \notin Sent <=> Sym[k][level'] = F12
  BY <1>1 DEF Sound, Sent
<1>4. F12GoesUp <=> ~down /\ k \notin Sent
  BY <1>2 DEF F12GoesUp
<1>5. CASE k \in Sent
  <2>1. UNCHANGED toggled
    BY <1>3, <1>5 DEF HandleKey, OnEvent
  <2> QED
    BY <1>4, <1>5, <2>1 DEF Toggles
<1>6. CASE k \notin Sent
  <2>1. toggled' = IF down THEN toggled ELSE ~toggled
    BY <1>3, <1>6 DEF HandleKey, OnEvent
  <2>2. Toggles <=> ~down
    BY <1>1, <2>1 DEF Toggles
  <2> QED
    BY <1>4, <1>6, <2>2
<1> QED
  BY <1>5, <1>6

(* An F12 toggles the inhibitor once for each time it was down in the       *)
(* window: when it is let go or, where keyboard_leave makes that up, when   *)
(* the focus goes; its press and keyboard_enter toggle nothing.             *)
THEOREM TogglesOnRelease ==
  ASSUME Sound
  PROVE  Spec => F12Toggles
<1>1. KInv /\ [Next]_vars => (Toggles <=> F12GoesUp)
  <2> SUFFICES ASSUME KInv, [Next]_vars PROVE Toggles <=> F12GoesUp
    OBVIOUS
  <2>1. CASE UNCHANGED <<pressed, toggled>>
    BY <2>1 DEF Toggles, F12GoesUp
  <2>2. ASSUME NEW k \in Keys, NEW down \in BOOLEAN, KeyboardKey(k, down)
        PROVE  Toggles <=> F12GoesUp
    <3>1. HandleKey(k, down) /\ (down <=> k \notin held) /\ pressed = held
      BY <2>2 DEF KInv, KeyboardKey, Key, Loops, Tracking
    <3> QED
      BY <3>1, HandleKeyToggles
  <2>3. ASSUME NEW k \in Keys, LoopKey(k)
        PROVE  Toggles <=> F12GoesUp
    <3>1. /\ pc \in {"enter", "leave"} /\ k \in todo
          /\ HandleKey(k, pc = "enter")
      BY <2>3 DEF LoopKey, KInv, TypeOK
    <3>2. pc = "enter" <=> k \notin pressed
      BY <3>1 DEF KInv, Loops, Tracking
    <3>3. CASE pc = "enter"
      <4>1. HandleKey(k, TRUE)
        BY <3>1, <3>3
      <4> QED
        BY <3>2, <3>3, <4>1, HandleKeyToggles
    <3>4. CASE pc # "enter"
      <4>1. HandleKey(k, FALSE)
        BY <3>1, <3>4
      <4> QED
        BY <3>2, <3>4, <4>1, HandleKeyToggles
    <3> QED
      BY <3>3, <3>4
  <2>4. \/ UNCHANGED <<pressed, toggled>>
        \/ \E k \in Keys, down \in BOOLEAN : KeyboardKey(k, down)
        \/ \E k \in Keys : LoopKey(k)
    BY DEF Next, KeyUnseen, KeyboardEnter, KeyboardLeave, KeyboardModifiers,
           LoopEnds, keyboard, vars
  <2> QED
    BY <2>1, <2>2, <2>3, <2>4
<1>2. KInv /\ [Next]_vars =>
        [toggled' # toggled <=>
           \E k \in Keys \ Sent : k \in pressed /\ k \notin pressed']_vars
  BY <1>1 DEF Toggles, F12GoesUp
<1> QED
  BY <1>2, Invariance, PTL DEF Spec, F12Toggles
===============================================================================
