------------------------------- MODULE Keyboard -------------------------------
(***************************************************************************)
(* One keyboard (keyboard.c, on_keyboard_event of main.c): the compositor's *)
(* events go in, RFB key events come out.                                  *)
(*                                                                         *)
(* The compositor reports keys only while the window has the focus.  What   *)
(* happens without it has to be made up for: keyboard_enter presses the     *)
(* keys that are held when the focus arrives, keyboard_leave releases those *)
(* that are held when it goes, and keyboard_sync_led_state presses a lock   *)
(* key if the lock changed in between.                                     *)
(***************************************************************************)
EXTENDS Naturals, FiniteSets

CONSTANTS
  Keys,          \* the keys of the keyboard
  LockKey,       \* a key that toggles a lock with an LED (Caps Lock, ...)
  LevelKey,      \* a modifier that changes the symbols of other keys
  Sym,           \* Sym[k][l]: the symbol of key k, with LevelKey held or not
  F12,           \* XKB_KEY_F12
  Slots,         \* PRESSED_KEYS_MAX
  Extended,      \* does the server take QEMU extended key events?
  LockHeld       \* may the lock key be held while the focus arrives?

ASSUME KeyboardAssumption ==
  /\ IsFiniteSet(Keys)
  /\ {LockKey, LevelKey} \subseteq Keys /\ LockKey # LevelKey
  /\ DOMAIN Sym = Keys
  /\ \A l \in BOOLEAN : F12 \notin {Sym[LockKey][l], Sym[LevelKey][l]}
  /\ Slots \in Nat
  /\ Extended \in BOOLEAN /\ LockHeld \in BOOLEAN

VARIABLES
  held,      \* keys the user holds down
  locked,    \* the compositor's lock
  focused,   \* has the window the keyboard focus?
  mods_due,  \* a modifiers event follows the last event
  pc,        \* "idle"; "enter" or "leave": in that handler's loop
  todo,      \* the keys that loop has still to go through
  pressed,   \* keyboard.pressed_keys, without the order
  level,     \* LevelKey in keyboard.state
  led,       \* keyboard.led_state
  waiting,   \* keyboard.waiting_for_modifiers
  toggled,   \* has inhibitor_toggle been called an odd number of times?
  remote,    \* what the server takes to be down: keys, or without
             \* Extended symbols
  remote_lock \* the server's lock

user == <<held, locked>>
compositor == <<focused, mods_due>>
loop == <<pc, todo>>
keyboard == <<pressed, level, led, waiting>>
server == <<remote, remote_lock>>
vars == <<user, compositor, loop, keyboard, toggled, server>>

-------------------------------------------------------------------------------
(* The server: SendExtendedKeyEvent identifies a key by its code, while     *)
(* SendKeyEvent only tells its symbol.                                     *)
Ident(k, l) == IF Extended THEN k ELSE Sym[k][l]

ServerGets(k, l, is_pressed) ==
  /\ remote' = IF is_pressed THEN remote \cup {Ident(k, l)} ELSE remote \ {Ident(k, l)}
  /\ remote_lock' = IF k = LockKey /\ is_pressed THEN ~remote_lock ELSE remote_lock

(* Fault: F12 toggles when it is pressed, too.                              *)
OnEventBoth(k, l, is_pressed) ==
  IF Sym[k][l] = F12
  THEN toggled' = ~toggled /\ UNCHANGED server
  ELSE ServerGets(k, l, is_pressed) /\ UNCHANGED toggled

(* on_keyboard_event: F12 is not sent; its release toggles the inhibitor.   *)
OnEvent(k, l, is_pressed) ==
  IF Sym[k][l] = F12
  THEN /\ toggled' = IF is_pressed THEN toggled ELSE ~toggled
       /\ UNCHANGED server
  ELSE /\ ServerGets(k, l, is_pressed)
       /\ UNCHANGED toggled

(* Fault: the slots keep symbols, not keys.                                 *)
HandleKeySymbols(k, down) ==
  /\ level' = IF k = LevelKey THEN down ELSE level
  /\ pressed' = IF down THEN pressed \cup {Sym[k][level']} ELSE pressed \ {Sym[k][level']}
  /\ OnEvent(k, level', down)

(* handle_key.  With all slots taken the key is sent, but not remembered.   *)
HandleKey(k, down) ==
  /\ level' = IF k = LevelKey THEN down ELSE level
  /\ pressed' =
       IF ~down THEN pressed \ {k}
       ELSE IF Cardinality(pressed) < Slots THEN pressed \cup {k}
       ELSE pressed
  /\ OnEvent(k, level', down)

-------------------------------------------------------------------------------
(* The user presses or releases a key.  With the focus the compositor sends *)
(* a key event (keyboard_key), and a modifiers event if that changed any.   *)
Key(k, down) ==
  /\ pc = "idle" /\ ~mods_due
  /\ down <=> k \notin held
  /\ held' = IF down THEN held \cup {k} ELSE held \ {k}
  /\ locked' = IF k = LockKey /\ down THEN ~locked ELSE locked

KeyUnseen(k, down) ==
  /\ ~focused
  /\ Key(k, down)
  /\ UNCHANGED <<compositor, loop, keyboard, toggled, server>>

KeyboardKey(k, down) ==
  /\ focused
  /\ Key(k, down)
  /\ HandleKey(k, down)
  /\ mods_due' = (k \in {LockKey, LevelKey})
  /\ UNCHANGED <<focused, loop, led, waiting>>

(* The focus arrives, with the keys that are held. *)
KeyboardEnter ==
  /\ ~focused /\ pc = "idle"
  /\ LockKey \in held => LockHeld
  /\ focused' = TRUE /\ mods_due' = TRUE
  /\ waiting' = TRUE
  /\ pc' = "enter" /\ todo' = held
  /\ UNCHANGED <<user, pressed, level, led, toggled, server>>

(* Fault: the loss of the focus releases nothing.                           *)
KeyboardLeaveSilently ==
  /\ focused /\ ~mods_due /\ pc = "idle"
  /\ focused' = FALSE
  /\ pc' = "leave" /\ todo' = {}
  /\ UNCHANGED <<user, mods_due, keyboard, toggled, server>>

KeyboardLeave ==
  /\ focused /\ ~mods_due /\ pc = "idle"
  /\ focused' = FALSE
  /\ pc' = "leave" /\ todo' = pressed
  /\ UNCHANGED <<user, mods_due, keyboard, toggled, server>>

(* One turn of the loop of keyboard_enter or keyboard_leave. *)
LoopKey(k) ==
  /\ pc # "idle"
  /\ k \in todo
  /\ todo' = todo \ {k}
  /\ HandleKey(k, pc = "enter")
  /\ UNCHANGED <<user, compositor, pc, led, waiting>>

LoopEnds ==
  /\ pc # "idle" /\ todo = {}
  /\ pc' = "idle"
  /\ UNCHANGED <<user, compositor, todo, keyboard, toggled, server>>

(* keyboard_toggle_key: pressed and released at once. *)
ToggleLock ==
  /\ remote' = remote \ {Ident(LockKey, level')}
  /\ remote_lock' = ~remote_lock

(* Fault: the lock key is sent on every change of the LED, also when the    *)
(* server has had the key itself.                                           *)
KeyboardModifiersAlways ==
  /\ focused /\ mods_due /\ pc = "idle"
  /\ mods_due' = FALSE
  /\ level' = (LevelKey \in held)
  /\ led' = locked
  /\ waiting' = FALSE
  /\ IF led # locked THEN ToggleLock ELSE UNCHANGED server
  /\ UNCHANGED <<user, focused, loop, pressed, toggled>>

(* keyboard_modifiers, keyboard_sync_led_state. *)
KeyboardModifiers ==
  /\ focused /\ mods_due /\ pc = "idle"
  /\ mods_due' = FALSE
  /\ level' = (LevelKey \in held)
  /\ led' = locked
  /\ waiting' = FALSE
  /\ IF waiting /\ led # locked THEN ToggleLock ELSE UNCHANGED server
  /\ UNCHANGED <<user, focused, loop, pressed, toggled>>

-------------------------------------------------------------------------------
Init ==
  /\ held = {} /\ locked \in BOOLEAN
  /\ focused = FALSE /\ mods_due = FALSE
  /\ pc = "idle" /\ todo = {}
  /\ pressed = {} /\ level = FALSE /\ led = FALSE /\ waiting = FALSE
  /\ toggled = FALSE
  /\ remote = {} /\ remote_lock = FALSE

Next ==
  \/ \E k \in Keys, down \in BOOLEAN : KeyUnseen(k, down) \/ KeyboardKey(k, down)
  \/ KeyboardEnter \/ KeyboardLeave \/ KeyboardModifiers
  \/ \E k \in Keys : LoopKey(k)
  \/ LoopEnds

Spec == Init /\ [][Next]_vars

-------------------------------------------------------------------------------
(* Properties.                                                             *)

TypeOK ==
  /\ held \in SUBSET Keys /\ locked \in BOOLEAN
  /\ focused \in BOOLEAN /\ mods_due \in BOOLEAN
  /\ pc \in {"idle", "enter", "leave"} /\ todo \in SUBSET Keys
  /\ pressed \in SUBSET Keys /\ level \in BOOLEAN
  /\ led \in BOOLEAN /\ waiting \in BOOLEAN
  /\ toggled \in BOOLEAN
  /\ remote_lock \in BOOLEAN

(* Keys that keep their meaning while they are held. *)
Sent == {k \in Keys : F12 \notin {Sym[k][FALSE], Sym[k][TRUE]}}

(* The server has down exactly the keys that the user holds, and none when  *)
(* the window has lost the focus: a key whose release the compositor never  *)
(* reports is released by keyboard_leave, one whose press it never reported *)
(* is pressed by keyboard_enter.                                           *)
KeysAgree ==
  Extended /\ pc = "idle" =>
    remote = IF focused THEN held \cap Sent ELSE {}

(* With the focus, and the modifiers known, the server's lock is the        *)
(* compositor's, wherever it was changed.                                   *)
LocksAgree == focused /\ ~mods_due /\ pc = "idle" => remote_lock = locked

(* The inhibitor is toggled when an F12 that was pressed here is released   *)
(* or the focus is lost with it, and at no other time (on_keyboard_event).  *)
F12Toggles ==
  [][toggled' # toggled <=>
       \E k \in Keys \ Sent : k \in pressed /\ k \notin pressed']_vars
===============================================================================
