--------------------------------- MODULE Seats ---------------------------------
(***************************************************************************)
(* Seats, their keyboards and the shortcut inhibitor (registry_add,         *)
(* registry_remove, on_seat_capability_change of main.c, seat.c,            *)
(* inhibitor.c), with -i given.                                             *)
(*                                                                         *)
(* The compositor announces its globals, the inhibit manager among them, in *)
(* an order of its own, reports a seat's capabilities whenever they change, *)
(* and configures the window some time later.  What each of these finds     *)
(* done decides what it does.  A seat is a struct seat that is freed when   *)
(* the seat goes, while the inhibitor's list goes on naming its address.    *)
(***************************************************************************)
EXTENDS Naturals, FiniteSets

CONSTANTS
  Seats,         \* the compositor's seats
  Addresses,     \* where a struct seat may be
  MaxKeyboards   \* bound: wl_keyboard objects of a seat

ASSUME SeatsAssumption == MaxKeyboards \in Nat

VARIABLES
  announced,  \* seats that were ever announced: ids are not used again
  early,      \* those of them that were announced before the manager
  memory,     \* the seat of main.c's list at each address, as a set
  manager,    \* has inhibitor_new been called?
  configured, \* has the window been configured: "no", "without" the manager, "with"
  known,      \* addresses with a shortcuts_seat_inhibitor
  object,     \* its inhibitor: the seat it was made for, as a set, {} for NULL
  active,     \* its "active"
  live,       \* inhibitor objects the compositor has, by seat
  keyboards,  \* wl_keyboard objects, by seat
  owed,       \* keyboards of a seat the release of F12 goes to yet
  off,        \* seats whose user has toggled the inhibitor off
  mistaken,   \* seats that found an entry and have not been inhibited since
  failed,     \* seats that an assertion has failed for
  crashed     \* was libwayland given a null surface or a freed seat?

globals == <<announced, early, memory, manager>>
inhibitor == <<known, object, active, live, mistaken>>
input == <<keyboards, owed>>
fate == <<failed, crashed>>
vars == <<globals, configured, inhibitor, input, off, fate>>

-------------------------------------------------------------------------------
Running == failed = {} /\ ~crashed
SeatsAt(A) == UNION {memory[a] : a \in A}
seats == SeatsAt(Addresses)

(* shortcuts_inhibitor.surface is set. *)
Surface == configured = "with"

(* inhibitor_inhibit, for the seats at the addresses of entries. *)
Inhibit(A) ==
  LET new == {a \in A : object[a] = {}}
  IN /\ object' = [a \in Addresses |-> IF a \in new THEN memory[a] ELSE object[a]]
     /\ live' = [s \in Seats |-> live[s] + IF s \in SeatsAt(new) THEN 1 ELSE 0]
     /\ mistaken' = mistaken \ SeatsAt(new)

(* Fault: the entry is made, but left to inhibitor_init to inhibit. *)
AddSeatLate(s, a) ==
  /\ known' = IF manager THEN known \cup {a} ELSE known
  /\ mistaken' = IF manager /\ a \in known THEN mistaken \cup {s} ELSE mistaken
  /\ UNCHANGED <<object, live>>

(* Fault: a seat is left to inhibitor_init to find. *)
AddSeatForgotten(s, a) == UNCHANGED <<known, object, live, mistaken>>

(* Nothing is done before the manager is known, or if the list has the      *)
(* seat's address already; the new seat is at that address by memory'.      *)
inhibitor_add_seat(s, a) ==
  IF ~manager
  THEN UNCHANGED <<known, object, live, mistaken>>
  ELSE IF a \in known
  THEN mistaken' = mistaken \cup {s} /\ UNCHANGED <<known, object, live>>
  ELSE /\ known' = known \cup {a}
       /\ UNCHANGED mistaken
       /\ IF Surface
          THEN /\ object' = [object EXCEPT ![a] = {s}]
               /\ live' = [live EXCEPT ![s] = @ + 1]
          ELSE UNCHANGED <<object, live>>

(* registry_add: the inhibit manager. *)
GlobalManager ==
  /\ Running /\ ~manager
  /\ manager' = TRUE
  /\ UNCHANGED <<announced, early, memory, configured, inhibitor, input, off, fate>>

(* registry_add: a seat, wherever seat_new finds room. *)
GlobalSeat(s, a) ==
  /\ Running /\ s \notin announced /\ memory[a] = {}
  /\ announced' = announced \cup {s}
  /\ early' = IF manager THEN early ELSE early \cup {s}
  /\ memory' = [memory EXCEPT ![a] = {s}]
  /\ inhibitor_add_seat(s, a)
  /\ UNCHANGED <<manager, configured, active, input, off, fate>>

(* registry_remove: the seat is freed; its entry, its inhibitor and its     *)
(* keyboards stay where they are.  No key comes from it any more.           *)
GlobalRemove(s) ==
  /\ Running /\ s \in seats /\ owed[s] = 0
  /\ memory' = [a \in Addresses |-> memory[a] \ {s}]
  /\ UNCHANGED <<announced, early, manager, configured, inhibitor, input, off, fate>>

(* seat_capabilities, on_seat_capability_change: a keyboard is made for     *)
(* every event that mentions one.                                           *)
Capabilities(s) ==
  /\ Running /\ s \in seats /\ owed[s] = 0
  /\ keyboards[s] < MaxKeyboards
  /\ keyboards' = [keyboards EXCEPT ![s] = @ + 1]
  /\ UNCHANGED <<globals, configured, inhibitor, owed, off, fate>>

(* Fault: every configure event inhibits, not only the first. *)
XdgSurfaceConfigureAgain ==
  /\ Running
  /\ configured' = IF manager THEN "with" ELSE "without"
  /\ object' = [a \in Addresses |->
                  IF manager /\ a \in known /\ memory[a] # {} THEN memory[a] ELSE object[a]]
  /\ live' = [s \in Seats |-> live[s] + IF manager /\ s \in SeatsAt(known) THEN 1 ELSE 0]
  /\ UNCHANGED <<globals, known, active, mistaken, input, off, fate>>

(* xdg_surface_configure: inhibitor_init, which does something once, if the *)
(* manager is known: it goes through the list and hands libwayland what it  *)
(* finds at the addresses, a freed seat too, for which nothing is promised. *)
XdgSurfaceConfigure ==
  /\ Running
  /\ IF ~manager \/ Surface
     THEN /\ configured' = IF configured = "no" THEN "without" ELSE configured
          /\ UNCHANGED <<object, live, mistaken, crashed>>
     ELSE IF \E a \in known : memory[a] = {}
     THEN crashed' = TRUE /\ UNCHANGED <<configured, object, live, mistaken>>
     ELSE configured' = "with" /\ Inhibit(known) /\ UNCHANGED crashed
  /\ UNCHANGED <<globals, known, active, input, off, failed>>

(* inhibitor_active, inhibitor_inactive: an event of the object goes to the *)
(* entry that it was made for.                                              *)
InhibitorActive(a) ==
  /\ Running /\ object[a] # {}
  /\ active' = [active EXCEPT ![a] = TRUE]
  /\ UNCHANGED <<globals, configured, known, object, live, mistaken, input, off, fate>>

InhibitorInactive(a) ==
  /\ Running /\ object[a] # {}
  /\ active' = [active EXCEPT ![a] = FALSE]
  /\ UNCHANGED <<globals, configured, known, object, live, mistaken, input, off, fate>>

(* The user releases F12 over the window, which is there once it is         *)
(* configured: every keyboard of the seat gets the event.                   *)
F12Released(s) ==
  /\ Running /\ configured # "no" /\ s \in seats
  /\ owed[s] = 0 /\ keyboards[s] > 0
  /\ owed' = [owed EXCEPT ![s] = keyboards[s]]
  /\ UNCHANGED <<globals, configured, inhibitor, keyboards, off, fate>>

(* One of them gets it and calls inhibitor_toggle with the seat's address.  *)
Delivered(s, a) ==
  /\ Running /\ s \in memory[a] /\ owed[s] > 0
  /\ owed' = [owed EXCEPT ![s] = @ - 1]
  /\ UNCHANGED <<globals, configured, known, active, keyboards>>

(* There is no inhibitor yet. *)
ToggleNothing(s, a) ==
  /\ Delivered(s, a) /\ ~manager
  /\ UNCHANGED <<object, live, mistaken, off, fate>>

(* inhibitor_is_inhibited finds no entry, its assertion fails. *)
ToggleUnknown(s, a) ==
  /\ Delivered(s, a) /\ manager /\ a \notin known
  /\ failed' = failed \cup {s}
  /\ UNCHANGED <<object, live, mistaken, off, crashed>>

(* inhibitor_release.  An inhibitor that the compositor has not yet made    *)
(* active is left alone, and "active" outlives the object it was said of.   *)
ToggleRelease(s, a) ==
  /\ Delivered(s, a) /\ a \in known /\ object[a] # {}
  /\ IF active[a]
     THEN /\ object' = [object EXCEPT ![a] = {}]
          /\ live' = [r \in Seats |-> live[r] - IF r \in object[a] THEN 1 ELSE 0]
          /\ off' = off \cup {s}
     ELSE UNCHANGED <<object, live, off>>
  /\ UNCHANGED <<mistaken, fate>>

(* inhibitor_inhibit, with the surface that inhibitor_init has set or none. *)
ToggleInhibit(s, a) ==
  /\ Delivered(s, a) /\ a \in known /\ object[a] = {}
  /\ IF Surface
     THEN Inhibit({a}) /\ off' = off \ {s} /\ UNCHANGED crashed
     ELSE crashed' = TRUE /\ UNCHANGED <<object, live, mistaken, off>>
  /\ UNCHANGED failed

-------------------------------------------------------------------------------
Init ==
  /\ announced = {} /\ early = {} /\ manager = FALSE /\ configured = "no"
  /\ memory = [a \in Addresses |-> {}]
  /\ known = {} /\ object = [a \in Addresses |-> {}]
  /\ active = [a \in Addresses |-> FALSE]
  /\ live = [s \in Seats |-> 0]
  /\ keyboards = [s \in Seats |-> 0] /\ owed = [s \in Seats |-> 0]
  /\ off = {} /\ mistaken = {} /\ failed = {} /\ crashed = FALSE

Next ==
  \/ GlobalManager \/ XdgSurfaceConfigure
  \/ \E s \in Seats : GlobalRemove(s) \/ Capabilities(s) \/ F12Released(s)
  \/ \E a \in Addresses : InhibitorActive(a) \/ InhibitorInactive(a)
  \/ \E s \in Seats, a \in Addresses :
       \/ GlobalSeat(s, a) \/ ToggleNothing(s, a) \/ ToggleUnknown(s, a)
       \/ ToggleRelease(s, a) \/ ToggleInhibit(s, a)

Spec == Init /\ [][Next]_vars

-------------------------------------------------------------------------------
(* Properties.                                                             *)

(* The compositor has an inhibitor of a seat exactly when an entry of the   *)
(* list holds it, and never two, which would be a protocol error:           *)
(* inhibitor_init, inhibitor_add_seat and the toggles do not get in each    *)
(* other's way, though seats come and go and leave entries behind.          *)
OneInhibitor ==
  \A s \in Seats : live[s] = IF \E a \in Addresses : s \in object[a] THEN 1 ELSE 0

(* "-i": once a configure event has found the inhibit manager, a seat is    *)
(* inhibited by the entry of its own address, whether it was announced      *)
(* before that event (inhibitor_init) or after (inhibitor_add_seat).        *)
(* Except, and this is the whole list: its user has toggled that off; it    *)
(* was announced before the manager; it was given the address of a seat     *)
(* that had gone and has not been inhibited since.                          *)
InhibitedOnceConfigured ==
  Surface => \A a \in Addresses : memory[a] \ (off \cup early \cup mistaken) \subseteq object[a]

(* The assertion of inhibitor_is_inhibited fails, when F12 is released on   *)
(* it, for no seat but one that was announced before the inhibit manager:   *)
(* no order of the other events leads there.                                *)
AbortsForEarlySeats == failed \subseteq early
===============================================================================
