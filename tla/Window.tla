--------------------------------- MODULE Window --------------------------------
(***************************************************************************)
(* The window, the scale of its outputs and where the picture is in it      *)
(* (main.c, output.c).                                                      *)
(*                                                                         *)
(* The picture is a subsurface in a window of the size the compositor       *)
(* wants, as large as fits without being distorted.  Sizes are in the       *)
(* compositor's units; a buffer has "scale" pixels for each of them.  The   *)
(* doubles of the code are taken for the fractions they stand for.          *)
(***************************************************************************)
EXTENDS Integers, FiniteSetsExt

CONSTANTS
  Outputs,      \* the compositor's outputs
  OutputScales, \* scales that outputs are given
  Factors,      \* scales that the compositor prefers for the window
  Sizes,        \* <<width, height>> the compositor may want, 0 for "as you like"
  ScreenSizes   \* <<width, height>> of the server's screen

ASSUME WindowAssumption ==
  /\ IsFiniteSet(Outputs)
  /\ OutputScales \cup Factors \subseteq Nat \ {0}
  /\ Sizes \subseteq Nat \X Nat
  /\ ScreenSizes \subseteq (Nat \ {0}) \X (Nat \ {0})

VARIABLES
  outputs,    \* main.c's list
  scaleOf,    \* output->scale, 0 at first
  on,         \* outputs with has_surface
  preferred,  \* window->preferred_buffer_scale, 0 for none
  screen,     \* width and height of the server's screen
  window,     \* its width, height and scale
  layout,     \* the picture's place and size, as told to the compositor
  laidFor,    \* the screen it was laid out for (history)
  stale       \* was there an event since that lays nothing out? (history)

display == <<outputs, scaleOf, on, preferred>>
laid == <<layout, laidFor, stale>>
wvars == <<display, screen, window, laid>>

-------------------------------------------------------------------------------
NoWindow == [width |-> -1, height |-> -1, scale |-> 0]
window_create == [width |-> 0, height |-> 0, scale |-> 0]
Open == window # NoWindow

output_list_get_max_scale == Max({1} \cup {scaleOf[o] : o \in on})

window_get_scale == IF preferred # 0 THEN preferred ELSE output_list_get_max_scale

(* Size of the picture in pixels of the buffer; its ratio to the server's   *)
(* screen is num / den.  Ratios that differ by less than a hundredth are    *)
(* taken for the same.                                                      *)
window_calculate_buffer(w, source) ==
  LET width == w.width * w.scale
      height == w.height * w.scale
      across == width * source[2]   \* the ratios, over one denominator
      down == height * source[1]
      alike == LET d == 100 * (across - down)
               IN d \in 1 - source[1] * source[2] .. source[1] * source[2] - 1
      fit == IF across < down THEN [num |-> width, den |-> source[1]]
                              ELSE [num |-> height, den |-> source[2]]
  IN [num |-> fit.num, den |-> fit.den,
      width |-> IF alike \/ across < down THEN width ELSE (source[1] * fit.num) \div fit.den,
      height |-> IF alike \/ across >= down THEN height ELSE (source[2] * fit.num) \div fit.den]

LaidOut(w, source) ==
  LET b == window_calculate_buffer(w, source)
      width == b.width \div w.scale
      height == b.height \div w.scale
  IN [x |-> (w.width - width) \div 2, y |-> (w.height - height) \div 2,
      width |-> width, height |-> height]

LayOut(w) ==
  layout' = LaidOut(w, screen') /\ laidFor' = screen' /\ stale' = FALSE

(* Fault: only a new size counts as a change. *)
ResizeBySize(w, width, height) ==
  LET new == [width |-> width, height |-> height, scale |-> window_get_scale']
  IN IF 0 \in {width, height, new.scale} \/ (w.width = width /\ w.height = height)
     THEN window' = w /\ UNCHANGED laid
     ELSE window' = new /\ LayOut(new)

window_resize(w, width, height) ==
  LET new == [width |-> width, height |-> height, scale |-> window_get_scale']
  IN IF 0 \in {width, height, new.scale} \/ new = w
     THEN window' = w /\ UNCHANGED laid
     ELSE window' = new /\ LayOut(new)

-------------------------------------------------------------------------------
(* registry_add: an output. *)
GlobalOutput(o) ==
  /\ o \notin outputs
  /\ outputs' = outputs \cup {o}
  /\ UNCHANGED <<scaleOf, on, preferred, screen, window, laid>>

(* output_handle_scale: nothing is laid out. *)
OutputScale(o, factor) ==
  /\ o \in outputs
  /\ scaleOf' = [scaleOf EXCEPT ![o] = factor]
  /\ UNCHANGED <<outputs, on, preferred, screen, window, layout, laidFor>>
  /\ stale' = (stale \/ (Open /\ window_get_scale' # window_get_scale))

(* on_vnc_client_alloc_fb: the window is made for the first framebuffer,    *)
(* and left as it is for those that follow.                                 *)
AllocFb(size) ==
  /\ screen' = size
  /\ UNCHANGED display
  /\ IF Open
     THEN stale' = (stale \/ size # screen) /\ UNCHANGED <<window, layout, laidFor>>
     ELSE window_resize(window_create, size[1], size[2])

(* xdg_toplevel_configure *)
ToplevelConfigure(size) ==
  /\ Open
  /\ UNCHANGED <<display, screen>>
  /\ window_resize(window, size[1], size[2])

SurfaceEnter(o) ==
  /\ Open /\ o \in outputs \ on
  /\ on' = on \cup {o}
  /\ UNCHANGED <<outputs, scaleOf, preferred, screen>>
  /\ window_resize(window, window.width, window.height)

SurfaceLeave(o) ==
  /\ Open /\ o \in on
  /\ on' = on \ {o}
  /\ UNCHANGED <<outputs, scaleOf, preferred, screen>>
  /\ window_resize(window, window.width, window.height)

PreferredBufferScale(factor) ==
  /\ Open
  /\ preferred' = factor
  /\ UNCHANGED <<outputs, scaleOf, on, screen>>
  /\ window_resize(window, window.width, window.height)

WindowInit ==
  /\ outputs = {} /\ scaleOf = [o \in Outputs |-> 0] /\ on = {} /\ preferred = 0
  /\ screen = <<0, 0>> /\ window = NoWindow
  /\ stale = FALSE /\ laidFor = <<0, 0>>
  /\ layout = [x |-> 0, y |-> 0, width |-> 0, height |-> 0]

WindowNext ==
  \/ \E o \in Outputs : \/ GlobalOutput(o) \/ SurfaceEnter(o) \/ SurfaceLeave(o)
                        \/ \E factor \in OutputScales : OutputScale(o, factor)
  \/ \E factor \in Factors : PreferredBufferScale(factor)
  \/ \E size \in ScreenSizes : AllocFb(size)
  \/ \E size \in Sizes : ToplevelConfigure(size)

-------------------------------------------------------------------------------
(* round() of a / b, for what is not negative *)
Round(a, b) == (2 * a + b) \div (2 * b)

(* Fault: positions are taken for pixels of the buffer. *)
PositionUnscaled(p, b) == Round(p * b.den, 2 * b.num)

(* on_pointer_event: the coordinate that is sent for one of the pointer's,  *)
(* in halves, on the picture.                                               *)
surface_coord_to_buffer_coord(p) == Round(p * window_get_scale, 2)
PointerPosition(p, b) == Round(surface_coord_to_buffer_coord(p) * b.den, b.num)

-------------------------------------------------------------------------------
(* Properties.                                                             *)

(* What is asked for now is what was laid out last. *)
Current == window.scale = window_get_scale /\ screen = laidFor

(* Whatever the compositor has said of sizes and scales, and in whichever   *)
(* order, the picture is inside the window, in its middle, from edge to     *)
(* edge in one direction, and not distorted by more than the pixel lost to  *)
(* rounding and the hundredth that the code allows itself, for the screen   *)
(* that it was laid out for (window_resize).  And that is the screen of     *)
(* now, at the scale of now, unless one of two events, which lay nothing    *)
(* out, has come since: an output's scale (output_handle_scale), or a new   *)
(* size of the server's screen with a window there (on_vnc_client_alloc_fb).*)
PictureFits ==
  Open =>
    LET room == <<window.width - layout.width, window.height - layout.height>>
        skew == layout.width * laidFor[2] - layout.height * laidFor[1]
        limit == Max({laidFor[1], laidFor[2]}) + (laidFor[1] * laidFor[2]) \div 100
    IN /\ room[1] >= 0 /\ room[2] >= 0 /\ 0 \in {room[1], room[2]}
       /\ room[1] - 2 * layout.x \in 0 .. 1 /\ room[2] - 2 * layout.y \in 0 .. 1
       /\ skew \in -limit .. limit
       /\ stale \/ Current

(* Wherever the pointer is on the picture, the position that is sent is     *)
(* that of the server's pixel there, within a unit of the compositor's and  *)
(* the same hundredth (on_pointer_event).                                   *)
SentInPlace ==
  LET b == window_calculate_buffer(window, screen)
      Near(x, p, dest, source) ==   \* p / 2 / dest is where x / source is
        LET off == 50 * b.num * (2 * x * dest - p * source)
            limit == dest * (100 * b.den * (window.scale + 1) + 100 * b.num + source * b.den)
        IN off \in -limit .. limit
  IN /\ \A p \in 0 .. 2 * layout.width :
          Near(PointerPosition(p, b), p, layout.width, screen[1])
     /\ \A p \in 0 .. 2 * layout.height :
          Near(PointerPosition(p, b), p, layout.height, screen[2])

(* The server is told of the pixel that the pointer is on as long as        *)
(* nothing has changed since the picture was laid out: a position is        *)
(* converted with the numbers of now, the picture is where those of the     *)
(* last window_resize have put it.  After an output's scale or a new screen *)
(* that was not laid out, nothing is said of where it points to.            *)
PointerOnTarget == Open /\ Current => SentInPlace
===============================================================================
