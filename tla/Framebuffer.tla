------------------------------ MODULE Framebuffer ------------------------------
(***************************************************************************)
(* From the rectangles of a FramebufferUpdate message to the picture on the *)
(* screen: HandleFramebufferUpdate of rfbproto.c, its callbacks in vnc.c,   *)
(* the window's three buffers in main.c and buffer.c, and the two          *)
(* renderers.                                                              *)
(*                                                                         *)
(* Rectangles are decoded into one framebuffer (vnc_fb).  At the end of an  *)
(* update the damaged part of it is copied to the next of three buffers,    *)
(* which the compositor reads and releases later.  A buffer is drawn into   *)
(* only every third time, so each has a damage region of its own.  Video    *)
(* frames bypass the framebuffer and are drawn directly.                    *)
(*                                                                         *)
(* Pixel values are not represented.  A picture (the framebuffer, a buffer, *)
(* the renderer's texture, the compositor's copy) is the set of its pixels  *)
(* that are old: that do not have the value the server sent last.           *)
(***************************************************************************)
EXTENDS Naturals, FiniteSets

CONSTANTS
  Pixels,         \* the pixels of the largest screen
  Sizes,          \* the sizes the server's screen takes
  Area,           \* Area[s]: the pixels of a screen of size s
  FirstSize,      \* the size it has at first
  Rects,          \* the rectangles that updates are made of
  Extent(_),      \* pixman_region_extents
  None,           \* no rectangle, no buffer, no texture
  Setups          \* the setups to look at: sets of records with fields
                  \*   egl      have_egl
                  \*   video    Open H.264 rectangles: "none"; "whole": every
                  \*            update is one that covers the screen; "any":
                  \*            also mixed with others
                  \*   resizes  does the server ever change the size of its
                  \*            screen?
                  \*   prompt   does the compositor release a buffer before the
                  \*            update after the one that replaced it?

ASSUME FramebufferAssumption ==
  /\ Area \in [Sizes -> SUBSET Pixels]
  /\ FirstSize \in Sizes
  /\ Rects \subseteq SUBSET Pixels
  /\ \A r \in SUBSET Pixels : r \subseteq Extent(r)
  /\ None \notin Sizes /\ None \notin Rects /\ None # {}
  /\ None \notin {Area[s] : s \in Sizes}
  /\ None \notin 0..2
  /\ Setups \subseteq [egl : BOOLEAN, video : {"none", "whole", "any"},
                      resizes : BOOLEAN, prompt : BOOLEAN]
  /\ \A s \in Setups : s.video # "none" => s.egl

VARIABLES
  setup,     \* one of the setups; it does not change
  phase,     \* "idle", "update" (HandleFramebufferUpdate runs) or "exit"
  cur,       \* the rectangle decoded and not yet reported, or None
  is_av,     \* vnc_client.current_rect_is_av_frame
  damage,    \* vnc_client.damage
  av,        \* vnc_client.av_frames: the rectangles of the frames
  size,      \* client->width and client->height
  fb,        \* old pixels of window.vnc_fb
  unseen,    \* pixels that the server has not sent since the size changed
  bdamage,   \* buffer.damage, of each of the three buffers
  old,       \* old pixels of each buffer
  attached,  \* buffer.is_attached
  index,     \* window.buffer_index
  back,      \* window.back_buffer
  shown,     \* the buffer committed last, None if it is of another size
  screen,    \* old pixels of what the compositor shows
  tex,       \* size of the EGL renderer's texture, None if there is none
  texels     \* old pixels of the texture

update == <<phase, cur, is_av, damage, av>>
picture == <<size, fb, unseen>>
window == <<bdamage, old, attached, index, back, shown, screen>>
texture == <<tex, texels>>
vars == <<setup, update, picture, window, texture>>

Buffers == 0..2

-------------------------------------------------------------------------------
(* The message.  Every read of it may run the event loop, which is why a    *)
(* buffer can be released between any two of these actions.                 *)

(* StartingFrameBufferUpdate: vnc_client_start_update. *)
StartUpdate ==
  /\ phase = "idle" /\ phase' = "update"
  /\ damage' = {} /\ av' = {}
  /\ UNCHANGED <<setup, cur, is_av, picture, window, texture>>

NextRect(r) == phase = "update" /\ cur = None /\ cur' = r

(* The server's value of the pixels of r is a new one. *)
Received(r) ==
  /\ unseen' = unseen \ r
  /\ old' = [b \in Buffers |-> old[b] \cup r]
  /\ screen' = screen \cup r
  /\ texels' = texels \cup r

(* A rectangle of pixels or a CopyRect, inside the framebuffer: "Rect too   *)
(* large" fails otherwise.                                                  *)
DecodePixels(r) ==
  /\ setup.video # "whole"
  /\ r \subseteq Area[size]
  /\ NextRect(r)
  /\ fb' = fb \ r
  /\ Received(r)
  /\ UNCHANGED <<setup, phase, is_av, damage, av, size,
                 bdamage, attached, index, back, shown, tex>>

(* vnc_client_handle_open_h264_rect: the frame is kept, vnc_fb is not      *)
(* written.                                                                *)
DecodeVideo(r) ==
  /\ setup.video # "none"
  /\ r \subseteq Area[size] /\ (setup.video = "whole" => r = Area[size])
  /\ NextRect(r)
  /\ av' = av \cup {r}
  /\ is_av' = TRUE
  /\ fb' = fb \cup r
  /\ Received(r)
  /\ UNCHANGED <<setup, phase, damage, size,
                 bdamage, attached, index, back, shown, tex>>

(* A presentation time stamp or the QEMU key event announcement, which have *)
(* no area but are reported like a rectangle of pixels.                     *)
PseudoRect ==
  /\ NextRect({})
  /\ UNCHANGED <<setup, phase, is_av, damage, av, picture, window, texture>>

(* GotFrameBufferUpdate: vnc_client_update_box. *)
RectDone ==
  /\ cur # None /\ phase = "update"
  /\ is_av' = FALSE
  /\ damage' = IF is_av THEN damage ELSE damage \cup cur
  /\ cur' = None
  /\ UNCHANGED <<setup, phase, av, picture, window, texture>>

(* DesktopSize and ExtendedDesktopSize rectangles, between others, and the  *)
(* ResizeFrameBuffer message: on_vnc_client_alloc_fb replaces the buffers   *)
(* and vnc_fb, whose contents are not initialised.                          *)
Resize(s) ==
  /\ setup.resizes
  /\ phase \in {"idle", "update"} /\ cur = None
  /\ size' = s
  /\ fb' = Area[s] /\ unseen' = Area[s]
  /\ bdamage' = [b \in Buffers |-> Area[s]]
  /\ old' = [b \in Buffers |-> Area[s]]
  /\ attached' = [b \in Buffers |-> FALSE]
  /\ back' = 0
  /\ shown' = None
  /\ screen' = Area[s]
  /\ texels' = Pixels
  /\ UNCHANGED <<setup, update, index, tex>>

(* A read or a decoder fails: vnc_client_process returns -1 and the client  *)
(* exits.                                                                   *)
CancelUpdate ==
  /\ phase = "update" /\ phase' = "exit"
  /\ UNCHANGED <<setup, cur, is_av, damage, av, picture, window, texture>>

-------------------------------------------------------------------------------
(* The end of an update: vnc_client_finish_update, on_vnc_client_update_fb. *)

Finish == phase = "update" /\ cur = None /\ phase' = "idle"

NothingToShow ==
  /\ Finish
  /\ damage = {} /\ av = {}
  /\ UNCHANGED <<setup, cur, is_av, damage, av, picture, window, texture>>

(* Fault: the areas of the video frames are not part of the frame's damage. *)
FrameDamageNoAv == damage

(* get_frame_damage *)
FrameDamage == damage \cup (UNION av)

(* Fault: only the buffer that is drawn now gets the frame's damage.        *)
BufferDamageBackOnly == [bdamage EXCEPT ![back] = @ \cup FrameDamage]

(* apply_buffer_damage *)
BufferDamage == [b \in Buffers |-> bdamage[b] \cup FrameDamage]

(* Fault: what is copied is the frame's damage, not the buffer's.           *)
RenderImageFrameOnly ==
  /\ old' = [old EXCEPT ![back] = (@ \ FrameDamage) \cup (FrameDamage \cap fb)]
  /\ UNCHANGED texture

(* render_image: copies the pixels of vnc_fb the buffer's damage clips to.  *)
RenderImage ==
  LET drawn == BufferDamage[back] \cap Area[size] IN
  /\ old' = [old EXCEPT ![back] = (@ \ drawn) \cup (drawn \cap fb)]
  /\ UNCHANGED texture

(* Fault: the texture is uploaded when it is created, and not again.        *)
RenderImageEglOnce ==
  LET drawn == Extent(BufferDamage[back]) \cap Area[size] IN
  /\ tex' = IF tex = None THEN size ELSE tex
  /\ texels' = IF tex = None THEN fb ELSE texels
  /\ old' = [old EXCEPT ![back] = (@ \ drawn) \cup (drawn \cap texels')]

(* render_image_egl: brings the damaged part of vnc_fb to the texture and   *)
(* draws the texture over the extents of the buffer's damage.  A texture of *)
(* another size stays as it is, and is stretched.                           *)
RenderImageEgl ==
  LET drawn == Extent(BufferDamage[back]) \cap Area[size] IN
  /\ tex' = IF tex = None THEN size ELSE tex
  /\ texels' = IF tex = None THEN fb
               ELSE IF tex = size THEN (texels \ damage) \cup (damage \cap fb)
               ELSE Pixels
  /\ old' = [old EXCEPT ![back] = (@ \ drawn) \cup (drawn \cap texels')]

(* render_av_frames_egl: draws the frames, and nothing else. *)
RenderAvFrames ==
  LET drawn == (UNION av) \cap Extent(BufferDamage[back]) \cap Area[size] IN
  /\ old' = [old EXCEPT ![back] = (@ \ drawn) \cup (drawn \ fb)]
  /\ UNCHANGED texture

(* Fault: with EGL the framebuffer is drawn, frames or no frames.           *)
TransferPixelsNoAv == IF setup.egl THEN RenderImageEgl ELSE RenderImage

(* window_transfer_pixels *)
TransferPixels ==
  IF av # {} THEN RenderAvFrames
  ELSE IF setup.egl THEN RenderImageEgl
  ELSE RenderImage

(* Faults: the index does not wrap; the buffer is chosen before the index   *)
(* is advanced.                                                             *)
SwapNoWrap ==
  /\ index' = index + 1
  /\ back' = index + 1
SwapStale ==
  /\ index' = (index + 1) % 3
  /\ back' = index

(* window_swap *)
Swap ==
  /\ index' = (index + 1) % 3
  /\ back' = (index + 1) % 3

(* The compositor shows the buffer that is attached: all of it, or only the *)
(* pixels that window_damage_region has reported, if it keeps a copy.       *)
UpdateFb ==
  /\ Finish
  /\ damage # {} \/ av # {}
  /\ setup.prompt => \A b \in Buffers : attached[b] => b = shown
  /\ attached' = [attached EXCEPT ![back] = TRUE]
  /\ TransferPixels
  /\ bdamage' = [BufferDamage EXCEPT ![back] = {}]
  /\ shown' = back
  /\ screen' \in
       {old'[back], (screen \ FrameDamage) \cup (FrameDamage \cap old'[back])}
  /\ Swap
  /\ UNCHANGED <<setup, cur, is_av, damage, av, picture>>

(* wl_buffer.release: buffer_release. *)
Release(b) ==
  /\ phase # "exit"
  /\ attached[b]
  /\ attached' = [attached EXCEPT ![b] = FALSE]
  /\ UNCHANGED <<setup, update, picture, bdamage, old, index, back, shown, screen, texture>>

-------------------------------------------------------------------------------
(* After vnc_client_init: window_create, on_vnc_client_alloc_fb. *)
Init ==
  /\ setup \in Setups
  /\ phase = "idle" /\ cur = None /\ is_av = FALSE
  /\ damage = {} /\ av = {}
  /\ size = FirstSize /\ fb = Area[size] /\ unseen = Area[size]
  /\ bdamage = [b \in Buffers |-> Area[size]]
  /\ old = [b \in Buffers |-> Area[size]]
  /\ attached = [b \in Buffers |-> FALSE]
  /\ index = 0 /\ back = 0 /\ shown = None
  /\ screen = Area[size]
  /\ tex = None /\ texels = {}

Next ==
  \/ StartUpdate \/ PseudoRect \/ RectDone \/ CancelUpdate
  \/ \E r \in Rects : DecodePixels(r)
  \/ \E r \in Rects \cup {Area[size]} : DecodeVideo(r)
  \/ \E s \in Sizes : Resize(s)
  \/ NothingToShow \/ UpdateFb
  \/ \E b \in Buffers : Release(b)

Spec == Init /\ [][Next]_vars

-------------------------------------------------------------------------------
(* Properties.                                                             *)

TypeOK ==
  /\ setup \in Setups
  /\ phase \in {"idle", "update", "exit"}
  /\ cur \in (SUBSET Pixels) \cup {None} /\ is_av \in BOOLEAN
  /\ damage \in SUBSET Pixels /\ av \in SUBSET SUBSET Pixels
  /\ size \in Sizes /\ fb \in SUBSET Area[size] /\ unseen \in SUBSET Area[size]
  /\ bdamage \in [Buffers -> SUBSET Pixels]
  /\ old \in [Buffers -> SUBSET Pixels]
  /\ attached \in [Buffers -> BOOLEAN]
  /\ index \in Buffers /\ back \in Buffers /\ shown \in Buffers \cup {None}
  /\ screen \in SUBSET Pixels
  /\ tex \in Sizes \cup {None} /\ texels \in SUBSET Pixels

(* After every update the screen shows, of every pixel, what the server     *)
(* sent last, however old the buffer was that the update was drawn into:    *)
(* only pixels that the server has not sent yet can be anything else.       *)
ScreenIsCurrent == phase = "idle" => screen \subseteq unseen

(* What the running update has changed: the damage it has collected and the *)
(* rectangle it is decoding.                                                *)
Pending ==
  IF phase = "idle" THEN {}
  ELSE FrameDamage \cup (IF cur = None THEN {} ELSE cur)

(* The old pixels of the three buffers will be drawn before they are shown: *)
(* each is in the buffer's own damage or in what the running update will    *)
(* add to it (apply_buffer_damage).                                         *)
RepaintScheduled ==
  \A b \in Buffers : old[b] \ unseen \subseteq bdamage[b] \cup Pending

(* "Oops, back-buffer is still attached.": with a compositor that lets go   *)
(* of a buffer when it shows the next, on_vnc_client_update_fb never draws  *)
(* into one that the compositor may be reading.                             *)
BackBufferReleased ==
  [][index' # index /\ setup.prompt => ~attached[back]]_vars

(* The same on a screen that keeps its size: then window_swap's round robin *)
(* is enough, without a look at is_attached.                                *)
RoundRobinSuffices ==
  [][index' # index /\ setup.prompt /\ ~setup.resizes => ~attached[back]]_vars
===============================================================================
