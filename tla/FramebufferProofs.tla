--------------------------- MODULE FramebufferProofs ---------------------------
(***************************************************************************)
(* Theorems about Framebuffer, for every screen, every set of sizes and     *)
(* rectangles, and every compositor.                                       *)
(***************************************************************************)
EXTENDS Framebuffer, TLAPS

(* What the pictures are proved current for: an EGL texture is not created  *)
(* anew when the screen's size changes, and video frames mixed with other   *)
(* rectangles hide these.                                                   *)
Sound ==
  \A s \in Setups :
    /\ s.video \in {"none", "whole"}
    /\ s.egl /\ s.resizes => s.video = "whole"

(* No picture has an old pixel outside the screen. *)
Inside ==
  /\ \A b \in Buffers : old[b] \subseteq Area[size]
  /\ screen \subseteq Area[size]

(* Which rectangle is being decoded. *)
Decoding ==
  /\ phase = "idle" => cur = None
  /\ is_av => cur \in av
  /\ cur = None => ~is_av

(* Without video the framebuffer has every pixel that was received. *)
PixelsOnly ==
  setup.video = "none" => fb = unseen /\ av = {} /\ ~is_av

(* With video it has none, and a frame covers the screen, unless the size   *)
(* has just changed.                                                        *)
VideoOnly ==
  setup.video = "whole" =>
    /\ fb = Area[size]
    /\ damage = {}
    /\ is_av \/ cur \in {None, {}}
    /\ av # {} => unseen = Area[size] \/ Area[size] \in av

ScreenScheduled == screen \ unseen \subseteq Pending

(* The texture follows the framebuffer. *)
TextureScheduled ==
  /\ ~setup.egl => tex = None
  /\ setup.video = "none" => tex = None \/ (tex = size /\ texels \ unseen \subseteq Pending)

PInv ==
  /\ TypeOK /\ Inside /\ Decoding /\ PixelsOnly /\ VideoOnly
  /\ RepaintScheduled /\ ScreenScheduled /\ TextureScheduled

-------------------------------------------------------------------------------
LEMMA SetupStays == [Next]_vars => UNCHANGED setup
BY DEF Next, StartUpdate, PseudoRect, RectDone, CancelUpdate, DecodePixels, DecodeVideo,
       Resize, NothingToShow, UpdateFb, Release, vars

LEMMA InitOK == Init => PInv
<1> SUFFICES ASSUME Init PROVE PInv
  OBVIOUS
<1> USE DEF Init
<1>1. size \in Sizes /\ Area[size] \in SUBSET Pixels
  BY FramebufferAssumption
<1>2. TypeOK
  <2>1. 0 \in Buffers
    BY DEF Buffers
  <2>2. bdamage \in [Buffers -> SUBSET Pixels] /\ old \in [Buffers -> SUBSET Pixels]
    BY <1>1
  <2>3. attached \in [Buffers -> BOOLEAN]
    OBVIOUS
  <2>4. {} \in SUBSET SUBSET Pixels
    OBVIOUS
  <2>5. QED
    BY <1>1, <2>1, <2>2, <2>3, <2>4 DEF TypeOK
<1>3. Inside /\ RepaintScheduled /\ ScreenScheduled
  BY DEF Inside, RepaintScheduled, ScreenScheduled, Buffers
<1>4. Decoding /\ PixelsOnly /\ VideoOnly /\ TextureScheduled
  BY DEF Decoding, PixelsOnly, VideoOnly, TextureScheduled
<1> QED
  BY <1>2, <1>3, <1>4 DEF PInv

(* The conjuncts of PInv, all of which most steps of the proofs need.       *)
(* Actions that only move the message on.                                   *)
LEMMA StartUpdateKeeps == PInv /\ StartUpdate /\ UNCHANGED setup => PInv'
BY DEF StartUpdate, PInv, TypeOK, Inside, Decoding, PixelsOnly, VideoOnly,
       RepaintScheduled, ScreenScheduled, TextureScheduled, Pending, FrameDamage,
       picture, window, texture

LEMMA PseudoRectKeeps == PInv /\ PseudoRect /\ UNCHANGED setup => PInv'
BY FramebufferAssumption
   DEF PseudoRect, NextRect, PInv, TypeOK, Inside, Decoding, PixelsOnly, VideoOnly,
       RepaintScheduled, ScreenScheduled, TextureScheduled, Pending, FrameDamage,
       picture, window, texture

LEMMA CancelUpdateKeeps == PInv /\ CancelUpdate /\ UNCHANGED setup => PInv'
BY DEF CancelUpdate, PInv, TypeOK, Inside, Decoding, PixelsOnly, VideoOnly,
       RepaintScheduled, ScreenScheduled, TextureScheduled, Pending, FrameDamage,
       picture, window, texture

LEMMA NothingToShowKeeps == PInv /\ NothingToShow /\ UNCHANGED setup => PInv'
BY DEF NothingToShow, Finish, PInv, TypeOK, Inside, Decoding, PixelsOnly, VideoOnly,
       RepaintScheduled, ScreenScheduled, TextureScheduled, Pending, FrameDamage,
       picture, window, texture

(* The rectangle's pixels pass from cur to the damage, or have been in a    *)
(* video frame already.                                                    *)
LEMMA RectDoneKeeps == PInv /\ RectDone /\ UNCHANGED setup => PInv'
<1> SUFFICES ASSUME PInv, RectDone, UNCHANGED setup PROVE PInv'
  OBVIOUS
<1> USE DEF PInv
<1>1. Pending' = Pending
  <2>1. cur \subseteq FrameDamage'
    BY DEF RectDone, Decoding, FrameDamage
  <2>2. FrameDamage' = FrameDamage \/ FrameDamage' = FrameDamage \cup cur
    BY DEF RectDone, FrameDamage
  <2>3. QED
    BY <2>1, <2>2, FramebufferAssumption DEF RectDone, Pending
<1>2. TypeOK'
  BY DEF TypeOK, RectDone, picture, window, texture
<1>3. PixelsOnly' /\ VideoOnly' /\ Decoding'
  BY DEF PixelsOnly, VideoOnly, Decoding, RectDone, picture
<1>4. Inside' /\ RepaintScheduled' /\ ScreenScheduled' /\ TextureScheduled'
  BY <1>1 DEF Inside, RepaintScheduled, ScreenScheduled, TextureScheduled, RectDone,
              picture, window, texture
<1> QED
  BY <1>2, <1>3, <1>4

(* New pixels make every picture old there, and are pending.               *)
LEMMA ReceivedKeeps ==
  ASSUME PInv, NEW r \in SUBSET Pixels, r \subseteq Area[size], r # None,
         NextRect(r), Received(r), phase' = phase, damage' = damage,
         FrameDamage \subseteq FrameDamage', size' = size, bdamage' = bdamage, tex' = tex,
         UNCHANGED setup
  PROVE  /\ Inside' /\ RepaintScheduled' /\ ScreenScheduled'
         /\ TextureScheduled'
<1> USE DEF PInv
<1>1. Pending \cup r \subseteq Pending'
  BY DEF NextRect, Pending
<1>2. Inside'
  BY DEF Inside, Received, Buffers
<1>3. RepaintScheduled'
  BY <1>1 DEF RepaintScheduled, Received
<1>4. ScreenScheduled' /\ TextureScheduled'
  BY <1>1 DEF ScreenScheduled, TextureScheduled, Received
<1> QED
  BY <1>2, <1>3, <1>4

LEMMA DecodePixelsKeeps ==
  ASSUME PInv, NEW r \in Rects, DecodePixels(r), UNCHANGED setup
  PROVE  PInv'
<1> USE DEF PInv
<1>1. r \in SUBSET Pixels /\ r # None
  BY FramebufferAssumption
<1>2. TypeOK'
  BY <1>1 DEF TypeOK, DecodePixels, NextRect, Received, Buffers
<1>3. FrameDamage' = FrameDamage
  BY DEF DecodePixels, FrameDamage
<1>4. Inside' /\ RepaintScheduled' /\ ScreenScheduled' /\ TextureScheduled'
  BY <1>1, <1>3, ReceivedKeeps DEF DecodePixels
<1>5. PixelsOnly' /\ VideoOnly'
  BY DEF PixelsOnly, VideoOnly, DecodePixels, Received
<1>6. Decoding'
  BY <1>1 DEF Decoding, DecodePixels, NextRect
<1> QED
  BY <1>2, <1>4, <1>5, <1>6

LEMMA DecodeVideoKeeps ==
  ASSUME PInv, Sound, NEW r \in Rects \cup {Area[size]}, DecodeVideo(r), UNCHANGED setup
  PROVE  PInv'
<1> USE DEF PInv
<1>1. size \in Sizes
  BY DEF TypeOK
<1>2. r \in SUBSET Pixels /\ r # None
  BY <1>1, FramebufferAssumption
<1>3. r = Area[size] /\ setup.video = "whole"
  BY DEF DecodeVideo, Sound, TypeOK
<1>4. TypeOK'
  BY <1>2 DEF TypeOK, DecodeVideo, NextRect, Received, Buffers
<1>5. FrameDamage \subseteq FrameDamage'
  BY DEF DecodeVideo, FrameDamage
<1>6. Inside' /\ RepaintScheduled' /\ ScreenScheduled' /\ TextureScheduled'
  BY <1>2, <1>5, ReceivedKeeps DEF DecodeVideo
<1>7. PixelsOnly' /\ VideoOnly'
  BY <1>3 DEF PixelsOnly, VideoOnly, DecodeVideo, TypeOK
<1>8. Decoding'
  BY <1>2 DEF Decoding, DecodeVideo, NextRect
<1> QED
  BY <1>4, <1>6, <1>7, <1>8

(* With new buffers everything is old and nothing has been sent.            *)
LEMMA ResizeKeeps ==
  ASSUME PInv, Sound, NEW s \in Sizes, Resize(s), UNCHANGED setup
  PROVE  PInv'
<1> USE DEF PInv
<1>1. Area[s] \in SUBSET Pixels
  BY FramebufferAssumption
<1>2. TypeOK'
  BY <1>1 DEF TypeOK, Resize, update, Buffers
<1>3. Inside' /\ Decoding' /\ PixelsOnly' /\ VideoOnly'
  BY DEF Inside, Decoding, PixelsOnly, VideoOnly, Resize, update, Buffers
<1>4. RepaintScheduled' /\ ScreenScheduled'
  BY DEF RepaintScheduled, ScreenScheduled, Resize, Buffers
<1>5. TextureScheduled'
  BY DEF TextureScheduled, Resize, Sound, TypeOK
<1> QED
  BY <1>2, <1>3, <1>4, <1>5

LEMMA ReleaseKeeps ==
  ASSUME PInv, NEW b \in Buffers, Release(b), UNCHANGED setup
  PROVE  PInv'
<1> USE DEF PInv, Release
<1>1. TypeOK'
  BY DEF TypeOK, update, picture, texture
<1>2. Pending' = Pending
  BY DEF Pending, FrameDamage, update
<1>3. QED
  BY <1>1, <1>2
     DEF Inside, Decoding, PixelsOnly, VideoOnly, RepaintScheduled, ScreenScheduled,
         TextureScheduled, update, picture, texture

-------------------------------------------------------------------------------
(* The end of an update.  Every old pixel of the back buffer is in its      *)
(* damage by then.                                                         *)
LEMMA BackDamaged ==
  ASSUME PInv, Finish
  PROVE  /\ back \in Buffers /\ old \in [Buffers -> SUBSET Pixels]
         /\ \A b \in Buffers : BufferDamage[b] = bdamage[b] \cup FrameDamage
         /\ \A b \in Buffers : \A p \in old[b] : p \in Area[size]
         /\ \A b \in Buffers : \A p \in old[b] \ unseen : p \in BufferDamage[b]
         /\ Area[size] \in SUBSET Pixels
         /\ \A b \in Buffers : BufferDamage[b] \in SUBSET Pixels
<1> USE DEF PInv
<1>1. back \in Buffers /\ old \in [Buffers -> SUBSET Pixels] /\ size \in Sizes
  BY DEF TypeOK
<1>2. \A b \in Buffers : BufferDamage[b] = bdamage[b] \cup FrameDamage
  BY DEF BufferDamage
<1>3. Pending = FrameDamage
  BY DEF Pending, Finish
<1>4. \A b \in Buffers : \A p \in old[b] \ unseen : p \in BufferDamage[b]
  BY <1>2, <1>3 DEF RepaintScheduled
<1>5. \A b \in Buffers : \A p \in old[b] : p \in Area[size]
  BY DEF Inside
<1>6. FrameDamage \in SUBSET Pixels
  BY DEF FrameDamage, TypeOK
<1>7. \A b \in Buffers : BufferDamage[b] \in SUBSET Pixels
  BY <1>2, <1>6 DEF TypeOK
<1> QED
  BY <1>1, <1>2, <1>4, <1>5, <1>7, FramebufferAssumption

(* Whatever draws changes only the back buffer and leaves no old pixel in   *)
(* it but those that nobody has sent.                                       *)
Redrawn(b) ==
  /\ old' = [old EXCEPT ![b] = old'[b]]
  /\ \A p \in old'[b] : p \in unseen

LEMMA RenderImageDraws ==
  ASSUME PInv, Finish, setup.video = "none", RenderImage
  PROVE  Redrawn(back)
<1> DEFINE drawn == BufferDamage[back] \cap Area[size]
<1>1. old'[back] = (old[back] \ drawn) \cup (drawn \cap fb)
  BY BackDamaged DEF RenderImage
<1>2. \A p \in old[back] \ drawn : p \in unseen
  BY BackDamaged
<1>3. fb = unseen
  BY DEF PInv, PixelsOnly
<1>4. old' = [old EXCEPT ![back] = old'[back]]
  BY BackDamaged DEF RenderImage
<1> QED
  BY <1>1, <1>2, <1>3, <1>4 DEF Redrawn

LEMMA RenderImageEglDraws ==
  ASSUME PInv, Finish, setup.video = "none", RenderImageEgl
  PROVE  /\ Redrawn(back)
         /\ tex' = size
         /\ \A p \in texels' : p \in unseen
<1> DEFINE drawn == Extent(BufferDamage[back]) \cap Area[size]
<1>1. old'[back] = (old[back] \ drawn) \cup (drawn \cap texels')
  BY BackDamaged DEF RenderImageEgl
<1>2. BufferDamage[back] \subseteq Extent(BufferDamage[back])
  BY BackDamaged, FramebufferAssumption
<1>3. \A p \in old[back] \ drawn : p \in unseen
  BY <1>2, BackDamaged
<1>4. fb = unseen /\ Pending = damage /\ tex \in Sizes \cup {None}
  BY DEF PInv, PixelsOnly, Pending, FrameDamage, Finish, TypeOK
<1>5. tex' = size /\ \A p \in texels' : p \in unseen
  BY <1>4 DEF RenderImageEgl, PInv, TextureScheduled
<1>6. old' = [old EXCEPT ![back] = old'[back]]
  BY BackDamaged DEF RenderImageEgl
<1> QED
  BY <1>1, <1>3, <1>5, <1>6 DEF Redrawn

LEMMA RenderAvFramesDraws ==
  ASSUME PInv, Finish, setup.video = "whole", av # {}, RenderAvFrames
  PROVE  Redrawn(back)
<1> DEFINE drawn == (UNION av) \cap Extent(BufferDamage[back]) \cap Area[size]
<1>1. old'[back] = (old[back] \ drawn) \cup (drawn \ fb)
  BY BackDamaged DEF RenderAvFrames
<1>2. BufferDamage[back] \subseteq Extent(BufferDamage[back])
  BY BackDamaged, FramebufferAssumption
<1>6. old' = [old EXCEPT ![back] = old'[back]]
  BY BackDamaged DEF RenderAvFrames
<1>7. \A p : p \in drawn <=> /\ p \in UNION av
                            /\ p \in Extent(BufferDamage[back])
                            /\ p \in Area[size]
  OBVIOUS
<1> HIDE DEF drawn
<1>3. \A p \in drawn : p \in fb
  BY <1>7 DEF PInv, VideoOnly
<1>4. unseen = Area[size] \/ \A p \in Area[size] : p \in UNION av
  BY DEF PInv, VideoOnly
<1>5. \A p \in old[back] \ drawn : p \in unseen
  <2> SUFFICES ASSUME NEW p \in old[back] \ drawn, p \notin unseen PROVE FALSE
    OBVIOUS
  <2>1. p \in Area[size] /\ p \in BufferDamage[back]
    BY BackDamaged
  <2>2. p \in UNION av
    BY <1>4, <2>1
  <2> QED
    BY <1>2, <1>7, <2>1, <2>2
<1> QED
  BY <1>1, <1>3, <1>5, <1>6 DEF Redrawn

(* window_transfer_pixels, for whichever of the three it calls.             *)
LEMMA TransferKeeps ==
  ASSUME PInv, Sound, Finish, UNCHANGED setup, damage # {} \/ av # {}, TransferPixels
  PROVE  /\ Redrawn(back)
         /\ ~setup.egl => tex' = None
         /\ tex' \in Sizes \cup {None}
         /\ texels' \in SUBSET Pixels
         /\ setup.video = "none" => tex' = None \/ (tex' = size /\ \A p \in texels' : p \in unseen)
<1>1. size \in Sizes /\ tex \in Sizes \cup {None} /\ texels \in SUBSET Pixels
      /\ fb \in SUBSET Pixels
  BY FramebufferAssumption DEF PInv, TypeOK
<1>2. setup.video = "none" => av = {}
  BY DEF PInv, PixelsOnly
<1>3. setup.video = "whole" => damage = {}
  BY DEF PInv, VideoOnly
<1>4. CASE setup.video = "whole"
  <2>1. av # {} /\ RenderAvFrames
    BY <1>3, <1>4 DEF TransferPixels
  <2>2. Redrawn(back)
    BY <1>4, <2>1, RenderAvFramesDraws
  <2>3. tex' = tex /\ texels' = texels
    BY <2>1 DEF RenderAvFrames, texture
  <2>4. setup.egl
    BY <1>4, FramebufferAssumption DEF PInv, TypeOK
  <2> QED
    BY <1>1, <1>4, <2>2, <2>3, <2>4
<1>5. CASE setup.video = "none" /\ setup.egl
  <2>1. RenderImageEgl
    BY <1>2, <1>5 DEF TransferPixels
  <2>2. Redrawn(back) /\ tex' = size /\ \A p \in texels' : p \in unseen
    BY <1>5, <2>1, RenderImageEglDraws
  <2>3. texels' \in SUBSET Pixels
    BY <1>1, <2>1 DEF RenderImageEgl
  <2> QED
    BY <1>1, <1>5, <2>2, <2>3
<1>6. CASE setup.video = "none" /\ ~setup.egl
  BY <1>1, <1>2, <1>6, RenderImageDraws
     DEF TransferPixels, RenderImage, texture, PInv, TextureScheduled
<1> QED
  BY <1>4, <1>5, <1>6 DEF Sound, PInv, TypeOK

LEMMA UpdateFbKeeps ==
  ASSUME PInv, Sound, UpdateFb, UNCHANGED setup
  PROVE  PInv'
<1>1. Finish /\ TransferPixels /\ (damage # {} \/ av # {})
  BY DEF UpdateFb
<1>2. /\ Redrawn(back)
      /\ ~setup.egl => tex' = None
      /\ tex' \in Sizes \cup {None}
      /\ texels' \in SUBSET Pixels
      /\ setup.video = "none" => tex' = None \/ (tex' = size /\ \A p \in texels' : p \in unseen)
  BY <1>1, TransferKeeps
<1>3. /\ back \in Buffers /\ old \in [Buffers -> SUBSET Pixels]
      /\ \A b \in Buffers : BufferDamage[b] = bdamage[b] \cup FrameDamage
      /\ \A b \in Buffers : \A p \in old[b] : p \in Area[size]
      /\ \A b \in Buffers : \A p \in old[b] \ unseen : p \in BufferDamage[b]
      /\ Area[size] \in SUBSET Pixels
      /\ \A b \in Buffers : BufferDamage[b] \in SUBSET Pixels
  BY <1>1, BackDamaged
<1>4. /\ size' = size /\ fb' = fb /\ unseen' = unseen
      /\ cur' = cur /\ is_av' = is_av /\ damage' = damage /\ av' = av
      /\ phase = "update" /\ cur = None /\ phase' = "idle"
  BY DEF UpdateFb, Finish, picture
<1>5. unseen \in SUBSET Area[size] /\ fb \in SUBSET Area[size] /\ size \in Sizes
  BY DEF PInv, TypeOK
<1>6. Pending' = {} /\ Pending = FrameDamage
  BY <1>4 DEF Pending
<1>7. /\ old' \in [Buffers -> SUBSET Pixels]
      /\ \A p \in old'[back] : p \in unseen
      /\ \A b \in Buffers : b # back => old'[b] = old[b]
  BY <1>2, <1>3, <1>5 DEF Redrawn
<1>8. /\ bdamage' \in [Buffers -> SUBSET Pixels]
      /\ \A b \in Buffers : b # back => bdamage'[b] = BufferDamage[b]
  BY <1>3 DEF UpdateFb, BufferDamage
<1>9. \/ screen' = old'[back]
      \/ screen' = (screen \ FrameDamage) \cup (FrameDamage \cap old'[back])
  BY DEF UpdateFb
<1>10. \A p \in screen' : p \in unseen
  BY <1>6, <1>7, <1>9 DEF PInv, ScreenScheduled
<1>11. TypeOK'
  <2>1. attached' \in [Buffers -> BOOLEAN] /\ shown' \in Buffers
    BY <1>3 DEF UpdateFb, PInv, TypeOK
  <2>2. index' \in Buffers /\ back' \in Buffers
    BY DEF UpdateFb, Swap, PInv, TypeOK, Buffers
  <2>3. screen' \in SUBSET Pixels
    BY <1>3, <1>5, <1>10
  <2> QED
    BY <1>2, <1>4, <1>7, <1>8, <2>1, <2>2, <2>3 DEF PInv, TypeOK
<1>12. Inside'
  <2>1. \A b \in Buffers : \A p \in old'[b] : p \in Area[size]
    BY <1>3, <1>5, <1>7
  <2>2. \A p \in screen' : p \in Area[size]
    BY <1>5, <1>10
  <2> QED
    BY <1>4, <2>1, <2>2 DEF Inside
<1>13. Decoding' /\ PixelsOnly' /\ VideoOnly'
  BY <1>4 DEF PInv, Decoding, PixelsOnly, VideoOnly
<1>14. RepaintScheduled'
  <2> SUFFICES ASSUME NEW b \in Buffers, NEW p \in old'[b] \ unseen'
               PROVE  p \in bdamage'[b]
    BY <1>6 DEF RepaintScheduled
  <2>1. b # back
    BY <1>4, <1>7
  <2> QED
    BY <2>1, <1>3, <1>4, <1>7, <1>8
<1>15. ScreenScheduled'
  BY <1>4, <1>10 DEF ScreenScheduled
<1>16. TextureScheduled'
  BY <1>2, <1>4 DEF TextureScheduled
<1> QED
  BY <1>11, <1>12, <1>13, <1>14, <1>15, <1>16 DEF PInv

LEMMA StutterKeeps == PInv /\ UNCHANGED vars => PInv'
BY DEF PInv, TypeOK, Inside, Decoding, PixelsOnly, VideoOnly, RepaintScheduled,
       ScreenScheduled, TextureScheduled, Pending, FrameDamage,
       vars, update, picture, window, texture

-------------------------------------------------------------------------------
(* The pictures stay in step with the server's, if the renderer draws       *)
(* pixels to shared memory, or pixels with EGL on a screen of one size, or  *)
(* whole frames of video.                                                   *)
THEOREM Invariance ==
  ASSUME Sound
  PROVE  Spec => []PInv
<1>1. Init => PInv
  BY InitOK
<1>2. PInv /\ [Next]_vars => PInv'
  <2> SUFFICES ASSUME PInv, [Next]_vars, UNCHANGED setup PROVE PInv'
    BY SetupStays
  <2>1. CASE StartUpdate
    BY <2>1, StartUpdateKeeps
  <2>2. CASE PseudoRect
    BY <2>2, PseudoRectKeeps
  <2>3. CASE RectDone
    BY <2>3, RectDoneKeeps
  <2>4. CASE CancelUpdate
    BY <2>4, CancelUpdateKeeps
  <2>5. CASE \E r \in Rects : DecodePixels(r)
    BY <2>5, DecodePixelsKeeps
  <2>6. CASE \E r \in Rects \cup {Area[size]} : DecodeVideo(r)
    BY <2>6, Sound, DecodeVideoKeeps
  <2>7. CASE \E s \in Sizes : Resize(s)
    BY <2>7, Sound, ResizeKeeps
  <2>8. CASE NothingToShow
    BY <2>8, NothingToShowKeeps
  <2>9. CASE UpdateFb
    BY <2>9, Sound, UpdateFbKeeps
  <2>10. CASE \E b \in Buffers : Release(b)
    BY <2>10, ReleaseKeeps
  <2>11. CASE UNCHANGED vars
    BY <2>11, StutterKeeps
  <2> QED
    BY <2>1, <2>2, <2>3, <2>4, <2>5, <2>6, <2>7, <2>8, <2>9, <2>10, <2>11 DEF Next
<1> QED
  BY <1>1, <1>2, PTL DEF Spec

(* Through every change of size the picture, and what is still missing of   *)
(* it, lie inside the size announced last, and the buffers drawn and shown  *)
(* are buffers of the pool (vnc_client_alloc_fb, buffer.c).                 *)
THEOREM TypeCorrect ==
  ASSUME Sound
  PROVE  Spec => []TypeOK
<1>1. PInv => TypeOK
  BY DEF PInv
<1> QED
  BY <1>1, Invariance, PTL

(* However large the screen and however the rectangles of the updates are   *)
(* cut, on_vnc_client_update_fb leaves on the screen, of every pixel, what  *)
(* the server sent last.                                                   *)
THEOREM ScreenStaysCurrent ==
  ASSUME Sound
  PROVE  Spec => []ScreenIsCurrent
<1>1. PInv => ScreenIsCurrent
  BY DEF PInv, ScreenScheduled, ScreenIsCurrent, Pending
<1> QED
  BY <1>1, Invariance, PTL

(* The damage regions of the three buffers (apply_buffer_damage) never lose *)
(* a pixel that a buffer still has to be given.                             *)
THEOREM NoRepaintIsLost ==
  ASSUME Sound
  PROVE  Spec => []RepaintScheduled
<1>1. PInv => RepaintScheduled
  BY DEF PInv
<1> QED
  BY <1>1, Invariance, PTL

-------------------------------------------------------------------------------
(* The buffer that was committed last is the one window_swap left behind.   *)
Rotation ==
  /\ index \in Buffers
  /\ back = index
  /\ shown \in Buffers \cup {None}
  /\ shown # back

(* As long as the buffers are never replaced, round robin and a compositor  *)
(* that is prompt are enough: window_swap needs no look at is_attached.     *)
THEOREM BackBufferIsReleased == Spec => RoundRobinSuffices
<1> DEFINE Turns == setup.resizes \/ Rotation
<1>1. Init => Turns
  BY FramebufferAssumption DEF Init, Rotation, Buffers
<1>2. Turns /\ [Next]_vars =>
        /\ Turns'
        /\ index' # index /\ setup.prompt /\ ~setup.resizes => ~attached[back]
  <2> SUFFICES ASSUME Turns, [Next]_vars, UNCHANGED setup, ~setup.resizes
               PROVE  Rotation' /\ (index' # index /\ setup.prompt => ~attached[back])
    BY SetupStays
  <2>1. CASE UpdateFb
    <3>1. back' = (index + 1) % 3 /\ index' = (index + 1) % 3 /\ shown' = back
      BY <2>1 DEF UpdateFb, Swap
    <3>2. back' # back /\ index' \in Buffers
      BY <3>1 DEF Rotation, Buffers
    <3>3. setup.prompt => ~attached[back]
      BY <2>1 DEF UpdateFb, Rotation
    <3> QED
      BY <3>1, <3>2, <3>3 DEF Rotation
  <2>2. CASE UNCHANGED <<index, back, shown>>
    BY <2>2 DEF Rotation
  <2>3. UpdateFb \/ UNCHANGED <<index, back, shown>>
    BY DEF Next, StartUpdate, PseudoRect, RectDone, CancelUpdate, DecodePixels, DecodeVideo,
           Resize, NothingToShow, Release, vars, window
  <2> QED
    BY <2>1, <2>2, <2>3
<1> QED
  BY <1>1, <1>2, PTL DEF Spec, RoundRobinSuffices
===============================================================================
