------------------------------- MODULE Decoding ------------------------------
(***************************************************************************)
(* A server that writes updates and the client that decodes them.  The     *)
(* server keeps a picture, changes a part of it, and sends the part in     *)
(* some encoding; it sends on only when what it sent has been read.        *)
(***************************************************************************)
EXTENDS Decoder, Encoder

CONSTANTS
  Names,      \* the encodings that wlvncc is told to ask for
  Setups,     \* the sets of encodings a server may use together
  Rects,      \* the rectangles it sends
  Patterns,   \* the pictures it changes parts of the screen to
  Sources,    \* where it copies from
  CursorSizes,
  Resets,     \* the zlib streams it begins anew at a time
  Splits,     \* where the output of a chunk of Tight may be split in two portions
  MaxRects    \* bound: rectangles in an update

VARIABLES
  setup,      \* the encodings in use
  picture,    \* what the screen shows once all that was sent is decoded
  job,        \* the update being sent
  deflaters,  \* chunks put out by the server's zlib streams
  encoders    \* the frames of each rectangle that is sent as video

server == <<setup, picture, job, deflaters, encoders>>
vars == <<wire, asked, client, server>>

Many == 65535  \* rectangles, up to one that says it is the last

Idle == [many |-> FALSE, left |-> 0, enc |-> "none", rest |-> <<>>, st |-> NothingKnown]
Sent(k, v) == wire' = <<Item(k, v)>>

Quiet == wire = <<>> /\ job.rest = <<>>

SendUpdate ==
    /\ Quiet /\ job.left = 0 /\ ~job.many
    /\ asked
    /\ asked' = FALSE
    /\ \E n \in 1 .. MaxRects, many \in BOOLEAN :
         /\ many => "last" \in setup
         /\ Sent("update", IF many THEN Many ELSE n)
         /\ job' = [Idle EXCEPT !.many = many, !.left = n]
    /\ UNCHANGED <<client, setup, picture, deflaters, encoders>>

SendLast ==
    /\ Quiet /\ job.many
    /\ Sent("header", [enc |-> "last", rect |-> Rect(0, 0, 0, 0)])
    /\ job' = Idle
    /\ UNCHANGED <<client, asked, setup, picture, deflaters, encoders>>

Changed(r, to) == [p \in Points |-> IF Covers(r, p) THEN to[p] ELSE picture[p]]
Shifted(r, source) ==
    [p \in Points |-> IF Covers(r, p) THEN picture[<<p[1] + source[1] - r.x, p[2] + source[2] - r.y>>]
                      ELSE picture[p]]

\* Begins a rectangle that is sent in the given parts.
Begin(enc, r, parts) ==
    /\ Sent("header", [enc |-> enc, rect |-> r])
    /\ job' = [job EXCEPT !.left = @ - 1, !.enc = enc, !.rest = parts, !.st = NothingKnown]

ServerParts(enc, r) ==
    CASE enc \in {"hextile", "trle"} -> ServerTiles(r)
      [] enc \in {"raw", "qemu"} /\ PointsOf(r) = {} -> <<>>
      [] OTHER -> <<r>>

Drawing == {"raw", "rre", "corre", "hextile", "trle", "zlib", "zrle", "ultra", "tight"}

SendDrawing ==
    /\ Quiet /\ job.left > 0
    /\ \E enc \in setup \cap Drawing, r \in Rects, to \in Patterns :
         /\ enc \notin {"raw", "ultra"} => PointsOf(r) # {}
         /\ enc = "corre" => Cardinality(PointsOf(r)) <= SubrectMax
         /\ picture' = Changed(r, to)
         /\ Begin(enc, r, ServerParts(enc, r))
    /\ UNCHANGED <<client, asked, setup, deflaters, encoders>>

SendUltraZip ==
    /\ Quiet /\ job.left > 0
    /\ "ultrazip" \in setup
    /\ \E r \in Rects, to \in Patterns :
         /\ PointsOf(r) # {}
         /\ picture' = Changed(r, to)
         /\ Sent("header", [enc |-> "ultrazip",
                            rect |-> Rect(Len(ServerTiles(r)), Cardinality(PointsOf(r)), 0, 0)])
         /\ job' = [job EXCEPT !.left = @ - 1, !.enc = "ultrazip", !.rest = <<r>>]
    /\ UNCHANGED <<client, asked, setup, deflaters, encoders>>

SendCopyRect ==
    /\ Quiet /\ job.left > 0
    /\ "copyrect" \in setup
    /\ \E r \in Rects, source \in Sources :
         /\ CheckRect(Rect(source[1], source[2], r.w, r.h))
         /\ picture' = Shifted(r, source)
         /\ Sent("header", [enc |-> "copyrect", rect |-> r])
         /\ job' = [job EXCEPT !.left = @ - 1, !.enc = "copyrect", !.rest = <<r>>,
                               !.st = [NothingKnown EXCEPT !.palette = source]]
    /\ UNCHANGED <<client, asked, setup, deflaters, encoders>>

SendVideo ==
    /\ Quiet /\ job.left > 0
    /\ "h264" \in setup
    /\ \E r \in Rects : PointsOf(r) # {} /\ Begin("h264", r, <<r>>)
    /\ UNCHANGED <<client, asked, setup, picture, deflaters, encoders>>

\* Rectangles that are sent whole, and draw nothing.
Bits(r) == Items("bits", [i \in 1 .. ((r.w + 1) \div 2) * r.h |-> <<0, 0>>])
PseudoItems(enc, r) ==
    CASE enc = "cursor" /\ PointsOf(r) # {} -> Items("pixel", [i \in 1 .. r.w * r.h |-> 0]) \o Bits(r)
      [] enc = "xcursor" /\ PointsOf(r) # {} -> Items("rgb", <<0, 0>>) \o Bits(r) \o Bits(r)
      [] enc = "messages" -> <<Item("messages", 0)>>
      [] enc \in {"encodings", "identity"} -> Items("byte", [i \in 1 .. r.w |-> 0])
      [] enc = "pts" -> <<Item("pts", 0)>>
      [] OTHER -> <<>>

SendPseudo ==
    /\ Quiet /\ job.left > 0
    /\ \E enc \in setup \cap (Pseudo \cup {"pts", "qemu"}), size \in CursorSizes :
         /\ wire' = <<Item("header", [enc |-> enc, rect |-> Rect(0, 0, size[1], size[2])])>>
                      \o PseudoItems(enc, Rect(0, 0, size[1], size[2]))
         /\ job' = [job EXCEPT !.left = @ - 1]
    /\ UNCHANGED <<client, asked, setup, picture, deflaters, encoders>>

\* The messages for a part of the rectangle being sent.
Messages(enc, t, reset) ==
    CASE enc = "raw" -> {Message(Items("pixel", Cells(picture, t)), job.st, deflaters)}
      [] enc = "copyrect" -> {Message(<<Item("source", job.st.palette)>>, job.st, deflaters)}
      [] enc \in {"rre", "corre"} -> RreMessages(picture, t, job.st, deflaters)
      [] enc = "hextile" -> HextileMessages(picture, t, job.st, deflaters)
      [] enc = "trle" -> TrleMessages(picture, t, job.st, deflaters)
      [] enc = "zlib" -> ZlibMessages(picture, t, job.st, deflaters)
      [] enc = "zrle" -> ZrleMessages(picture, t, job.st, deflaters)
      [] enc = "ultra" -> UltraMessages(picture, t, job.st, deflaters)
      [] enc = "ultrazip" -> UltraZipMessages(picture, t, job.st, deflaters)
      [] enc = "tight" -> TightMessages(picture, t, job.st, deflaters, reset, Splits)

SendPart ==
    /\ wire = <<>> /\ job.rest # <<>>
    /\ job.enc # "h264"
    /\ \E reset \in IF job.enc = "tight" THEN Resets ELSE {{}} :
         \E m \in Messages(job.enc, Head(job.rest), reset) :
           /\ wire' = m.items
           /\ deflaters' = m.z
           /\ job' = [job EXCEPT !.rest = Tail(@), !.st = m.st]
    /\ UNCHANGED <<client, asked, setup, picture, encoders>>

\* A server keeps no more encoders than the client has contexts.  It begins a
\* rectangle anew with a key frame; of several it does so only with the one it
\* made last, and with all only when it has none: what a reset of another does
\* to the table is not defined.
SendFrame ==
    /\ wire = <<>> /\ job.rest # <<>>
    /\ job.enc = "h264"
    /\ \E reset \in {"none", "one", "all"} :
         LET r == Head(job.rest)
             known == {i \in DOMAIN encoders : encoders[i].rect = r}
             last == known = {Len(encoders)}
             kept == IF reset = "one" /\ last THEN Front(encoders) ELSE encoders
             i == IF \E k \in DOMAIN kept : kept[k].rect = r
                  THEN CHOOSE k \in DOMAIN kept : kept[k].rect = r ELSE 0
             n == IF i = 0 THEN 0 ELSE kept[i].n
         IN /\ reset = "one" => known = {} \/ last
            /\ reset = "all" => encoders = <<>>
            /\ i = 0 => Len(kept) < MaxContexts
            /\ Sent("h264", [reset |-> reset, n |-> n])
            /\ encoders' = IF i = 0 THEN Append(kept, [rect |-> r, n |-> AfterChunk(0)])
                           ELSE [kept EXCEPT ![i].n = AfterChunk(@)]
    /\ job' = [job EXCEPT !.rest = Tail(@)]
    /\ UNCHANGED <<client, asked, setup, picture, deflaters>>

ServerNext == \/ SendUpdate \/ SendLast
              \/ SendDrawing \/ SendUltraZip \/ SendCopyRect \/ SendVideo \/ SendPseudo
              \/ SendPart \/ SendFrame

Init ==
    /\ wire = <<>>
    /\ asked = TRUE
    /\ framebuffer = [p \in Points |-> 0]
    /\ ClientInit
    /\ \E useRemoteCursor \in BOOLEAN :  \* FALSE in wlvncc, which has the code all the same
         setup \in {s \in Setups : s \subseteq SetFormatAndEncodings(Names, useRemoteCursor)}
    /\ picture = framebuffer
    /\ job = Idle
    /\ deflaters = [i \in ServerStreams |-> 0]
    /\ encoders = <<>>

ClientStep == ClientNext /\ UNCHANGED server
Next == ClientStep \/ ServerNext

Spec == Init /\ [][Next]_vars

------------------------------------------------------------------------------
\* Client and server are at the end of the same rectangle.
Between == wire = <<>> /\ job.rest = <<>> /\ pc \in {"message", "rect"}

\* The client reads exactly what the server wrote, however rectangles, tiles
\* and their parts follow on each other (every ReadFromRFBServer of rfbproto.c
\* and the decoders): no server that keeps to the protocol is cut off, and no
\* data is left over or taken for something else.
InStep ==
    /\ pc # "failed"
    /\ job = Idle /\ wire = <<>> /\ pc = "rect" => left = 0
    /\ Between /\ ~job.many /\ pc = "rect" => left = job.left

\* Between two rectangles the framebuffer holds the picture of the server, pixel
\* for pixel, whatever encodings, tiles, palettes and filters it came in.
PictureShown == Between => framebuffer = picture

\* What an update has changed is in the damage it reports, so that it is drawn
\* (vnc_client_update_box): after every rectangle no changed pixel is left out,
\* in any encoding but UltraZip.
DamageCovers ==
    pc = "rect" /\ "ultrazip" \notin setup => drawn \subseteq damage

\* The same of all encodings (rfbclient.h: GotFrameBufferUpdate is told "that a
\* rectangular area of the client's framebuffer was updated").
EveryChangeReported == pc = "rect" => drawn \subseteq damage

\* Between two rectangles every zlib stream of the client has seen what the
\* server's has put out: nothing skipped, nothing kept that the server threw away.
StreamsAgree ==
    Between =>
      /\ \A i \in TightStreams : streams[i].n = deflaters[i] /\ streams[i].of \in {i, "none"}
      /\ \E i \in {"zlib", "zrle"} : streams["decompStream"].n = deflaters[i]

\* Every video frame is decoded by a decoder that has seen the frames it builds
\* on, and the table holds a decoder for every rectangle the server sends as
\* video (get_context, reset_context).
DecodersMatchRects ==
    /\ \A i \in DOMAIN frames : frames[i].whole
    /\ Between => \A i \in DOMAIN encoders :
                    \E j \in 1 .. contexts.n : /\ contexts.entries[j].rect = encoders[i].rect
                                               /\ contexts.entries[j].next = encoders[i].n
==============================================================================
