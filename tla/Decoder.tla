------------------------------- MODULE Decoder -------------------------------
(***************************************************************************)
(* The client's side of a framebuffer update: HandleFramebufferUpdate      *)
(* (rfbproto.c) and the callbacks of vnc.c, with the decoders of the other *)
(* modules.  A step of the client reads one unit: the head of a message,   *)
(* the head of a rectangle, a tile, a band of raw lines, or the whole of a *)
(* rectangle in the other encodings.                                       *)
(***************************************************************************)
EXTENDS Compressed, H264

CONSTANTS
  RawLines,      \* the lines of a raw rectangle that fit the buffer
  MaxCursor      \* MAX_CURSOR_SIZE

VARIABLES
  wire,         \* the items on their way from the server
  asked,        \* an update has been requested and not yet begun
  pc,           \* what the client reads next: "message", "rect", "part"; or "failed"
  left,         \* rectangles left of the update
  rect,         \* the rectangle being decoded: its encoding, place and next part
  local,        \* local variables of its decoder
  framebuffer,
  damage,       \* the points the update has been reported to change
  drawn,        \* the points it has in fact changed (no variable of the program)
  streams,      \* the zlib streams
  contexts,     \* the table of H.264 decoders
  frames        \* av_frames: the video frames of the update

client == <<pc, left, rect, local, framebuffer, damage, drawn, streams, contexts, frames>>

ClientStreams == {"decompStream"} \cup TightStreams
Pseudo == {"cursor", "xcursor", "pointerpos", "messages", "encodings", "identity"}

\* What the client asks for when the option -e lists the given names.  "tight" is
\* what brings LastRect; "ultra" and "ultrazip" are the same two.
SetFormatAndEncodings(names, useRemoteCursor) ==
    UNION {CASE name \in {"ultra", "ultrazip"} -> {"ultra", "ultrazip"}
             [] name = "tight" -> {"tight", "last"}
             [] name = "open-h264" -> {"h264"}
             [] OTHER -> {name} : name \in names}
      \cup (IF useRemoteCursor THEN {"xcursor", "cursor", "pointerpos"} ELSE {})
      \cup {"leds", "desktop", "messages", "encodings", "identity", "xvp", "qemu", "pts"}

Here == [ok |-> TRUE, s |-> wire, v |-> <<>>, fb |-> framebuffer, st |-> local,
         z |-> streams, h264 |-> contexts]

NoRectangle == [enc |-> "none", r |-> Rect(0, 0, 0, 0), part |-> 1]

ClientInit ==
    /\ pc = "message"
    /\ left = 0
    /\ rect = NoRectangle
    /\ local = Locals
    /\ damage = {}
    /\ drawn = {}
    /\ streams = [i \in ClientStreams |-> Fresh]
    /\ contexts = NoContexts
    /\ frames = <<>>

\* A read that fails ends the update, and with it the connection.
Lost == pc' = "failed" /\ UNCHANGED <<wire, asked, left, rect, local, framebuffer, damage,
                                      drawn, streams, contexts, frames>>

------------------------------------------------------------------------------
\* A cursor is read as far as its size says; an empty one is not read at all.
HandleCursorShape(d, enc, r) ==
    LET mask == ((r.w + 1) \div 2) * r.h
        source == IF enc = "xcursor" THEN Take(Take(d, "rgb", 2), "bits", mask)
                  ELSE Take(d, "pixel", r.w * r.h)
    IN IF r.w * r.h = 0 THEN d
       ELSE IF r.w >= MaxCursor \/ r.h >= MaxCursor THEN Fail(d)
       ELSE Take(source, "bits", mask)

\* Rectangles that are not pixels, and have no part in the damage.
PseudoRect(d, enc, r) ==
    CASE enc \in {"cursor", "xcursor"} -> HandleCursorShape(d, enc, r)
      [] enc = "messages" -> Take(d, "messages", 1)
      [] enc \in {"encodings", "identity"} -> Take(d, "byte", r.w)
      [] OTHER -> d

RawBand(d, t) ==
    LET px == Take(d, "pixel", t.w * t.h)
    IN [px EXCEPT !.fb = CopyRectangle(@, px.v, t)]

CopyRect(d, r) ==
    LET source == Take(d, "source", 1)
    IN [source EXCEPT !.fb = CopyRectangleFromRectangle(@, source.v[1][1], source.v[1][2], r)]

\* The parts a rectangle is read in.
RawBands(r) ==
    IF r.w = 0 THEN <<>>
    ELSE [i \in 1 .. (r.h + RawLines - 1) \div RawLines |->
            Rect(r.x, r.y + (i - 1) * RawLines, r.w, Least(RawLines, r.h - (i - 1) * RawLines))]

Parts(enc, r) == CASE enc = "raw" -> RawBands(r)
                   [] enc \in {"hextile", "trle"} -> TileGrid(r)
                   [] enc = "qemu" -> <<>>
                   [] OTHER -> <<r>>

\* Encodings that draw as they are read.
DecodeDirect(d, enc, t) ==
    CASE enc = "raw" -> RawBand(d, t)
      [] enc = "copyrect" -> CopyRect(d, t)
      [] enc = "rre" -> HandleRRE(d, t)
      [] enc = "corre" -> HandleCoRRE(d, t)
      [] enc = "hextile" -> HextileTile(d, t)
      [] enc = "ultra" -> HandleUltra(d, t)
      [] enc = "ultrazip" -> HandleUltraZip(d, t)
      [] enc = "trle" -> TrleTile(d, t)

DecodeInflated(d, enc, t) ==
    CASE enc = "zlib" -> HandleZlib(d, t)
      [] enc = "tight" -> HandleTight(d, t)
      [] enc = "zrle" -> HandleZRLE(d, t)

\* What wlvncc has registered as extensions; an unknown encoding is an error.
DecodeExtension(d, enc, t) ==
    CASE enc = "h264" -> open_h264_decode_rect(d, t)
      [] enc = "pts" -> Take(d, "pts", 1)
      [] OTHER -> Fail(d)

Decode(d, enc, t) ==
    CASE enc \in {"raw", "copyrect", "rre", "corre", "hextile", "ultra", "ultrazip", "trle"} ->
           DecodeDirect(d, enc, t)
      [] enc \in {"zlib", "tight", "zrle"} -> DecodeInflated(d, enc, t)
      [] OTHER -> DecodeExtension(d, enc, t)

------------------------------------------------------------------------------
\* StartingFrameBufferUpdate forgets the damage and the frames of the last one.
ReadUpdate ==
    LET d == Take(Here, "update", 1)
    IN /\ pc = "message"
       /\ wire # <<>>
       /\ IF ~d.ok THEN Lost
          ELSE /\ pc' = "rect"
               /\ left' = d.v[1]
               /\ wire' = d.s
               /\ damage' = {}
               /\ frames' = <<>>
               /\ drawn' = {}
               /\ UNCHANGED <<asked, rect, local, framebuffer, streams, contexts>>

ReadRect ==
    LET d == Take(Here, "header", 1)
        h == d.v[1]
        pseudo == PseudoRect(d, h.enc, h.rect)
    IN /\ pc = "rect"
       /\ left > 0
       /\ wire # <<>>
       /\ CASE ~d.ok -> Lost
            [] d.ok /\ h.enc = "last" ->
                 /\ left' = 0
                 /\ wire' = d.s
                 /\ UNCHANGED <<asked, pc, rect, local, framebuffer, damage, drawn, streams, contexts, frames>>
            [] d.ok /\ h.enc \in Pseudo ->
                 IF ~pseudo.ok THEN Lost
                 ELSE /\ left' = left - 1
                      /\ wire' = pseudo.s
                      /\ UNCHANGED <<asked, pc, rect, local, framebuffer, damage, drawn, streams, contexts, frames>>
            [] d.ok /\ h.enc \notin Pseudo \cup {"last"} ->
                 IF h.enc # "ultrazip" /\ ~CheckRect(h.rect) THEN Lost
                 ELSE /\ pc' = "part"
                      /\ rect' = [enc |-> h.enc, r |-> h.rect, part |-> 1]
                      /\ local' = Locals
                      /\ wire' = d.s
                      /\ UNCHANGED <<asked, left, framebuffer, damage, drawn, streams, contexts, frames>>

AtPart == pc = "part" /\ rect.part <= Len(Parts(rect.enc, rect.r))

DecodePart ==
    /\ AtPart
    /\ wire # <<>>
    /\ \E d \in {Decode(Here, rect.enc, Parts(rect.enc, rect.r)[rect.part])} :
         IF ~d.ok THEN Lost
         ELSE /\ rect' = [rect EXCEPT !.part = @ + 1]
              /\ wire' = d.s
              /\ framebuffer' = d.fb
              /\ drawn' = drawn \cup {p \in Points : d.fb[p] # framebuffer[p]}
              /\ local' = d.st
              /\ streams' = d.z
              /\ contexts' = d.h264
              /\ frames' = IF rect.enc = "h264" THEN Append(frames, d.v[1]) ELSE frames
              /\ UNCHANGED <<asked, pc, left, damage>>

\* Fault: a rectangle's box takes the place of what was damaged before.
EndRectAlone ==
    /\ pc = "part"
    /\ ~AtPart
    /\ damage' = IF rect.enc = "h264" THEN damage ELSE PointsOf(rect.r)
    /\ left' = left - 1
    /\ rect' = NoRectangle
    /\ local' = Locals
    /\ pc' = "rect"
    /\ UNCHANGED <<wire, asked, framebuffer, drawn, streams, contexts, frames>>

\* GotFrameBufferUpdate, with the rectangle of the message, whatever was drawn
\* where; a video frame is no damage.
EndRect ==
    /\ pc = "part"
    /\ ~AtPart
    /\ damage' = IF rect.enc = "h264" THEN damage ELSE damage \cup PointsOf(rect.r)
    /\ left' = left - 1
    /\ rect' = NoRectangle
    /\ local' = Locals
    /\ pc' = "rect"
    /\ UNCHANGED <<wire, asked, framebuffer, drawn, streams, contexts, frames>>

\* The next update is asked for; then this one is shown.
EndUpdate ==
    /\ pc = "rect"
    /\ left = 0
    /\ pc' = "message"
    /\ asked' = TRUE
    /\ drawn' = {}
    /\ UNCHANGED <<wire, left, rect, local, framebuffer, damage, streams, contexts, frames>>

ClientNext == ReadUpdate \/ ReadRect \/ DecodePart \/ EndRect \/ EndUpdate
==============================================================================
