-------------------------------- MODULE Tiles --------------------------------
(***************************************************************************)
(* The encodings without zlib streams of their own, and the tiles of       *)
(* ZRLE: RRE, CoRRE, Hextile, TRLE (encodings/rre.c, corre.c, hextile.c,   *)
(* trle.c, zrle.c).  Every operator takes a decoder and a rectangle or     *)
(* tile, and returns the decoder after it.                                 *)
(***************************************************************************)
EXTENDS Reader, FiniteSets

CONSTANTS
  TileSize,      \* 16, and 64 in ZRLE
  Full,          \* 255, the byte of a run length that says another follows
  SubrectMax     \* the subrectangles of CoRRE that fit the buffer

\* The local variables of a decoder when its rectangle begins.
Locals == [bg |-> 0, fg |-> 0, last |-> 0, palette |-> <<>>, colour |-> 0, divider |-> 1,
           filter |-> "copy", previous |-> <<>>, rows |-> 0, extra |-> <<>>]

------------------------------------------------------------------------------
(* RRE and CoRRE: a background and coloured rectangles on it. *)

DrawSubrect(d, q, t, colour) ==
    [d EXCEPT !.fb = FillRectangle(@, Within(q, t), colour), !.st.fg = colour]

Subrects(d, r) ==
    LET n == Take(d, "count", 1)
        bg == Take(n, "pixel", 1)
        rects == Take(bg, "colouredrect", n.v[1])
    IN FoldLeft(LAMBDA e, q : DrawSubrect(e, q, r, q.c),
                [rects EXCEPT !.fb = FillRectangle(@, r, bg.v[1])], rects.v)

HandleRRE(d, r) == Subrects(d, r)

\* The subrectangles of CoRRE are read at once, into a buffer that must hold them.
HandleCoRRE(d, r) ==
    IF Take(d, "count", 1).v[1] > SubrectMax THEN Fail(d) ELSE Subrects(d, r)

------------------------------------------------------------------------------
(* Hextile: a tile says which of its two colours it brings along; the others *)
(* are those of the tile before.                                             *)

ReadIf(present, d, k, otherwise) ==
    IF present THEN Take(d, k, 1) ELSE [d EXCEPT !.v = <<otherwise>>]

HextileTile(d, t) ==
    LET sub == Take(d, "flags", 1)
        flags == sub.v[1]
        raw == Take(sub, "pixel", t.w * t.h)
        bg == ReadIf("background" \in flags, sub, "pixel", d.st.bg)
        fg == ReadIf("foreground" \in flags, bg, "pixel", d.st.fg)
        n == ReadIf("subrects" \in flags, fg, "byte", 0)
        coloured == "coloured" \in flags
        rects == Take(n, IF coloured THEN "colouredrect" ELSE "rect", n.v[1])
    IN IF "raw" \in flags THEN [raw EXCEPT !.fb = CopyRectangle(@, raw.v, t)]
       ELSE FoldLeft(LAMBDA e, q : DrawSubrect(e, q, t, IF coloured THEN q.c ELSE e.st.fg),
                     [rects EXCEPT !.fb = FillRectangle(@, t, bg.v[1]),
                                   !.st.bg = bg.v[1], !.st.fg = fg.v[1]], rects.v)

------------------------------------------------------------------------------
(* TRLE and ZRLE: raw, solid, packed palette, runs, runs of a palette. *)

\* Pixels in a byte when the palette has n entries, scaled down with the tiles.
Divider(n) == IF n <= 2 THEN 2 ELSE 1

RawTile(d, t) ==
    LET px == Take(d, "cpixel", t.w * t.h)
    IN [px EXCEPT !.fb = CopyRectangle(@, px.v, t)]

SolidTile(d, t) ==
    LET px == Take(d, "cpixel", 1)
    IN [px EXCEPT !.fb = FillRectangle(@, t, px.v[1]), !.st.colour = px.v[1], !.st.last = 1]

\* Rows of palette indices, each row padded to a whole number of bytes.
PackedTile(d, t) ==
    LET div == d.st.divider
        perRow == (t.w + div - 1) \div div
        bytes == Take(d, "bits", perRow * t.h)
        index(i) == At(At(bytes.v, ((i - 1) \div t.w) * perRow + ((i - 1) % t.w) \div div),
                       ((i - 1) % t.w) % div)
        pixels == [i \in 1 .. t.w * t.h |-> At(d.st.palette, index(i))]
    IN [bytes EXCEPT !.fb = IF bytes.ok THEN CopyRectangle(@, pixels, t) ELSE @]

\* Fault: one byte is taken for the whole of the length.
RunLengthOfOne(d, length) ==
    LET b == Take(d, "byte", 1) IN [b EXCEPT !.v = <<length + b.v[1]>>]

\* A run is one pixel longer than the sum of its bytes, all 255 but the last.
RECURSIVE RunLength(_, _)
RunLength(d, length) ==
    LET b == Take(d, "byte", 1)
    IN IF b.ok /\ b.v[1] = Full THEN RunLength(b, length + Full)
       ELSE [b EXCEPT !.v = <<length + b.v[1]>>]

\* Reads one run: <<colour, length>>.  Of a palette index the top bit says
\* whether a length follows.
Run(d, paletted) ==
    LET b == Take(d, IF paletted THEN "byte" ELSE "cpixel", 1)
        colour == IF paletted THEN At(d.st.palette, b.v[1] % 128) ELSE b.v[1]
        length == IF paletted /\ b.v[1] < 128 THEN [b EXCEPT !.v = <<1>>] ELSE RunLength(b, 1)
    IN [length EXCEPT !.v = <<colour, length.v[1]>>]

RECURSIVE Runs(_, _, _, _)
Runs(d, t, pixels, paletted) ==
    IF ~d.ok \/ Len(pixels) >= t.w * t.h
    THEN [d EXCEPT !.fb = IF d.ok THEN CopyRectangle(@, pixels, t) ELSE @]
    ELSE LET run == Run(d, paletted)
         IN Runs(run, t, pixels \o [i \in 1 .. run.v[2] |-> run.v[1]], paletted)

ReadPalette(d, n) == LET p == Take(d, "cpixel", n) IN [p EXCEPT !.st.palette = p.v]

\* Type 127: the tile is drawn with what the last tile but for raw and run
\* tiles used.  A palette of runs is then taken for one of packed pixels.
ReuseTile(d, t) ==
    LET last == d.st.last
        size == IF last >= 130 THEN last - 128 ELSE last
    IN CASE last = 1 -> [d EXCEPT !.fb = FillRectangle(@, t, d.st.colour)]
         [] last >= 130 /\ size <= 16 -> PackedTile([d EXCEPT !.st.last = size,
                                                             !.st.divider = Divider(size)], t)
         [] last \in 2 .. 16 -> PackedTile(d, t)
         [] OTHER -> Fail(d)

PaletteTile(d, t, n) ==
    PackedTile([ReadPalette(d, n) EXCEPT !.st.last = n, !.st.divider = Divider(n)], t)

PaletteRunTile(d, t, type) == Runs([ReadPalette(d, type - 128) EXCEPT !.st.last = type], t, <<>>, TRUE)

TrleTile(d, t) ==
    LET b == Take(d, "byte", 1)
        type == b.v[1]
    IN CASE type = 0 -> RawTile(b, t)
         [] type = 1 -> SolidTile(b, t)
         [] type \in 2 .. 16 -> PaletteTile(b, t, type)
         [] type = 127 -> ReuseTile(b, t)
         [] type = 128 -> Runs(b, t, <<>>, FALSE)
         [] type = 129 -> Runs(b, t, <<>>, TRUE)
         [] type >= 130 -> PaletteRunTile(b, t, type)
         [] OTHER -> Fail(b)

\* ZRLE reuses nothing, and knows palettes of any size.
HandleZRLETile(d, t) ==
    LET b == Take(d, "byte", 1)
        type == b.v[1]
    IN CASE type = 0 -> RawTile(b, t)
         [] type = 1 -> SolidTile(b, t)
         [] type \in 2 .. 127 -> PaletteTile(b, t, type)
         [] type = 128 -> Runs(b, t, <<>>, FALSE)
         [] type >= 130 -> PaletteRunTile(b, t, type)
         [] OTHER -> Fail(b)

------------------------------------------------------------------------------
\* The tiles of a rectangle, row by row, those at its right and lower edge cut.
TileGrid(r) ==
    LET across == (r.w + TileSize - 1) \div TileSize
        down == (r.h + TileSize - 1) \div TileSize
        least(a, b) == IF a < b THEN a ELSE b
    IN [i \in 1 .. across * down |->
          LET dx == ((i - 1) % across) * TileSize
              dy == ((i - 1) \div across) * TileSize
          IN Rect(r.x + dx, r.y + dy, least(TileSize, r.w - dx), least(TileSize, r.h - dy))]
==============================================================================
