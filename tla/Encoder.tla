------------------------------- MODULE Encoder -------------------------------
(***************************************************************************)
(* How a server writes pixels, as the RFB protocol has it: for every       *)
(* encoding, the set of messages that stand for a tile or rectangle t of   *)
(* picture p.  A message is a record of its items, the state st the server *)
(* then takes the decoder of the rectangle to be in, and the counts z of   *)
(* its zlib streams.                                                       *)
(***************************************************************************)
EXTENDS Compressed

ServerStreams == {"zlib", "zrle"} \cup TightStreams

\* What a server knows of the decoder: Hextile's colours, the last palette.
Unknown == -1
NothingKnown == [bg |-> Unknown, fg |-> Unknown, kind |-> "none", palette |-> <<>>]

Message(items, st, z) == [items |-> items, st |-> st, z |-> z]

ColoursOf(p, t) == Range(Cells(p, t))
IndexOf(palette, c) == (CHOOSE i \in DOMAIN palette : palette[i] = c) - 1

\* The widest bars of one colour, a row high, that show on a background.
Bars(p, t, bg) ==
    LET at(x, y) == IF x \in 0 .. t.w - 1 THEN p[<<t.x + x, t.y + y>>] ELSE Unknown
        alike(x, y, w, c) == \A dx \in 0 .. w - 1 : at(x + dx, y) = c
    IN {q \in [x : 0 .. t.w - 1, y : 0 .. t.h - 1, w : 1 .. t.w, h : {1}, c : ColoursOf(p, t) \ {bg}] :
          /\ q.x + q.w <= t.w
          /\ alike(q.x, q.y, q.w, q.c)
          /\ at(q.x - 1, q.y) # q.c
          /\ at(q.x + q.w, q.y) # q.c}

RreMessages(p, t, st, z) ==
    {Message(<<Item("count", Cardinality(Bars(p, t, bg))), Item("pixel", bg)>>
               \o Items("colouredrect", SetToSeq(Bars(p, t, bg))), st, z) : bg \in ColoursOf(p, t)}

\* One tile of Hextile.  A terse server leaves out the colours the client has.
HextileTold(p, t, st, z, bg, terse) ==
    LET bars == SetToSeq(Bars(p, t, bg))
        others == ColoursOf(p, t) \ {bg}
        fg == IF Cardinality(others) = 1 THEN CHOOSE c \in others : TRUE ELSE Unknown
        tellBg == ~terse \/ st.bg # bg
        tellFg == fg # Unknown /\ (~terse \/ st.fg # fg)
        plain == [i \in DOMAIN bars |-> [bars[i] EXCEPT !.c = 0]]
        flags == (IF tellBg THEN {"background"} ELSE {})
                   \cup (IF tellFg THEN {"foreground"} ELSE {})
                   \cup (IF others # {} THEN {"subrects"} ELSE {})
                   \cup (IF Cardinality(others) > 1 THEN {"coloured"} ELSE {})
    IN Message(<<Item("flags", flags)>>
                 \o (IF tellBg THEN <<Item("pixel", bg)>> ELSE <<>>)
                 \o (IF tellFg THEN <<Item("pixel", fg)>> ELSE <<>>)
                 \o (IF others # {} THEN <<Item("byte", Len(bars))>> ELSE <<>>)
                 \o (IF Cardinality(others) > 1 THEN Items("colouredrect", bars)
                     ELSE Items("rect", plain)),
               [st EXCEPT !.bg = bg, !.fg = IF others = {} THEN @ ELSE fg], z)

HextileMessages(p, t, st, z) ==
    {Message(<<Item("flags", {"raw"})>> \o Items("pixel", Cells(p, t)), NothingKnown, z)}
      \cup {HextileTold(p, t, st, z, bg, terse) : bg \in ColoursOf(p, t), terse \in BOOLEAN}

------------------------------------------------------------------------------
(* TRLE and ZRLE. *)

Packed(cells, palette, t) ==
    LET div == Divider(Len(palette))
        perRow == (t.w + div - 1) \div div
        index(x, y) == IF x < t.w THEN IndexOf(palette, cells[y * t.w + x + 1]) ELSE 0
    IN Items("bits", [b \in 1 .. perRow * t.h |->
                        [j \in 1 .. div |-> index(((b - 1) % perRow) * div + j - 1, (b - 1) \div perRow)]])

\* Runs of equal pixels: <<colour, length>>.
RunsOf(cells) ==
    FoldLeft(LAMBDA runs, c : IF runs # <<>> /\ Last(runs)[1] = c
                              THEN [runs EXCEPT ![Len(runs)][2] = @ + 1]
                              ELSE Append(runs, <<c, 1>>),
             <<>>, cells)

LengthBytes(n) == Items("byte", [i \in 1 .. (n - 1) \div Full + 1 |->
                                   IF i <= (n - 1) \div Full THEN Full ELSE (n - 1) % Full])

PlainRuns(cells) ==
    FlattenSeq([i \in DOMAIN RunsOf(cells) |->
                  LET run == RunsOf(cells)[i]
                  IN <<Item("cpixel", run[1])>> \o LengthBytes(run[2])])

PaletteRuns(cells, palette) ==
    FlattenSeq([i \in DOMAIN RunsOf(cells) |->
                  LET run == RunsOf(cells)[i]
                      index == IndexOf(palette, run[1])
                  IN IF run[2] = 1 THEN <<Item("byte", index)>>
                     ELSE <<Item("byte", index + 128)>> \o LengthBytes(run[2])])

\* A tile that brings all it needs.
WholeTiles(p, t, st, z) ==
    LET cells == Cells(p, t)
        palette == SetToSeq(Range(cells))
        n == Len(palette)
        Tile(type, items, kind, kept) ==
          Message(<<Item("byte", type)>> \o items, [st EXCEPT !.kind = kind, !.palette = kept], z)
    IN {Tile(0, Items("cpixel", cells), st.kind, st.palette),
        Tile(128, PlainRuns(cells), st.kind, st.palette)}
         \cup (IF n = 1 THEN {Tile(1, Items("cpixel", palette), "solid", palette)}
               ELSE {Tile(n, Items("cpixel", palette) \o Packed(cells, palette, t), "palette", palette),
                     Tile(128 + n, Items("cpixel", palette) \o PaletteRuns(cells, palette),
                          "palette", palette)})

\* A tile drawn with the colour or the palette of an earlier one.
ReusingTiles(p, t, st, z) ==
    LET cells == Cells(p, t)
        known == Range(cells) \subseteq Range(st.palette)
        Tile(type, items) == Message(<<Item("byte", type)>> \o items, st, z)
    IN CASE st.kind = "solid" /\ known -> {Tile(127, <<>>)}
         [] st.kind = "palette" /\ known -> {Tile(127, Packed(cells, st.palette, t)),
                                             Tile(129, PaletteRuns(cells, st.palette))}
         [] OTHER -> {}

TrleMessages(p, t, st, z) == WholeTiles(p, t, st, z) \cup ReusingTiles(p, t, st, z)

------------------------------------------------------------------------------
(* Compressed encodings. *)

\* The next chunk of stream i, which expands to these parts; every item of
\* them takes a byte, and the chunk one more.
Chunk(z, i, parts) ==
    [of |-> i, n |-> z[i], len |-> 1 + Len(FlattenSeq(parts)), parts |-> parts]

Compress(z, i) == [z EXCEPT ![i] = AfterChunk(@)]

ZlibMessage(i, data, st, z) ==
    Message(<<Item("count", 1 + Len(data)), Item("zlib", Chunk(z, i, <<data>>))>>, st, Compress(z, i))

ZlibMessages(p, r, st, z) == {ZlibMessage("zlib", Items("pixel", Cells(p, r)), st, z)}

\* The tiles of a rectangle as the protocol cuts them.
ServerTiles(r) ==
    LET starts(from, size) == {a \in from .. from + size - 1 : (a - from) % TileSize = 0}
        tiles == {Rect(x, y, Least(TileSize, r.x + r.w - x), Least(TileSize, r.y + r.h - y)) :
                    x \in starts(r.x, r.w), y \in starts(r.y, r.h)}
    IN SetToSortSeq(tiles, LAMBDA a, b : a.y < b.y \/ (a.y = b.y /\ a.x < b.x))

\* Every choice of messages for a sequence of tiles, one after the other.
TileChoices(p, tiles, st, z) ==
    FoldLeft(LAMBDA done, t : {a \o m.items : a \in done, m \in WholeTiles(p, t, st, z)}, {<<>>}, tiles)

ZrleMessages(p, r, st, z) ==
    {ZlibMessage("zrle", data, st, z) : data \in TileChoices(p, ServerTiles(r), st, z)}

UltraMessages(p, r, st, z) ==
    {Message(IF PointsOf(r) = {} THEN <<Item("count", 0)>>
             ELSE <<Item("count", 1), Item("lzo", Cells(p, r))>>, st, z)}

\* The tiles of the rectangle, each with its pixels.
UltraZipMessages(p, r, st, z) ==
    LET tiles == ServerTiles(r)
    IN {Message(<<Item("count", 1),
                  Item("lzo", [i \in DOMAIN tiles |-> [rect |-> tiles[i], pixels |-> Cells(p, tiles[i])]])>>,
                st, z)}

CompactLen(n) ==
    LET digit(k) == (n \div k) % LengthBase
    IN Items("byte", IF n < LengthBase THEN <<n>>
                     ELSE IF n < LengthBase * LengthBase
                     THEN <<LengthBase + digit(1), digit(LengthBase)>>
                     ELSE <<LengthBase + digit(1), LengthBase + digit(LengthBase),
                            n \div (LengthBase * LengthBase)>>)

\* What is left of every pixel when the gradient has been taken off.
Residuals(p, r) ==
    LET at(x, y) == IF Covers(r, <<x, y>>) THEN p[<<x, y>>] ELSE 0
        rough(q) == at(q[1] - 1, q[2]) + at(q[1], q[2] - 1) - at(q[1] - 1, q[2] - 1)
        expected(q) == IF rough(q) < 0 THEN 0 ELSE Least(rough(q), MaxColour)
    IN [i \in 1 .. r.w * r.h |->
          LET q == PointAt(r, i) IN (p[q] + MaxColour + 1 - expected(q)) % (MaxColour + 1)]

\* The ways to filter a rectangle: what is sent ahead and the cells.
Filtered(p, r) ==
    LET cells == Cells(p, r)
        palette == SetToSeq(Range(cells))
        n == Len(palette)
        indices == Items("byte", [i \in DOMAIN cells |-> IndexOf(palette, cells[i])])
    IN {[explicit |-> FALSE, head |-> <<>>, cells |-> Items("cpixel", cells)],
        [explicit |-> TRUE, head |-> <<Item("filter", "copy")>>, cells |-> Items("cpixel", cells)],
        [explicit |-> TRUE, head |-> <<Item("filter", "gradient")>>,
         cells |-> Items("cpixel", Residuals(p, r))]}
         \cup (IF n = 1 THEN {}
               ELSE {[explicit |-> TRUE,
                      head |-> <<Item("filter", "palette"), Item("byte", n - 1)>> \o Items("cpixel", palette),
                      cells |-> IF n = 2 THEN Packed(cells, palette, r) ELSE indices]})

TightControl(reset, i, what, explicit, raw) ==
    Item("control", [reset |-> reset, stream |-> i, what |-> what, explicit |-> explicit, raw |-> raw])

\* Streams may be begun anew with any rectangle.  A chunk expands in one or in
\* two portions.
TightBasicMessages(p, r, st, z, reset, splits) ==
    UNION {LET n == Len(f.cells)
               z0 == [j \in DOMAIN z |-> IF j \in reset THEN 0 ELSE z[j]]
               head(i, raw) == <<TightControl(reset, i, "basic", f.explicit, raw)>> \o f.head
               short == {Message(head("none", FALSE) \o f.cells, st, z0)}
               raw == {Message(head("none", TRUE) \o CompactLen(n) \o f.cells, st, z0)}
               zlib == {Message(head(i, FALSE) \o CompactLen(n + 1) \o
                                  <<Item("zlib", Chunk(z0, i, <<SubSeq(f.cells, 1, k), SubSeq(f.cells, k + 1, n)>>))>>,
                                st, Compress(z0, i)) : i \in TightStreams, k \in {k \in splits : k < n}}
           IN IF n < TightMin THEN short ELSE raw \cup zlib : f \in Filtered(p, r)}

TightMessages(p, r, st, z, reset, splits) ==
    LET z0 == [j \in DOMAIN z |-> IF j \in reset THEN 0 ELSE z[j]]
        whole(what, items) ==
          Message(<<TightControl(reset, "none", what, FALSE, FALSE)>> \o items, st, z0)
        n == r.w * r.h
    IN {whole("jpeg", CompactLen(n) \o <<Item("jpeg", [len |-> n, pixels |-> Cells(p, r)])>>)}
         \cup {whole("fill", <<Item("cpixel", c)>>) : c \in {c \in Colours : ColoursOf(p, r) = {c}}}
         \cup TightBasicMessages(p, r, st, z, reset, splits)
==============================================================================
