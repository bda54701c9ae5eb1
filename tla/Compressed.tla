------------------------------ MODULE Compressed -----------------------------
(***************************************************************************)
(* The encodings that are compressed as a whole: Zlib, Ultra, ZRLE and     *)
(* Tight (encodings/zlib.c, ultra.c, zrle.c, tight.c).  Compressed data is *)
(* a chunk of a zlib stream; what the chunk expands to is known in parts,  *)
(* one for every portion of it that is inflated.  The pixels, indices and  *)
(* packed indices that rows are made of are the cells of Tight.            *)
(***************************************************************************)
EXTENDS Tiles

CONSTANTS
  TightStreams, \* the zlib streams of Tight that are used
  TightMin,     \* TIGHT_MIN_TO_COMPRESS, in cells
  TightBuffer,  \* bufferSize: the cells one call of inflate may put out
  LengthBase    \* 128: what a byte of a compact length counts to

Least(a, b) == IF a < b THEN a ELSE b

HandleZlib(d, r) ==
    LET n == Take(d, "count", 1)
        chunk == Inflate(n, "decompStream", n.v[1])
        px == Take([chunk EXCEPT !.s = FlattenSeq(chunk.v)], "pixel", r.w * r.h)
    IN [chunk EXCEPT !.ok = px.ok, !.fb = CopyRectangle(@, px.v, r)]

\* A rectangle of Ultra without data draws nothing.
HandleUltra(d, r) ==
    LET n == Take(d, "count", 1)
        lzo == Take(n, "lzo", 1)
    IN IF n.v[1] = 0 THEN n
       ELSE IF r.w * r.h = 0 THEN Fail(n)
       ELSE [lzo EXCEPT !.fb = IF lzo.ok THEN CopyRectangle(@, lzo.v[1], r) ELSE @]

\* Of the rectangle of UltraZip x is a number of rectangles, y and w are the
\* bytes they take together: the places are in the data.
HandleUltraZip(d, r) ==
    LET n == Take(d, "count", 1)
        lzo == Take(n, "lzo", 1)
        drawn == FoldLeft(LAMBDA fb, q : CopyRectangle(fb, q.pixels, q.rect), d.fb,
                          SubSeq(lzo.v[1], 1, IF lzo.ok THEN r.x ELSE 0))
    IN IF n.v[1] = 0 THEN n
       ELSE IF r.y + r.w = 0 THEN Fail(n)
       ELSE [lzo EXCEPT !.fb = drawn]

\* All of the rectangle is inflated, then its tiles are decoded.  One that
\* fails ends the rectangle, as if all were well.
HandleZRLE(d, r) ==
    LET n == Take(d, "count", 1)
        chunk == Inflate(n, "decompStream", n.v[1])
        tiles == FoldLeft(LAMBDA e, t : IF e.ok THEN HandleZRLETile(e, t) ELSE e,
                          [chunk EXCEPT !.s = FlattenSeq(chunk.v)], TileGrid(r))
    IN [chunk EXCEPT !.fb = tiles.fb]

------------------------------------------------------------------------------
(* Tight. *)

ReadCompactLen(d) ==
    LET b1 == Take(d, "byte", 1)
        b2 == ReadIf(b1.v[1] >= LengthBase, b1, "byte", 0)
        b3 == ReadIf(b2.v[1] >= LengthBase, b2, "byte", 0)
    IN [b3 EXCEPT !.v = <<(b1.v[1] % LengthBase) + (b2.v[1] % LengthBase) * LengthBase
                            + b3.v[1] * LengthBase * LengthBase>>]

DecompressJpegRect(d, r) ==
    LET n == ReadCompactLen(d)
        jpeg == Take(n, "jpeg", 1)
    IN IF n.v[1] <= 0 \/ ~jpeg.ok \/ jpeg.v[1].len # n.v[1] THEN Fail(n)
       ELSE [jpeg EXCEPT !.fb = CopyRectangle(@, jpeg.v[1].pixels, r)]

InitFilterPalette(d) ==
    LET n == Take(d, "byte", 1)
    IN IF n.v[1] + 1 < 2 THEN Fail(n)
       ELSE [ReadPalette(n, n.v[1] + 1) EXCEPT !.st.filter = "palette"]

InitFilterGradient(d, r) ==
    [d EXCEPT !.st.filter = "gradient", !.st.previous = [x \in 1 .. r.w |-> 0]]

InitFilter(d, r) ==
    LET id == Take(d, "filter", 1)
    IN CASE id.v[1] = "copy" -> id
         [] id.v[1] = "palette" -> InitFilterPalette(id)
         [] id.v[1] = "gradient" -> InitFilterGradient(id, r)
         [] OTHER -> Fail(id)

TwoColours(st) == st.filter = "palette" /\ Len(st.palette) = 2

\* Cells are pixels, indices into a palette or, of two colours, packed indices.
CellKind(st) == IF TwoColours(st) THEN "bits" ELSE IF st.filter = "palette" THEN "byte" ELSE "cpixel"
RowSize(st, r) == IF TwoColours(st) THEN (r.w + 1) \div 2 ELSE r.w

FilterPalette(st, cells, r, rows) ==
    LET size == RowSize(st, r)
        bit(i) == At(cells[((i - 1) \div r.w) * size + ((i - 1) % r.w) \div 2 + 1].v,
                     ((i - 1) % r.w) % 2)
    IN [i \in 1 .. rows * r.w |-> At(st.palette, IF TwoColours(st) THEN bit(i) ELSE cells[i].v)]

\* A pixel is what its neighbours to the left, above and above left lead to
\* expect, kept in range, and what was sent, added modulo the range.
GradientRow(previous, residuals) ==
    FoldLeft(LAMBDA row, e :
               LET x == Len(row) + 1
                   raw == IF x = 1 THEN previous[1] ELSE previous[x] + row[x - 1] - previous[x - 1]
                   est == IF raw > MaxColour THEN MaxColour ELSE IF raw < 0 THEN 0 ELSE raw
               IN Append(row, (est + e) % (MaxColour + 1)),
             <<>>, residuals)

FilterGradient(previous, cells, w, rows) ==
    FoldLeft(LAMBDA done, y :
               LET above == IF y = 1 THEN previous ELSE SubSeq(done, (y - 2) * w + 1, (y - 1) * w)
               IN done \o GradientRow(above, [x \in 1 .. w |-> cells[(y - 1) * w + x].v]),
             <<>>, [y \in 1 .. rows |-> y])

\* filterFn: draws as many rows below those already drawn.
Filter(d, r, cells, rows) ==
    LET st == d.st
        pixels == CASE st.filter = "copy" -> [i \in 1 .. rows * r.w |-> cells[i].v]
                    [] st.filter = "palette" -> FilterPalette(st, cells, r, rows)
                    [] OTHER -> FilterGradient(st.previous, cells, r.w, rows)
    IN [d EXCEPT !.fb = CopyRectangle(@, pixels, Rect(r.x, r.y + st.rows, r.w, rows)),
                 !.st.previous = IF st.filter = "gradient" /\ rows > 0
                                 THEN SubSeq(pixels, (rows - 1) * r.w + 1, rows * r.w) ELSE @,
                 !.st.rows = @ + rows]

\* The cells that follow, uncompressed, are all of the rectangle.
FilterPlain(d, r, n) ==
    LET cells == Take(d, CellKind(d.st), n)
    IN IF cells.ok /\ n = r.h * RowSize(d.st, r)
       THEN Filter(cells, r, Items(CellKind(d.st), cells.v), r.h) ELSE Fail(d)

\* One portion of the chunk expands to cells: inflate puts out what fits behind
\* the piece of a row left over before, whole rows are drawn and the rest is
\* kept; as long as the buffer was filled there may be more.
RECURSIVE TightPortion(_, _, _)
TightPortion(d, r, cells) ==
    LET room == TightBuffer - Len(d.st.extra)
        n == Least(room, Len(cells))
        got == d.st.extra \o SubSeq(cells, 1, n)
        rows == Len(got) \div RowSize(d.st, r)
        rest == SubSeq(got, rows * RowSize(d.st, r) + 1, Len(got))
        drawn == [Filter(d, r, got, rows) EXCEPT !.st.extra = rest]
    IN IF n = 0 THEN d
       ELSE IF n = room THEN TightPortion(drawn, r, SubSeq(cells, n + 1, Len(cells)))
       ELSE drawn

TightInflate(d, r, stream, length) ==
    LET chunk == Inflate(d, stream, length)
        kind == CellKind(d.st)
        right == \A i \in DOMAIN chunk.v : \A j \in DOMAIN chunk.v[i] : chunk.v[i][j].k = kind
        drawn == FoldLeft(LAMBDA e, part : TightPortion(e, r, part), chunk, chunk.v)
    IN IF ~chunk.ok \/ ~right \/ RowSize(d.st, r) > TightBuffer \/ drawn.st.rows # r.h
       THEN Fail(chunk) ELSE drawn

TightBasic(d, r, control) ==
    LET f == IF control.explicit THEN InitFilter(d, r) ELSE d
        size == r.h * RowSize(f.st, r)
        n == ReadCompactLen(f)
    IN IF ~f.ok THEN f
       ELSE IF size < TightMin THEN FilterPlain(f, r, size)
       ELSE IF n.v[1] <= 0 THEN Fail(n)
       ELSE IF control.raw THEN FilterPlain(n, r, n.v[1])
       ELSE TightInflate(n, r, control.stream, n.v[1])

\* Fault: streams are only begun anew with a rectangle that uses one.
HandleTightLate(d, r) ==
    LET c == Take(d, "control", 1)
        control == c.v[1]
        flushed == [c EXCEPT !.z = [i \in DOMAIN @ |-> IF i \in control.reset THEN Fresh ELSE @[i]]]
        fill == Take(c, "cpixel", 1)
    IN CASE control.what = "fill" -> [fill EXCEPT !.fb = FillRectangle(@, r, fill.v[1])]
         [] control.what = "jpeg" -> DecompressJpegRect(c, r)
         [] control.what = "basic" -> TightBasic(flushed, r, control)
         [] OTHER -> Fail(c)

\* The streams the server has begun anew are forgotten first, whatever follows.
HandleTight(d, r) ==
    LET c == Take(d, "control", 1)
        control == c.v[1]
        flushed == [c EXCEPT !.z = [i \in DOMAIN @ |-> IF i \in control.reset THEN Fresh ELSE @[i]]]
        fill == Take(flushed, "cpixel", 1)
    IN CASE control.what = "fill" -> [fill EXCEPT !.fb = FillRectangle(@, r, fill.v[1])]
         [] control.what = "jpeg" -> DecompressJpegRect(flushed, r)
         [] control.what = "basic" -> TightBasic(flushed, r, control)
         [] OTHER -> Fail(flushed)
==============================================================================
