------------------------------- MODULE Raster --------------------------------
(***************************************************************************)
(* The framebuffer and the three ways a decoder draws into it              *)
(* (vncviewer.c).  A framebuffer is a function from points to pixels; a    *)
(* rectangle is a record of x, y, w and h.                                 *)
(***************************************************************************)
EXTENDS Integers, SequencesExt

CONSTANTS
  Width, Height,  \* of the framebuffer
  MaxColour       \* the largest pixel: the colours are 0..MaxColour

ASSUME RasterAssumption == {Width, Height, MaxColour} \subseteq Nat \ {0}

Points == (0 .. Width - 1) \X (0 .. Height - 1)
Colours == 0 .. MaxColour
Framebuffers == [Points -> Colours]

Rect(x, y, w, h) == [x |-> x, y |-> y, w |-> w, h |-> h]

\* Where a rectangle lies when its position is relative to that of another.
Within(q, r) == Rect(r.x + q.x, r.y + q.y, q.w, q.h)

\* The point and, counted from 1, the place of a point in row-major order.
PointAt(r, i) == <<r.x + ((i - 1) % r.w), r.y + ((i - 1) \div r.w)>>
PlaceOf(r, p) == 1 + (p[2] - r.y) * r.w + p[1] - r.x

Covers(r, p) == /\ p[1] \in r.x .. r.x + r.w - 1
                /\ p[2] \in r.y .. r.y + r.h - 1

PointsOf(r) == {p \in Points : Covers(r, p)}

\* The pixels of a rectangle in row-major order.
Cells(fb, r) == [i \in 1 .. r.w * r.h |-> fb[PointAt(r, i)]]

CheckRect(r) == r.x + r.w <= Width /\ r.y + r.h <= Height

FillRectangle(fb, r, colour) ==
    IF CheckRect(r) THEN [p \in Points |-> IF Covers(r, p) THEN colour ELSE fb[p]] ELSE fb

CopyRectangle(fb, buffer, r) ==
    IF CheckRect(r)
    THEN [p \in Points |-> IF Covers(r, p) THEN buffer[PlaceOf(r, p)] ELSE fb[p]]
    ELSE fb

\* Fault: the loops always run forwards.
CopyForwards(r, down, right) == [i \in 1 .. r.w * r.h |-> PointAt(r, i)]

\* The copy is done in place, pixel by pixel; where source and destination
\* overlap the order decides, so the loops run away from the source.
CopyOrder(r, down, right) ==
    [i \in 1 .. r.w * r.h |->
       LET p == PointAt(r, i)
       IN <<IF right THEN p[1] ELSE 2 * r.x + r.w - 1 - p[1],
            IF down THEN p[2] ELSE 2 * r.y + r.h - 1 - p[2]>>]

CopyRectangleFromRectangle(fb, sx, sy, r) ==
    IF CheckRect(Rect(sx, sy, r.w, r.h)) /\ CheckRect(r)
    THEN FoldLeft(LAMBDA f, p : [f EXCEPT ![p] = f[<<p[1] + sx - r.x, p[2] + sy - r.y>>]],
                  fb, CopyOrder(r, r.y < sy, r.x < sx))
    ELSE fb
==============================================================================
