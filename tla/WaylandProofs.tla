----------------------------- MODULE WaylandProofs -----------------------------
(***************************************************************************)
(* Proofs about Wayland: what the compositor says of seats and of the       *)
(* window comes in any order, and for any number of seats and outputs, any  *)
(* scales and sizes,                                                        *)
(*   - there is one inhibitor per seat at most, on either side,             *)
(*   - a seat is inhibited but in the cases of a list, and the assertion of *)
(*     the inhibitor fails only for a seat that came before the manager,    *)
(*   - the picture fits the window, and the pointer is where it is seen     *)
(*     until something changes that nothing is laid out for.                *)
(*                                                                          *)
(* The window first, by itself: for any number of outputs, any scales and   *)
(* sizes, and a server's screen of any size but none, the picture is laid   *)
(* out undistorted and a position of the pointer is sent as that of the     *)
(* pixel it is on.  The invariant is small: the layout is the one of the    *)
(* screen in laidFor, and only two events leave it behind (UpToDate).  The  *)
(* rest is arithmetic of window_calculate_buffer, on three cases and two    *)
(* divisions.                                                               *)
(* Seats follow, and then both together.                                    *)
(***************************************************************************)
EXTENDS Wayland, FiniteSetTheorems, WellFoundedInduction, TLAPS

-------------------------------------------------------------------------------
(* Numbers. *)

Positive == Nat \ {0}

(* What integer division leaves. *)
LEMMA DivBounds ==
  ASSUME NEW a \in Nat, NEW b \in Positive
  PROVE  a \div b \in Nat /\ b * (a \div b) <= a /\ a < b * (a \div b) + b
BY DEF Positive

(* Multiplication keeps an order, and what it kept was one. *)
LEMMA Scaled ==
  ASSUME NEW a \in Int, NEW b \in Int, NEW c \in Nat, a <= b
  PROVE  a * c <= b * c
OBVIOUS

LEMMA Unscaled ==
  ASSUME NEW a \in Int, NEW b \in Int, NEW c \in Positive, a * c < b * c
  PROVE  a < b
<1>1. CASE b <= a
  BY <1>1, Scaled DEF Positive
<1>2. QED
  BY <1>1

(* A length in units is the same after it was one in pixels. *)
LEMMA DivExact ==
  ASSUME NEW a \in Nat, NEW b \in Positive
  PROVE  (a * b) \div b = a
<1> DEFINE q == (a * b) \div b
<1>1. a * b \in Nat
  BY DEF Positive
<1>2. q \in Nat /\ b * q <= a * b /\ a * b < b * q + b
  BY <1>1, DivBounds
<1> HIDE DEF q
<1>3. a * b < (q + 1) * b
  BY <1>2 DEF Positive
<1>4. a < q + 1
  BY <1>2, <1>3, Unscaled
<1>5. q * b < (a + 1) * b
  BY <1>2 DEF Positive
<1>6. q < a + 1
  BY <1>2, <1>5, Unscaled
<1>7. QED
  BY <1>2, <1>4, <1>6 DEF q

(* Two divisions, by the ratio and by the scale, lose no more than one.     *)
LEMMA TwiceDivided ==
  ASSUME NEW c \in Nat, NEW x \in Positive, NEW s \in Positive,
         NEW h, h = ((c * s) \div x) \div s
  PROVE  h \in Nat /\ x * h <= c /\ c < x * h + x
<1> DEFINE q == (c * s) \div x
<1>1. c * s \in Nat
  BY DEF Positive
<1>2. q \in Nat /\ x * q <= c * s /\ c * s < x * q + x
  BY <1>1, DivBounds
<1> HIDE DEF q
<1>3. h \in Nat /\ s * h <= q /\ q < s * h + s
  BY <1>2, DivBounds DEF q
<1>4. (s * h) * x <= q * x
  BY <1>2, <1>3, Scaled DEF Positive
<1>5. (x * h) * s < (c + 1) * s
  BY <1>2, <1>3, <1>4 DEF Positive
<1>6. x * h < c + 1
  BY <1>3, <1>5, Unscaled DEF Positive
<1>7. (q + 1) * x <= (s * h + s) * x
  BY <1>2, <1>3, Scaled DEF Positive
<1>8. c * s < (x * h + x) * s
  BY <1>2, <1>3, <1>7 DEF Positive
<1>9. c < x * h + x
  BY <1>3, <1>8, Unscaled DEF Positive
<1>10. QED
  BY <1>3, <1>6, <1>9 DEF Positive

(* What a picture loses that is as wide as the window and as high as its    *)
(* ratio, y to x, allows: less than a unit.                                 *)
LEMMA Fitted ==
  ASSUME NEW W \in Positive, NEW H \in Positive, NEW s \in Positive,
         NEW x \in Positive, NEW y \in Positive,
         (W * s) * y <= (H * s) * x,
         NEW h, h = ((y * (W * s)) \div x) \div s
  PROVE  /\ h \in Nat /\ h <= H
         /\ W * y - h * x \in 0 .. x - 1
         /\ (h * s) * x - (W * s) * y \in -(s * x) .. 0
<1> DEFINE c == y * W
<1>1. c \in Nat /\ y * (W * s) = c * s
  BY DEF Positive
<1>2. h \in Nat /\ x * h <= c /\ c < x * h + x
  <2> HIDE DEF c
  <2>1. QED BY <1>1, TwiceDivided
<1>3. W * y - h * x \in 0 .. x - 1
  BY <1>1, <1>2 DEF Positive
<1>4. (W * s) * y = c * s /\ (H * s) * x = (H * x) * s /\ (h * s) * x = (x * h) * s
  BY <1>2 DEF Positive
<1>5. x * h <= H * x
  <2>1. c * s <= (H * x) * s
    BY <1>4
  <2>2. c <= H * x
    <3>1. CASE H * x < c
      <4>1. (H * x + 1) * s <= c * s
        BY <3>1, <1>1, Scaled DEF Positive
      <4>2. QED
        BY <2>1, <4>1, <1>1 DEF Positive
    <3>2. QED
      BY <3>1, <1>1 DEF Positive
  <2>3. QED
    BY <1>1, <1>2, <2>2 DEF Positive
<1>6. h <= H
  <2>1. h * x < (H + 1) * x
    BY <1>2, <1>5 DEF Positive
  <2>2. QED
    BY <2>1, <1>2, Unscaled DEF Positive
<1>7. (x * h) * s <= c * s /\ c * s <= (x * h + x) * s
  BY <1>1, <1>2, Scaled DEF Positive
<1>8. (x * h + x) * s = (x * h) * s + s * x
  BY <1>2 DEF Positive
<1>9. QED
  BY <1>1, <1>2, <1>3, <1>4, <1>6, <1>7, <1>8 DEF Positive

(* A finite set of numbers has a greatest. *)
LEMMA MaxOfNaturals ==
  ASSUME NEW S \in SUBSET Nat, IsFiniteSet(S), S # {}
  PROVE  Max(S) \in S /\ \A y \in S : Max(S) >= y
<1> DEFINE Above(x) == {y \in S : y > x}
           T == {Above(x) : x \in S}
<1>1. FiniteSubsetsOf(S) = SUBSET S
  BY FS_FiniteSubsetsOfFinite
<1>2. IsWellFoundedOn(StrictSubsetOrdering(S), SUBSET S)
  BY <1>1, FS_StrictSubsetOrderingWellFounded
<1>3. T \subseteq SUBSET S /\ T # {}
  OBVIOUS
<1>4. PICK U \in T : \A V \in T : ~ (<<V, U>> \in StrictSubsetOrdering(S))
  <2> HIDE DEF T
  <2>1. QED BY <1>2, <1>3, WFMin
<1>5. PICK x \in S : U = Above(x)
  OBVIOUS
<1>6. ASSUME NEW y \in S, y > x
      PROVE  FALSE
  <2>1. Above(y) \in T /\ Above(y) \in SUBSET S /\ U \in SUBSET S
    BY <1>3
  <2>2. y \in U /\ y \notin Above(y)
    BY <1>5, <1>6
  <2>3. Above(y) \subseteq U
    <3>1. ASSUME NEW z \in S, z > y PROVE z > x
      BY <1>6, <3>1
    <3>2. QED
      BY <1>5, <3>1
  <2>4. <<Above(y), U>> \in StrictSubsetOrdering(S)
    BY <2>1, <2>2, <2>3 DEF StrictSubsetOrdering
  <2> HIDE DEF T, Above
  <2>5. QED
    BY <1>4, <2>1, <2>4
<1>7. \A y \in S : x >= y
  BY <1>6
<1>8. QED
  BY <1>7 DEF Max

(* As for two. *)
LEMMA GreaterOfTwo ==
  ASSUME NEW x \in Nat, NEW y \in Nat
  PROVE  Max({x, y}) \in Nat /\ Max({x, y}) >= x /\ Max({x, y}) >= y
<1>1. IsFiniteSet({x, y})
  <2>1. IsFiniteSet({x} \cup {y})
    BY FS_Singleton, FS_AddElement
  <2>2. {x} \cup {y} = {x, y}
    OBVIOUS
  <2>3. QED
    BY <2>1, <2>2
<1>2. QED
  BY <1>1, MaxOfNaturals

-------------------------------------------------------------------------------
(* The picture. *)

Windows == [width : Positive, height : Positive, scale : Positive]
Screens == Positive \X Positive

(* The error of a ratio num / den for a picture of size units in which s    *)
(* pixels stand for source pixels of the server: as small as it may be.     *)
RatioHolds(b, s, size, source) ==
  LET e == 100 * ((size * s) * b.den - b.num * source)
      limit == 100 * (s * b.den) + source * b.den
  IN e \in -limit .. limit

(* The three ways in which window_calculate_buffer makes a picture fit.     *)
Placed(W, H, s, x, y, b, l) ==
  LET across == (W * s) * y
      down == (H * s) * x
  IN \/ /\ across < down
        /\ b.num = W * s /\ b.den = x
        /\ l.width = W /\ l.height = ((y * (W * s)) \div x) \div s
     \/ /\ across >= down
        /\ b.num = H * s /\ b.den = y
        /\ l.height = H /\ l.width = ((x * (H * s)) \div y) \div s
     \/ /\ 100 * (across - down) \in 1 - x * y .. x * y - 1
        /\ l.width = W /\ l.height = H
        /\ (b.num = W * s /\ b.den = x) \/ (b.num = H * s /\ b.den = y)

LEMMA ThreeWays ==
  ASSUME NEW w \in Windows, NEW source \in Screens,
         NEW b, b = window_calculate_buffer(w, source),
         NEW l, l = LaidOut(w, source)
  PROVE  /\ Placed(w.width, w.height, w.scale, source[1], source[2], b, l)
         /\ l.x = (w.width - l.width) \div 2 /\ l.y = (w.height - l.height) \div 2
<1> DEFINE W == w.width
           H == w.height
           s == w.scale
           x == source[1]
           y == source[2]
           across == (W * s) * y
           down == (H * s) * x
           alike == 100 * (across - down) \in 1 - x * y .. x * y - 1
<1>1. W \in Positive /\ H \in Positive /\ s \in Positive /\ x \in Positive /\ y \in Positive
  BY DEF Windows, Screens
<1>2. (W * s) \div s = W /\ (H * s) \div s = H
  BY <1>1, DivExact DEF Positive
<1>3. across \in Int /\ down \in Int
  BY <1>1 DEF Positive
<1>4. l.x = (W - l.width) \div 2 /\ l.y = (H - l.height) \div 2
      /\ l.width = b.width \div s /\ l.height = b.height \div s
  BY DEF LaidOut
<1>5. CASE across < down
  <2>1. b.num = W * s /\ b.den = x /\ b.width = W * s
        /\ b.height = IF alike THEN H * s ELSE (y * (W * s)) \div x
    BY <1>3, <1>5 DEF window_calculate_buffer
  <2>2. QED
    BY <1>2, <1>4, <1>5, <2>1 DEF Placed
<1>6. CASE across >= down
  <2>1. b.num = H * s /\ b.den = y /\ b.height = H * s
        /\ b.width = IF alike THEN W * s ELSE (x * (H * s)) \div y
    BY <1>3, <1>6 DEF window_calculate_buffer
  <2>2. QED
    BY <1>2, <1>4, <1>6, <2>1 DEF Placed
<1>7. QED
  BY <1>3, <1>5, <1>6

(* What follows for the picture: it fits, its edges meet the window's, its  *)
(* ratio is the screen's but for what is allowed.                           *)
LEMMA Proportions ==
  ASSUME NEW W \in Positive, NEW H \in Positive, NEW s \in Positive,
         NEW x \in Positive, NEW y \in Positive, NEW b, NEW l,
         Placed(W, H, s, x, y, b, l)
  PROVE  /\ b.num \in Positive /\ b.den \in Positive
         /\ l.width \in 0 .. W /\ l.height \in 0 .. H
         /\ l.width = W \/ l.height = H
         /\ \/ l.width * y - l.height * x \in -y .. x
            \/ 100 * (l.width * y - l.height * x) \in -(x * y) .. x * y
         /\ RatioHolds(b, s, l.width, x) /\ RatioHolds(b, s, l.height, y)
<1> DEFINE across == (W * s) * y
           down == (H * s) * x
<1>1. across \in Nat /\ down \in Nat /\ W * s \in Positive /\ H * s \in Positive
      /\ s * x \in Nat /\ s * y \in Nat /\ x * y \in Nat /\ (W * s) * x \in Nat
      /\ (H * s) * y \in Nat /\ x * x \in Nat /\ y * y \in Nat
  BY DEF Positive
<1>2. CASE /\ across < down
           /\ b.num = W * s /\ b.den = x
           /\ l.width = W /\ l.height = ((y * (W * s)) \div x) \div s
  <2>1. /\ l.height \in Nat /\ l.height <= H
        /\ W * y - l.height * x \in 0 .. x - 1
        /\ (l.height * s) * x - (W * s) * y \in -(s * x) .. 0
    BY <1>1, <1>2, Fitted
  <2>2. RatioHolds(b, s, l.width, x)
    BY <1>1, <1>2 DEF RatioHolds
  <2>3. y * x \in Nat
    BY <1>1 DEF Positive
  <2>4. RatioHolds(b, s, l.height, y)
    BY <1>1, <1>2, <2>1, <2>3 DEF RatioHolds
  <2>5. QED
    BY <1>1, <1>2, <2>1, <2>2, <2>4 DEF Positive
<1>3. CASE /\ across >= down
           /\ b.num = H * s /\ b.den = y
           /\ l.height = H /\ l.width = ((x * (H * s)) \div y) \div s
  <2>1. /\ l.width \in Nat /\ l.width <= W
        /\ H * x - l.width * y \in 0 .. y - 1
        /\ (l.width * s) * y - (H * s) * x \in -(s * y) .. 0
    BY <1>1, <1>3, Fitted
  <2>2. RatioHolds(b, s, l.height, y)
    BY <1>1, <1>3 DEF RatioHolds
  <2>3. RatioHolds(b, s, l.width, x)
    BY <1>1, <1>3, <2>1 DEF RatioHolds
  <2>4. QED
    BY <1>1, <1>3, <2>1, <2>2, <2>3 DEF Positive
<1>4. CASE /\ 100 * (across - down) \in 1 - x * y .. x * y - 1
           /\ l.width = W /\ l.height = H
           /\ (b.num = W * s /\ b.den = x) \/ (b.num = H * s /\ b.den = y)
  <2>1. y * x = x * y
    BY DEF Positive
  <2>2. RatioHolds(b, s, l.width, x)
    <3>1. CASE b.num = W * s /\ b.den = x
      BY <1>1, <1>4, <3>1 DEF RatioHolds
    <3>2. CASE b.num = H * s /\ b.den = y
      BY <1>1, <1>4, <3>2 DEF RatioHolds
    <3>3. QED
      BY <1>4, <3>1, <3>2
  <2>3. RatioHolds(b, s, l.height, y)
    <3>1. CASE b.num = W * s /\ b.den = x
      BY <1>1, <1>4, <2>1, <3>1 DEF RatioHolds
    <3>2. CASE b.num = H * s /\ b.den = y
      BY <1>1, <1>4, <2>1, <3>2 DEF RatioHolds
    <3>3. QED
      BY <1>4, <3>1, <3>2
  <2>4. 100 * (W * y - H * x) \in -(x * y) .. x * y
    <3> DEFINE k == 100 * (W * y - H * x)
    <3>1. k \in Int /\ 100 * (across - down) = k * s
      BY DEF Positive
    <3>2. k \in -(x * y) .. x * y
      <4> HIDE DEF k
      <4>1. k >= 0 => k * s >= k
        BY <3>1 DEF Positive
      <4>2. k <= 0 => k * s <= k
        BY <3>1 DEF Positive
      <4>3. QED
        BY <1>1, <1>4, <3>1, <4>1, <4>2
    <3>3. QED
      BY <3>2
  <2>5. QED
    BY <1>1, <1>4, <2>2, <2>3, <2>4 DEF Positive
<1>5. QED
  BY <1>2, <1>3, <1>4 DEF Placed

(* round() is off by half at most. *)
LEMMA Rounded ==
  ASSUME NEW a \in Nat, NEW c \in Positive
  PROVE  /\ Round(a, c) \in Nat
         /\ 2 * (c * Round(a, c)) - 2 * a \in 1 - c .. c
<1>1. 2 * a + c \in Nat /\ 2 * c \in Positive
  BY DEF Positive
<1>2. Round(a, c) \in Nat /\ (2 * c) * Round(a, c) <= 2 * a + c
      /\ 2 * a + c < (2 * c) * Round(a, c) + 2 * c
  BY <1>1, DivBounds DEF Round
<1>3. (2 * c) * Round(a, c) = 2 * (c * Round(a, c))
  BY <1>2 DEF Positive
<1>4. QED
  BY <1>2, <1>3 DEF Positive

(* A position is rounded twice, to a pixel of the buffer and to one of the  *)
(* server's, and converted with a ratio that is a little off.               *)
LEMMA OnTarget ==
  ASSUME NEW b, b.num \in Positive, b.den \in Positive,
         NEW s \in Positive, NEW source \in Positive, NEW dest \in Nat,
         RatioHolds(b, s, dest, source),
         NEW p \in 0 .. 2 * dest
  PROVE  LET x == Round(Round(p * s, 2) * b.den, b.num)
             limit == dest * (100 * b.den * (s + 1) + 100 * b.num + source * b.den)
         IN 50 * b.num * (2 * x * dest - p * source) \in -limit .. limit
<1> DEFINE num == b.num
           den == b.den
           c == Round(p * s, 2)
           x == Round(c * den, num)
           e == (dest * s) * den - num * source
           rest == 100 * (s * den) + source * den
           d == 2 * (num * x) - (p * s) * den
<1>1. p \in Nat /\ p * s \in Nat /\ num \in Positive /\ den \in Positive
  BY DEF Positive
<1>2. c \in Nat /\ 2 * (2 * c) - 2 * (p * s) \in -1 .. 2
  <2>1. 2 \in Positive
    BY DEF Positive
  <2>2. c \in Nat /\ 2 * (2 * c) - 2 * (p * s) \in 1 - 2 .. 2
    BY <1>1, <2>1, Rounded
  <2> HIDE DEF c
  <2>3. QED
    BY <1>1, <2>2
<1>3. 2 * c - p * s \in 0 .. 1
  <2> HIDE DEF c
  <2>1. QED BY <1>1, <1>2
<1> HIDE DEF c
<1>4. c * den \in Nat
  BY <1>1, <1>2 DEF Positive
<1>5. x \in Nat /\ 2 * (num * x) - 2 * (c * den) \in 1 - num .. num
  BY <1>1, <1>4, Rounded
<1> HIDE DEF x
<1>6. 2 * (c * den) - (p * s) * den \in 0 .. den
  <2>1. 2 * (c * den) - (p * s) * den = (2 * c - p * s) * den
    BY <1>1, <1>2 DEF Positive
  <2>2. CASE 2 * c - p * s = 0
    BY <1>1, <2>1, <2>2 DEF Positive
  <2>3. CASE 2 * c - p * s = 1
    BY <1>1, <2>1, <2>3 DEF Positive
  <2>4. QED
    BY <1>3, <2>2, <2>3
<1>7. d \in -(num + den) .. num + den
  BY <1>1, <1>4, <1>5, <1>6 DEF Positive
<1>8. e \in Int /\ rest \in Nat /\ 100 * e \in -rest .. rest
  BY <1>1 DEF RatioHolds, Positive
<1>9. num * (2 * x * dest - p * source) = d * dest + e * p
  <2>1. /\ num * (2 * x * dest - p * source) = 2 * (num * x) * dest - (num * source) * p
        /\ d * dest = 2 * (num * x) * dest - (p * s) * den * dest
        /\ e * p = ((dest * s) * den) * p - (num * source) * p
        /\ ((dest * s) * den) * p = (p * s) * den * dest
    BY <1>1, <1>5 DEF Positive
  <2>2. QED
    BY <1>1, <1>5, <2>1 DEF Positive
<1>10. 50 * (d * dest) \in -(50 * (num + den) * dest) .. 50 * (num + den) * dest
  <2>1. d \in Int /\ -(num + den) \in Int /\ num + den \in Int
    BY <1>1, <1>4, <1>5, <1>6 DEF Positive
  <2> HIDE DEF d
  <2>2. d * dest <= (num + den) * dest /\ (-(num + den)) * dest <= d * dest
    BY <1>1, <1>7, <2>1, Scaled
  <2>3. QED
    BY <1>1, <2>1, <2>2 DEF Positive
<1>11. 50 * (e * p) \in -(rest * dest) .. rest * dest
  <2> HIDE DEF e, rest
  <2>1. (100 * e) * p <= rest * p /\ (-rest) * p <= (100 * e) * p
    BY <1>1, <1>8, Scaled
  <2>2. rest * p <= rest * (2 * dest)
    <3>1. p * rest <= (2 * dest) * rest
      BY <1>1, <1>8, Scaled
    <3>2. QED
      BY <1>1, <1>8, <3>1
  <2>3. (100 * e) * p = 2 * (50 * (e * p)) /\ rest * (2 * dest) = 2 * (rest * dest)
        /\ (-rest) * p = -(rest * p)
    BY <1>1, <1>8
  <2>4. e * p \in Int /\ rest * dest \in Int /\ rest * p \in Int
    BY <1>1, <1>8
  <2>5. QED
    BY <2>1, <2>2, <2>3, <2>4
<1> DEFINE limit == dest * (100 * den * (s + 1) + 100 * num + source * den)
<1>12. limit = 50 * (num + den) * dest + rest * dest + 50 * (num + den) * dest
  <2>1. 100 * den * (s + 1) + 100 * num + source * den = rest + 100 * (num + den)
    BY <1>1 DEF Positive
  <2>2. limit = dest * (rest + 100 * (num + den))
    BY <2>1
  <2>3. num + den \in Nat
    BY <1>1 DEF Positive
  <2> HIDE DEF rest, limit
  <2>4. QED
    BY <1>8, <2>2, <2>3
<1>13. 50 * num * (2 * x * dest - p * source) = 50 * (d * dest) + 50 * (e * p)
  <2>1. 50 * num * (2 * x * dest - p * source) = 50 * (num * (2 * x * dest - p * source))
    BY <1>1, <1>5 DEF Positive
  <2>2. d * dest \in Int /\ e * p \in Int
    BY <1>1, <1>5, <1>8 DEF Positive
  <2> HIDE DEF d, e
  <2>3. QED
    BY <1>9, <2>1, <2>2
<1>14. 50 * (num + den) * dest \in Nat /\ rest * dest \in Nat
  BY <1>1, <1>8 DEF Positive
<1>15. 50 * num * (2 * x * dest - p * source) \in -limit .. limit
  <2>1. 50 * (d * dest) \in Int /\ 50 * (e * p) \in Int
    BY <1>1, <1>5, <1>8 DEF Positive
  <2> HIDE DEF d, e, rest, limit
  <2>2. QED
    BY <1>10, <1>11, <1>12, <1>13, <1>14, <2>1
<1>16. QED
  BY <1>15 DEF x, c

-------------------------------------------------------------------------------
(* The window. *)

DisplayTypeOK ==
  on \subseteq Outputs /\ scaleOf \in [Outputs -> Nat] /\ preferred \in Nat

(* A window has a size, which is the server's until the compositor wants    *)
(* another.                                                                 *)
Sized == Open => window \in Windows /\ screen \in Screens /\ laidFor \in Screens

(* Nothing is laid out but in window_resize, which looks at the scale and   *)
(* the screen of its moment; they change without it in two events only.     *)
UpToDate == Open => layout = LaidOut(window, laidFor) /\ (stale \/ Current)

WindowInv == DisplayTypeOK /\ Sized /\ UpToDate

(* output_list_get_max_scale gives a scale, though outputs have none at     *)
(* first.                                                                   *)
LEMMA GreatestScale ==
  ASSUME NEW S \in SUBSET Outputs, NEW f \in [Outputs -> Nat]
  PROVE  Max({1} \cup {f[o] : o \in S}) \in Positive
<1> DEFINE T == {f[o] : o \in S}
           g == [o \in S |-> f[o]]
<1>1. IsFiniteSet(S)
  BY FS_Subset, WindowAssumption
<1>2. g \in Surjection(S, T)
  BY DEF Surjection
<1>3. IsFiniteSet(T)
  <2> HIDE DEF g, T
  <2>1. QED BY <1>1, <1>2, FS_Surjection
<1>4. IsFiniteSet({1} \cup T)
  BY <1>3, FS_AddElement
<1>5. {1} \cup T \in SUBSET Nat
  OBVIOUS
<1>6. Max({1} \cup T) \in {1} \cup T /\ \A y \in {1} \cup T : Max({1} \cup T) >= y
  <2> HIDE DEF T
  <2>1. QED BY <1>4, <1>5, MaxOfNaturals
<1>7. Max({1} \cup T) \in Nat /\ Max({1} \cup T) >= 1
  BY <1>5, <1>6
<1>8. QED
  BY <1>7 DEF Positive

(* window_resize leaves all as it was, or makes a layout for what is now.   *)
LEMMA Resized ==
  ASSUME window_get_scale' \in Positive, NEW w, NEW width \in Nat, NEW height \in Nat,
         window_resize(w, width, height)
  PROVE  LET new == [width |-> width, height |-> height, scale |-> window_get_scale']
         IN \/ /\ window' = w /\ UNCHANGED laid
               /\ 0 \in {width, height} \/ w = new
            \/ new \in Windows /\ window' = new /\ LayOut(new)
BY DEF window_resize, Windows, Positive

LEMMA WindowsOpen == \A w \in Windows : w # NoWindow
BY DEF Windows, NoWindow, Positive

LEMMA WindowInitially == WindowInit => WindowInv
BY DEF WindowInit, WindowInv, DisplayTypeOK, Sized, UpToDate, Open

LEMMA WindowKept == WindowInv /\ [WindowNext]_wvars => WindowInv'
<1> SUFFICES ASSUME WindowInv, [WindowNext]_wvars PROVE WindowInv'
  OBVIOUS
<1> USE WindowAssumption DEF WindowInv
<1>1. DisplayTypeOK' => window_get_scale' \in Positive
  <2> SUFFICES ASSUME DisplayTypeOK' PROVE window_get_scale' \in Positive
    OBVIOUS
  <2>1. Max({1} \cup {scaleOf'[o] : o \in on'}) \in Positive
    BY GreatestScale DEF DisplayTypeOK
  <2>2. QED
    BY <2>1 DEF window_get_scale, output_list_get_max_scale, DisplayTypeOK, Positive
<1>2. ASSUME Open, DisplayTypeOK', screen' = screen, NEW width \in Nat, NEW height \in Nat,
             window_resize(window, width, height),
             0 \in {width, height} => window_get_scale' = window_get_scale
      PROVE  WindowInv'
  <2> DEFINE new == [width |-> width, height |-> height, scale |-> window_get_scale']
  <2>1. window_get_scale' \in Positive
    BY <1>1, <1>2
  <2>2. CASE /\ window' = window /\ UNCHANGED laid
             /\ 0 \in {width, height} \/ window = new
    <3>1. window.scale = window_get_scale' \/ window_get_scale' = window_get_scale
      BY <1>2, <2>2
    <3>2. Sized'
      BY <1>2, <2>2 DEF Sized, Open, laid
    <3>3. UpToDate'
      BY <1>2, <2>2, <3>1 DEF UpToDate, Current, Open, laid
    <3>4. QED
      BY <1>2, <3>2, <3>3
  <2>3. CASE new \in Windows /\ window' = new /\ LayOut(new)
    BY <1>2, <2>3 DEF Sized, UpToDate, Current, LayOut, Open
  <2>4. QED
    BY <1>2, <2>1, <2>2, <2>3, Resized
<1>3. ASSUME NEW o \in Outputs, GlobalOutput(o)
      PROVE  WindowInv'
  BY <1>3 DEF GlobalOutput, DisplayTypeOK, Sized, UpToDate, Current, Open, laid,
              window_get_scale, output_list_get_max_scale
<1>4. ASSUME NEW o \in Outputs, NEW factor \in OutputScales, OutputScale(o, factor)
      PROVE  WindowInv'
  <2>1. DisplayTypeOK'
    BY <1>4 DEF OutputScale, DisplayTypeOK
  <2>2. Sized'
    BY <1>4 DEF OutputScale, Sized, Open
  <2>3. UpToDate'
    <3>1. Open' /\ ~stale' => Open /\ ~stale /\ window_get_scale' = window_get_scale
      BY <1>4 DEF OutputScale, Open
    <3>2. window' = window /\ layout' = layout /\ screen' = screen /\ laidFor' = laidFor
      BY <1>4 DEF OutputScale
    <3>3. stale' \in BOOLEAN
      BY <1>4 DEF OutputScale
    <3>4. QED
      BY <3>1, <3>2, <3>3 DEF UpToDate, Current, Open
  <2>4. QED
    BY <2>1, <2>2, <2>3
<1>5. ASSUME NEW size \in ScreenSizes, AllocFb(size)
      PROVE  WindowInv'
  <2>1. size \in Screens /\ size[1] \in Nat /\ size[2] \in Nat /\ 0 \notin {size[1], size[2]}
    BY DEF Screens, Positive
  <2>2. DisplayTypeOK' /\ window_get_scale' = window_get_scale /\ screen' = size
    BY <1>5 DEF AllocFb, display, DisplayTypeOK, window_get_scale, output_list_get_max_scale
  <2>3. CASE Open
    <3>1. /\ window' = window /\ layout' = layout /\ laidFor' = laidFor
          /\ stale' = (stale \/ size # screen)
      BY <1>5, <2>3 DEF AllocFb
    <3>2. Sized'
      BY <2>1, <2>2, <2>3, <3>1 DEF Sized, Open
    <3>3. UpToDate'
      BY <2>2, <2>3, <3>1 DEF UpToDate, Current, Open
    <3>4. QED
      BY <2>2, <3>2, <3>3
  <2>4. CASE ~Open
    <3> DEFINE new == [width |-> size[1], height |-> size[2], scale |-> window_get_scale']
    <3>1. window_resize(window_create, size[1], size[2])
      BY <1>5, <2>4 DEF AllocFb
    <3>2. window_create # new
      BY <2>1 DEF window_create
    <3>3. new \in Windows /\ window' = new /\ LayOut(new)
      BY <1>1, <2>1, <2>2, <3>1, <3>2, Resized
    <3>4. QED
      BY <2>1, <2>2, <3>3 DEF Sized, UpToDate, Current, LayOut
  <2>5. QED
    BY <2>3, <2>4
<1>6. ASSUME NEW size \in Sizes, ToplevelConfigure(size)
      PROVE  WindowInv'
  <2>1. DisplayTypeOK' /\ window_get_scale' = window_get_scale
    BY <1>6 DEF ToplevelConfigure, display, DisplayTypeOK, window_get_scale,
                output_list_get_max_scale
  <2>2. size[1] \in Nat /\ size[2] \in Nat
    OBVIOUS
  <2>3. QED
    BY <1>2, <1>6, <2>1, <2>2 DEF ToplevelConfigure
<1>7. Open => window.width \in Nat /\ window.height \in Nat
              /\ 0 \notin {window.width, window.height}
  BY DEF Sized, Windows, Positive
<1>8. ASSUME NEW o \in Outputs, SurfaceEnter(o) \/ SurfaceLeave(o)
      PROVE  WindowInv'
  <2>1. Open /\ DisplayTypeOK' /\ screen' = screen
    BY <1>8 DEF SurfaceEnter, SurfaceLeave, DisplayTypeOK
  <2>2. window_resize(window, window.width, window.height)
    BY <1>8 DEF SurfaceEnter, SurfaceLeave
  <2>3. QED
    BY <1>2, <1>7, <2>1, <2>2
<1>9. ASSUME NEW factor \in Factors, PreferredBufferScale(factor)
      PROVE  WindowInv'
  <2>1. Open /\ DisplayTypeOK' /\ screen' = screen
    BY <1>9 DEF PreferredBufferScale, DisplayTypeOK
  <2>2. window_resize(window, window.width, window.height)
    BY <1>9 DEF PreferredBufferScale
  <2>3. QED
    BY <1>2, <1>7, <2>1, <2>2
<1>10. CASE UNCHANGED wvars
  BY <1>10 DEF wvars, laid, display, DisplayTypeOK, Sized, UpToDate, Current, Open,
               window_get_scale, output_list_get_max_scale
<1>11. QED
  BY <1>3, <1>4, <1>5, <1>6, <1>8, <1>9, <1>10 DEF WindowNext

LEMMA WindowFits == WindowInv => PictureFits
<1> SUFFICES ASSUME WindowInv, Open
             PROVE  PictureFits
  BY DEF PictureFits
<1> DEFINE W == window.width
           H == window.height
           s == window.scale
           x == laidFor[1]
           y == laidFor[2]
           b == window_calculate_buffer(window, laidFor)
           limit == Max({x, y}) + (x * y) \div 100
           skew == layout.width * y - layout.height * x
<1>1. window \in Windows /\ laidFor \in Screens
      /\ layout = LaidOut(window, laidFor) /\ (stale \/ Current)
  BY DEF WindowInv, Sized, UpToDate
<1>2. W \in Positive /\ H \in Positive /\ s \in Positive /\ x \in Positive /\ y \in Positive
  BY <1>1 DEF Windows, Screens
<1>3. Placed(W, H, s, x, y, b, layout)
      /\ layout.x = (W - layout.width) \div 2 /\ layout.y = (H - layout.height) \div 2
  BY <1>1, ThreeWays
<1>4. /\ layout.width \in 0 .. W /\ layout.height \in 0 .. H
      /\ layout.width = W \/ layout.height = H
      /\ \/ skew \in -y .. x
         \/ 100 * skew \in -(x * y) .. x * y
  <2> HIDE DEF b, W, H, s, x, y
  <2>1. QED BY <1>2, <1>3, Proportions
<1>5. skew \in -limit .. limit
  <2>1. Max({x, y}) \in Nat /\ Max({x, y}) >= x /\ Max({x, y}) >= y
    BY <1>2, GreaterOfTwo DEF Positive
  <2>2. skew \in Int /\ x * y \in Nat
    BY <1>2, <1>4 DEF Positive
  <2> HIDE DEF skew
  <2>3. QED
    BY <1>2, <1>4, <2>1, <2>2 DEF Positive
<1>6. /\ W - layout.width \in Nat /\ H - layout.height \in Nat
      /\ W - layout.width = 0 \/ H - layout.height = 0
      /\ W - layout.width - 2 * layout.x \in 0 .. 1
      /\ H - layout.height - 2 * layout.y \in 0 .. 1
  <2>1. \A a \in Nat : a - 2 * (a \div 2) \in 0 .. 1
    OBVIOUS
  <2> HIDE DEF W, H, b
  <2>2. /\ W - layout.width \in Nat /\ H - layout.height \in Nat
        /\ W - layout.width = 0 \/ H - layout.height = 0
    BY <1>2, <1>4 DEF Positive
  <2>3. QED
    BY <1>3, <2>1, <2>2
<1>7. QED
  BY <1>1, <1>5, <1>6 DEF PictureFits

LEMMA WindowOnTarget == WindowInv => PointerOnTarget
<1> SUFFICES ASSUME WindowInv, Open, Current
             PROVE  SentInPlace
  BY DEF PointerOnTarget
<1> DEFINE W == window.width
           H == window.height
           s == window.scale
           x == screen[1]
           y == screen[2]
           b == window_calculate_buffer(window, screen)
           Near(c, p, dest, source) ==
             LET miss == 50 * b.num * (2 * c * dest - p * source)
                 limit == dest * (100 * b.den * (s + 1) + 100 * b.num + source * b.den)
             IN miss \in -limit .. limit
<1>1. window \in Windows /\ screen \in Screens
      /\ s = window_get_scale /\ layout = LaidOut(window, screen)
  BY DEF WindowInv, Sized, UpToDate, Current
<1>2. W \in Positive /\ H \in Positive /\ s \in Positive /\ x \in Positive /\ y \in Positive
  BY <1>1 DEF Windows, Screens
<1>3. Placed(W, H, s, x, y, b, layout)
  BY <1>1, ThreeWays
<1>4. /\ b.num \in Positive /\ b.den \in Positive
      /\ layout.width \in Nat /\ layout.height \in Nat
      /\ RatioHolds(b, s, layout.width, x) /\ RatioHolds(b, s, layout.height, y)
  <2> HIDE DEF b, W, H, s, x, y
  <2>1. /\ b.num \in Positive /\ b.den \in Positive
        /\ layout.width \in 0 .. W /\ layout.height \in 0 .. H
        /\ RatioHolds(b, s, layout.width, x) /\ RatioHolds(b, s, layout.height, y)
    BY <1>2, <1>3, Proportions
  <2>2. QED
    BY <1>2, <2>1 DEF Positive
<1>5. ASSUME NEW dest \in Nat, NEW source \in Positive, RatioHolds(b, s, dest, source),
             NEW p \in 0 .. 2 * dest
      PROVE  Near(PointerPosition(p, b), p, dest, source)
  <2>1. PointerPosition(p, b) = Round(Round(p * s, 2) * b.den, b.num)
    BY <1>1 DEF PointerPosition, surface_coord_to_buffer_coord
  <2> HIDE DEF b, s
  <2>2. QED
    BY <1>2, <1>4, <1>5, <2>1, OnTarget
<1>6. QED
  BY <1>2, <1>4, <1>5 DEF SentInPlace

(* The window by itself: whatever is said of outputs, scales and sizes, the *)
(* picture fits as it was laid out last, and until one of the two events    *)
(* that lay nothing out comes (output_handle_scale, on_vnc_client_alloc_fb) *)
(* that is for the scale and the screen of now, and positions of the        *)
(* pointer are sent as that of the pixel below (window_resize,              *)
(* on_pointer_event).                                                       *)
THEOREM WindowSafe ==
  WindowInit /\ [][WindowNext]_wvars => [](PictureFits /\ PointerOnTarget)
<1>1. WindowInit /\ [][WindowNext]_wvars => []WindowInv
  BY WindowInitially, WindowKept, PTL
<1>2. QED
  BY <1>1, WindowFits, WindowOnTarget, PTL

-------------------------------------------------------------------------------
(* Seats. *)

SeatsTypeOK ==
  /\ announced \subseteq Seats /\ early \subseteq Seats
  /\ off \subseteq Seats /\ mistaken \subseteq Seats /\ failed \subseteq Seats
  /\ known \subseteq Addresses
  /\ memory \in [Addresses -> SUBSET Seats] /\ object \in [Addresses -> SUBSET Seats]
  /\ live \in [Seats -> Nat]

(* A struct seat is at one address and is alone there. *)
SeatsHoused ==
  /\ \A a \in Addresses : memory[a] \subseteq announced
  /\ \A a \in Addresses : \A s, t \in memory[a] : s = t
  /\ \A a, b \in Addresses : \A s \in memory[a] : s \in memory[b] => a = b

(* An entry holds an object only once there is a surface; a seat has its    *)
(* object in one entry, and as long as it lives that is its own.            *)
ObjectsHeld ==
  /\ \A a \in Addresses : object[a] \subseteq announced
  /\ \A a \in Addresses : object[a] # {} => a \in known /\ Surface
  /\ \A a, b \in Addresses : \A s \in object[a] : s \in object[b] \cup memory[b] => a = b

(* A seat in the list came before the manager or has an entry at its        *)
(* address: what inhibitor_init and inhibitor_toggle rely on.               *)
SeatsListed == \A a \in Addresses : \A s \in memory[a] : s \in early \/ a \in known

SeatsInv ==
  /\ SeatsTypeOK
  /\ SeatsHoused
  /\ ObjectsHeld
  /\ SeatsListed
  /\ OneInhibitor
  /\ InhibitedOnceConfigured
  /\ AbortsForEarlySeats

LEMMA SeatsInitially == Init => SeatsInv
BY DEF Init, SeatsInv, SeatsTypeOK, SeatsHoused, ObjectsHeld, SeatsListed, OneInhibitor,
       InhibitedOnceConfigured, AbortsForEarlySeats

(* inhibitor_inhibit makes an object for each seat whose entry has none. *)
LEMMA InhibitKeeps ==
  ASSUME SeatsInv, NEW A \in SUBSET known, Inhibit(A), Surface',
         UNCHANGED <<announced, memory, known>>
  PROVE  /\ object' \in [Addresses -> SUBSET Seats] /\ live' \in [Seats -> Nat]
         /\ mistaken' \subseteq Seats
         /\ ObjectsHeld' /\ OneInhibitor'
<1> DEFINE new == {a \in A : object[a] = {}}
<1>1. /\ A \subseteq Addresses /\ new \subseteq A
      /\ \A a \in new : object[a] = {}
  BY DEF SeatsInv, SeatsTypeOK
<1>2. /\ object' = [a \in Addresses |-> IF a \in new THEN memory[a] ELSE object[a]]
      /\ live' = [s \in Seats |-> live[s] + IF \E a \in new : s \in memory[a] THEN 1 ELSE 0]
      /\ mistaken' \subseteq mistaken
  BY DEF Inhibit, SeatsAt
<1> HIDE DEF new
<1>3. \A a \in Addresses : object'[a] = IF a \in new THEN memory[a] ELSE object[a]
  BY <1>2
<1>4. object' \in [Addresses -> SUBSET Seats] /\ live' \in [Seats -> Nat]
      /\ mistaken' \subseteq Seats
  BY <1>2 DEF SeatsInv, SeatsTypeOK
<1>5. ObjectsHeld'
  <2>1. ASSUME NEW a \in Addresses
        PROVE  /\ object'[a] \subseteq announced'
               /\ object'[a] # {} => a \in known' /\ Surface'
    BY <1>1, <1>3 DEF SeatsInv, SeatsHoused, ObjectsHeld
  <2>2. ASSUME NEW a \in Addresses, NEW b \in Addresses, NEW s \in object'[a],
               s \in object'[b] \cup memory'[b]
        PROVE  a = b
    <3>1. s \in object[a] \/ s \in memory[a]
      BY <1>3
    <3>2. s \in object[b] \/ s \in memory[b]
      BY <1>3, <2>2
    <3>3. QED
      BY <3>1, <3>2 DEF SeatsInv, SeatsHoused, ObjectsHeld
  <2>3. QED
    BY <2>1, <2>2 DEF ObjectsHeld
<1>6. ASSUME NEW s \in Seats
      PROVE  live'[s] = IF \E a \in Addresses : s \in object'[a] THEN 1 ELSE 0
  <2>1. live[s] = IF \E a \in Addresses : s \in object[a] THEN 1 ELSE 0
    BY DEF SeatsInv, OneInhibitor
  <2>2. CASE \E a \in new : s \in memory[a]
    <3>1. PICK a \in new : s \in memory[a]
      BY <2>2
    <3>2. ~ \E b \in Addresses : s \in object[b]
      BY <1>1, <3>1 DEF SeatsInv, ObjectsHeld
    <3>3. s \in object'[a] /\ a \in Addresses
      BY <1>1, <1>3, <3>1
    <3>4. live'[s] = live[s] + 1
      BY <1>2, <2>2
    <3>5. QED
      BY <2>1, <3>2, <3>3, <3>4
  <2>3. CASE ~ \E a \in new : s \in memory[a]
    <3>1. \A a \in Addresses : s \in object'[a] <=> s \in object[a]
      BY <1>1, <1>3, <2>3
    <3>2. live'[s] = live[s]
      BY <1>2, <2>3 DEF SeatsInv, SeatsTypeOK
    <3>3. QED
      BY <2>1, <3>1, <3>2
  <2>4. QED
    BY <2>2, <2>3
<1>7. QED
  BY <1>4, <1>5, <1>6 DEF OneInhibitor

LEMMA SeatsKept == SeatsInv /\ [Next]_vars => SeatsInv'
<1> SUFFICES ASSUME SeatsInv, [Next]_vars PROVE SeatsInv'
  OBVIOUS
<1> USE DEF SeatsInv
<1>1. CASE GlobalManager
  BY <1>1 DEF GlobalManager, inhibitor, SeatsTypeOK, SeatsHoused, ObjectsHeld, SeatsListed,
              OneInhibitor, InhibitedOnceConfigured, AbortsForEarlySeats, Surface, fate
<1>2. CASE XdgSurfaceConfigure
  <2>1. /\ UNCHANGED <<announced, early, memory, known, off, failed>>
    BY <1>2 DEF XdgSurfaceConfigure, globals
  <2>2. CASE ~manager \/ Surface
    <3>1. UNCHANGED <<object, live, mistaken>> /\ (Surface' <=> Surface)
      BY <1>2, <2>2 DEF XdgSurfaceConfigure, Surface
    <3>2. QED
      BY <2>1, <3>1 DEF SeatsTypeOK, SeatsHoused, ObjectsHeld, SeatsListed,
                        OneInhibitor, InhibitedOnceConfigured, AbortsForEarlySeats
  <2>3. CASE ~(~manager \/ Surface) /\ \E a \in known : memory[a] = {}
    <3>1. UNCHANGED <<object, live, mistaken, configured>>
      BY <1>2, <2>3 DEF XdgSurfaceConfigure
    <3>2. QED
      BY <2>1, <3>1 DEF SeatsTypeOK, SeatsHoused, ObjectsHeld, SeatsListed, Surface,
                        OneInhibitor, InhibitedOnceConfigured, AbortsForEarlySeats
  <2>4. CASE ~(~manager \/ Surface) /\ ~ \E a \in known : memory[a] = {}
    <3>1. Surface' /\ Inhibit(known)
      BY <1>2, <2>4 DEF XdgSurfaceConfigure, Surface
    <3>2. /\ object' \in [Addresses -> SUBSET Seats] /\ live' \in [Seats -> Nat]
          /\ mistaken' \subseteq Seats
          /\ ObjectsHeld' /\ OneInhibitor'
      BY <2>1, <3>1, InhibitKeeps
    <3>3. \A a \in known : object'[a] = memory[a]
      BY <2>4, <3>1 DEF Inhibit, ObjectsHeld, SeatsTypeOK
    <3>4. InhibitedOnceConfigured'
      BY <2>1, <3>3 DEF InhibitedOnceConfigured, SeatsListed
    <3>5. SeatsTypeOK' /\ SeatsHoused' /\ SeatsListed' /\ AbortsForEarlySeats'
      BY <2>1, <3>2 DEF SeatsTypeOK, SeatsHoused, SeatsListed, AbortsForEarlySeats
    <3>6. QED
      BY <3>2, <3>4, <3>5
  <2>5. QED
    BY <2>2, <2>3, <2>4
<1>3. ASSUME NEW s \in Seats, NEW a \in Addresses, GlobalSeat(s, a)
      PROVE  SeatsInv'
  <2>1. /\ s \notin announced /\ memory[a] = {} /\ announced' = announced \cup {s}
        /\ early' = IF manager THEN early ELSE early \cup {s}
        /\ memory' = [memory EXCEPT ![a] = {s}]
        /\ UNCHANGED <<off, failed>> /\ (Surface' <=> Surface)
    BY <1>3 DEF GlobalSeat, Surface, fate
  <2>2. \A b \in Addresses : memory'[b] = IF b = a THEN {s} ELSE memory[b]
    BY <2>1 DEF SeatsTypeOK
  <2>3. SeatsHoused'
    BY <2>1, <2>2 DEF SeatsHoused
  <2>4. AbortsForEarlySeats'
    BY <2>1 DEF AbortsForEarlySeats
  <2>5. CASE ~manager \/ a \in known
    <3>1. /\ UNCHANGED <<known, object, live>>
          /\ mistaken' = IF manager THEN mistaken \cup {s} ELSE mistaken
      BY <1>3, <2>5 DEF GlobalSeat, inhibitor_add_seat
    <3>2. SeatsTypeOK'
      BY <2>1, <3>1 DEF SeatsTypeOK
    <3>3. ObjectsHeld'
      BY <2>1, <2>2, <3>1 DEF ObjectsHeld
    <3>4. SeatsListed'
      BY <2>1, <2>2, <2>5, <3>1 DEF SeatsListed
    <3>5. InhibitedOnceConfigured'
      BY <2>1, <2>2, <3>1 DEF InhibitedOnceConfigured
    <3>6. OneInhibitor'
      BY <3>1 DEF OneInhibitor
    <3>7. QED
      BY <2>3, <2>4, <3>2, <3>3, <3>4, <3>5, <3>6
  <2>6. CASE manager /\ a \notin known
    <3>1. /\ known' = known \cup {a} /\ mistaken' = mistaken
          /\ IF Surface THEN /\ object' = [object EXCEPT ![a] = {s}]
                             /\ live' = [live EXCEPT ![s] = @ + 1]
                        ELSE UNCHANGED <<object, live>>
      BY <1>3, <2>6 DEF GlobalSeat, inhibitor_add_seat
    <3>2. object[a] = {} /\ \A b \in Addresses : s \notin object[b]
      BY <2>1, <2>6 DEF ObjectsHeld
    <3>3. SeatsTypeOK'
      BY <2>1, <3>1 DEF SeatsTypeOK
    <3>4. \A b \in Addresses : object'[b] = IF Surface /\ b = a THEN {s} ELSE object[b]
      BY <3>1 DEF SeatsTypeOK
    <3>5. ObjectsHeld'
      <4>1. ASSUME NEW b \in Addresses
            PROVE  /\ object'[b] \subseteq announced'
                   /\ object'[b] # {} => b \in known' /\ Surface'
        BY <2>1, <3>1, <3>4 DEF ObjectsHeld
      <4>2. ASSUME NEW b \in Addresses, NEW c \in Addresses, NEW r \in object'[b],
                   r \in object'[c] \cup memory'[c]
            PROVE  b = c
        <5>1. CASE r = s
          BY <2>1, <2>2, <3>2, <3>4, <4>2, <5>1 DEF SeatsHoused
        <5>2. CASE r # s
          BY <2>2, <3>4, <4>2, <5>2 DEF ObjectsHeld
        <5>3. QED
          BY <5>1, <5>2
      <4>3. QED
        BY <4>1, <4>2 DEF ObjectsHeld
    <3>6. SeatsListed'
      BY <2>1, <2>2, <3>1 DEF SeatsListed
    <3>7. InhibitedOnceConfigured'
      BY <2>1, <2>2, <3>1, <3>4 DEF InhibitedOnceConfigured
    <3>8. \A r \in Seats : live'[r] = live[r] + IF Surface /\ r = s THEN 1 ELSE 0
      BY <3>1 DEF SeatsTypeOK
    <3>9. OneInhibitor'
      BY <3>2, <3>4, <3>8 DEF OneInhibitor
    <3>10. QED
      BY <2>3, <2>4, <3>3, <3>5, <3>6, <3>7, <3>9
  <2>7. QED
    BY <2>5, <2>6
<1>4. ASSUME NEW s \in Seats, GlobalRemove(s)
      PROVE  SeatsInv'
  <2>1. /\ UNCHANGED <<announced, early, known, object, live, mistaken, off, failed>>
        /\ Surface' <=> Surface
    BY <1>4 DEF GlobalRemove, inhibitor, fate, Surface
  <2>2. memory' \in [Addresses -> SUBSET Seats] /\ \A a \in Addresses : memory'[a] \subseteq memory[a]
    BY <1>4 DEF GlobalRemove, SeatsTypeOK
  <2>3. SeatsTypeOK' /\ OneInhibitor' /\ AbortsForEarlySeats'
    BY <2>1, <2>2 DEF SeatsTypeOK, OneInhibitor, AbortsForEarlySeats
  <2>4. SeatsHoused' /\ ObjectsHeld' /\ SeatsListed'
    BY <2>1, <2>2 DEF SeatsHoused, ObjectsHeld, SeatsListed
  <2>5. InhibitedOnceConfigured'
    BY <2>1, <2>2 DEF InhibitedOnceConfigured
  <2>6. QED
    BY <2>3, <2>4, <2>5
<1>5. ASSUME UNCHANGED <<announced, early, memory, known, object, live, mistaken, off, failed,
                         configured>>
      PROVE  SeatsInv'
  BY <1>5 DEF SeatsTypeOK, SeatsHoused, ObjectsHeld, SeatsListed, Surface,
              OneInhibitor, InhibitedOnceConfigured, AbortsForEarlySeats
<1>6. ASSUME NEW s \in Seats, Capabilities(s) \/ F12Released(s)
      PROVE  SeatsInv'
  BY <1>5, <1>6 DEF Capabilities, F12Released, globals, inhibitor, fate
<1>7. ASSUME NEW a \in Addresses, InhibitorActive(a) \/ InhibitorInactive(a)
      PROVE  SeatsInv'
  BY <1>5, <1>7 DEF InhibitorActive, InhibitorInactive, globals, fate
<1>8. ASSUME NEW s \in Seats, NEW a \in Addresses, ToggleNothing(s, a)
      PROVE  SeatsInv'
  BY <1>5, <1>8 DEF ToggleNothing, Delivered, globals, fate
<1>9. ASSUME NEW s \in Seats, NEW a \in Addresses, ToggleUnknown(s, a)
      PROVE  SeatsInv'
  <2>1. /\ UNCHANGED <<announced, early, memory, known, object, live, mistaken, off, configured>>
        /\ failed' = failed \cup {s} /\ s \in memory[a] /\ a \notin known
    BY <1>9 DEF ToggleUnknown, Delivered, globals
  <2>2. AbortsForEarlySeats'
    BY <2>1 DEF AbortsForEarlySeats, SeatsListed
  <2>3. SeatsTypeOK' /\ SeatsHoused' /\ ObjectsHeld' /\ SeatsListed' /\ OneInhibitor'
        /\ InhibitedOnceConfigured'
    BY <2>1 DEF SeatsTypeOK, SeatsHoused, ObjectsHeld, SeatsListed, Surface,
                OneInhibitor, InhibitedOnceConfigured
  <2>4. QED
    BY <2>2, <2>3
<1>10. ASSUME NEW s \in Seats, NEW a \in Addresses, ToggleRelease(s, a)
       PROVE  SeatsInv'
  <2>1. /\ UNCHANGED <<announced, early, memory, known, mistaken, failed, configured>>
        /\ s \in memory[a]
    BY <1>10 DEF ToggleRelease, Delivered, globals, fate
  <2>2. CASE ~active[a]
    BY <1>5, <1>10, <2>1, <2>2 DEF ToggleRelease
  <2>3. CASE active[a]
    <3>1. /\ object' = [object EXCEPT ![a] = {}]
          /\ live' = [r \in Seats |-> live[r] - IF r \in object[a] THEN 1 ELSE 0]
          /\ off' = off \cup {s}
      BY <1>10, <2>3 DEF ToggleRelease
    <3>2. \A b \in Addresses : object'[b] = IF b = a THEN {} ELSE object[b]
      BY <3>1 DEF SeatsTypeOK
    <3>3. \A r \in Seats : live'[r] = IF r \in object[a] THEN 0 ELSE live[r]
      BY <3>1 DEF OneInhibitor, SeatsTypeOK
    <3>4. OneInhibitor'
      <4>1. ASSUME NEW r \in Seats
            PROVE  live'[r] = IF \E b \in Addresses : r \in object'[b] THEN 1 ELSE 0
        <5>1. CASE r \in object[a]
          BY <3>2, <3>3, <5>1 DEF ObjectsHeld
        <5>2. CASE r \notin object[a]
          BY <3>2, <3>3, <5>2 DEF OneInhibitor
        <5>3. QED
          BY <5>1, <5>2
      <4>2. QED
        BY <4>1 DEF OneInhibitor
    <3>5. SeatsTypeOK'
      BY <2>1, <3>1, <3>3, <3>4 DEF SeatsTypeOK
    <3>6. ObjectsHeld'
      BY <2>1, <3>2 DEF ObjectsHeld, Surface
    <3>7. InhibitedOnceConfigured'
      BY <2>1, <3>1, <3>2 DEF InhibitedOnceConfigured, SeatsHoused, Surface
    <3>8. SeatsHoused' /\ SeatsListed' /\ AbortsForEarlySeats'
      BY <2>1 DEF SeatsHoused, SeatsListed, AbortsForEarlySeats
    <3>9. QED
      BY <3>4, <3>5, <3>6, <3>7, <3>8
  <2>4. QED
    BY <2>2, <2>3
<1>11. ASSUME NEW s \in Seats, NEW a \in Addresses, ToggleInhibit(s, a)
       PROVE  SeatsInv'
  <2>1. /\ UNCHANGED <<announced, early, memory, known, failed, configured>>
        /\ s \in memory[a] /\ a \in known /\ object[a] = {}
    BY <1>11 DEF ToggleInhibit, Delivered, globals
  <2>2. CASE ~Surface
    BY <1>5, <1>11, <2>1, <2>2 DEF ToggleInhibit
  <2>3. CASE Surface
    <3>1. Inhibit({a}) /\ off' = off \ {s} /\ Surface'
      BY <1>11, <2>1, <2>3 DEF ToggleInhibit, Surface
    <3>2. /\ object' \in [Addresses -> SUBSET Seats] /\ live' \in [Seats -> Nat]
          /\ mistaken' \subseteq Seats
          /\ ObjectsHeld' /\ OneInhibitor'
      BY <2>1, <3>1, InhibitKeeps
    <3>3. /\ \A b \in Addresses : object'[b] = IF b = a THEN memory[a] ELSE object[b]
          /\ mistaken' = mistaken \ memory[a]
      <4>1. {b \in {a} : object[b] = {}} = {a}
        BY <2>1
      <4>2. SeatsAt({a}) = memory[a]
        BY DEF SeatsAt
      <4>3. QED
        BY <3>1, <4>1, <4>2 DEF Inhibit
    <3>4. InhibitedOnceConfigured'
      BY <2>1, <2>3, <3>1, <3>3 DEF InhibitedOnceConfigured, SeatsHoused
    <3>5. SeatsTypeOK' /\ SeatsHoused' /\ SeatsListed' /\ AbortsForEarlySeats'
      BY <2>1, <3>1, <3>2 DEF SeatsTypeOK, SeatsHoused, SeatsListed, AbortsForEarlySeats
    <3>6. QED
      BY <3>2, <3>4, <3>5
  <2>4. QED
    BY <2>2, <2>3
<1>12. CASE UNCHANGED vars
  BY <1>5, <1>12 DEF vars, globals, inhibitor, fate
<1>13. QED
  BY <1>1, <1>2, <1>3, <1>4, <1>6, <1>7, <1>8, <1>9, <1>10, <1>11, <1>12 DEF Next

(* The window does nothing to the seats: with it they behave as they would  *)
(* alone, so that what holds of every behaviour of Seats holds here         *)
(* (main.c: inhibitor_init is what both have in common).                    *)
THEOREM SeatsImplemented == WaylandSpec => Spec
<1>1. WaylandInit => Init
  BY DEF WaylandInit
<1>2. [WaylandNext]_<<vars, wvars>> => [Next]_vars
  BY DEF WaylandNext, SeatStep, WindowStep
<1>3. QED
  BY <1>1, <1>2, PTL DEF WaylandSpec, Spec

LEMMA SeatsAlways == WaylandSpec => []SeatsInv
BY SeatsInitially, SeatsKept, SeatsImplemented, PTL DEF Spec

(* The compositor has an inhibitor of a seat exactly when an entry of the   *)
(* client's list holds it, and never two: inhibitor_init,                   *)
(* inhibitor_add_seat and the toggles, which come in any order, do not get  *)
(* in each other's way, nor do entries left behind by seats that have gone. *)
THEOREM InhibitorsAgree == WaylandSpec => []OneInhibitor
BY SeatsAlways, PTL DEF SeatsInv

(* Once a configure event has found the manager, every seat is inhibited by *)
(* the entry of its address (inhibitor_init, inhibitor_add_seat), but those *)
(* whose user has toggled that off, those that came before the manager, and *)
(* those that were given the address of one that had gone and have not been *)
(* inhibited since.                                                         *)
THEOREM SeatsInhibited == WaylandSpec => []InhibitedOnceConfigured
BY SeatsAlways, PTL DEF SeatsInv

(* The assertion of inhibitor_is_inhibited fails for nothing but a seat     *)
(* that came before the manager.                                            *)
THEOREM AbortsExplained == WaylandSpec => []AbortsForEarlySeats
BY SeatsAlways, PTL DEF SeatsInv

-------------------------------------------------------------------------------
(* Window. *)

LEMMA WindowAlways == WaylandSpec => []WindowInv
<1>1. WaylandInit => WindowInv
  BY WindowInitially DEF WaylandInit
<1>2. [WaylandNext]_<<vars, wvars>> => [WindowNext]_wvars
  BY DEF WaylandNext, SeatStep, WindowStep
<1>3. QED
  BY <1>1, <1>2, WindowKept, PTL DEF WaylandSpec

(* The picture is inside the window, in its middle, and not distorted but   *)
(* for what the code allows itself, for the screen that it was laid out for *)
(* (window_resize, window_calculate_buffer): the one of now, at the scale   *)
(* of now, unless an output's scale or a new size of the server's screen    *)
(* has come since, which lay nothing out.                                   *)
THEOREM PictureAlwaysFits == WaylandSpec => []PictureFits
BY WindowAlways, WindowFits, PTL

(* As long as the scale and the screen are those that the picture was laid  *)
(* out for, the server is told of the pixel that the pointer is on, for     *)
(* every place on the picture (on_pointer_event).                           *)
THEOREM PointerAlwaysOnTarget == WaylandSpec => []PointerOnTarget
BY WindowAlways, WindowOnTarget, PTL
===============================================================================
