------------------------------- MODULE Reader --------------------------------
(***************************************************************************)
(* What the decoders of rectangles share: the data of a rectangle as a     *)
(* sequence of items, the state of a decoder, and reading.  An item says   *)
(* what the server meant by its bytes: a "pixel" of four bytes, a "cpixel" *)
(* of three, a "byte", a "count", ...  A client that reads one kind where  *)
(* the server wrote another has lost its place in the stream.              *)
(*                                                                         *)
(* A decoder is a record: ok, whether every read so far was of what is     *)
(* there; s, the items that are left; v, the values just read; fb, the     *)
(* framebuffer; st, the local variables of the function that decodes the   *)
(* rectangle; z, the state of the zlib streams; h264, the table of video   *)
(* decoders.                                                               *)
(***************************************************************************)
EXTENDS Raster

Item(k, v) == [k |-> k, v |-> v]
Items(k, values) == [i \in DOMAIN values |-> Item(k, values[i])]

NoRect == [x |-> 0, y |-> 0, w |-> 0, h |-> 0, c |-> 0]
NoChunk == [of |-> "none", n |-> 0, len |-> 0, parts |-> <<>>]

Blank(k) == CASE k = "flags" -> {}
              [] k \in {"rect", "colouredrect"} -> NoRect
              [] k \in {"bits", "lzo"} -> <<>>
              [] k = "source" -> <<0, 0>>
              [] k = "header" -> [enc |-> "none", rect |-> NoRect]
              [] k = "h264" -> [reset |-> "none", n |-> 0]
              [] k = "zlib" -> NoChunk
              [] k = "jpeg" -> [len |-> 0, pixels |-> <<>>]
              [] k = "control" -> [reset |-> {}, stream |-> "none", what |-> "none",
                                  explicit |-> FALSE, raw |-> FALSE]
              [] OTHER -> 0

\* Reads n items of kind k into d.v.
Take(d, k, n) ==
    IF d.ok /\ n <= Len(d.s) /\ \A i \in 1 .. n : d.s[i].k = k
    THEN [d EXCEPT !.v = [i \in 1 .. n |-> d.s[i].v], !.s = SubSeq(@, n + 1, Len(@))]
    ELSE [d EXCEPT !.ok = FALSE, !.v = [i \in 1 .. n |-> Blank(k)]]

Fail(d) == [d EXCEPT !.ok = FALSE]

\* The entry of an array, counted from 0; anything beyond what was stored is 0.
At(a, i) == IF i + 1 \in DOMAIN a THEN a[i + 1] ELSE 0

\* A zlib stream at either end: whose it is and how many chunks it has seen.
\* Chunks are counted 0, 1, 2, 1, 2, ...: the first one is unlike the others.
Fresh == [of |-> "none", n |-> 0]
AfterChunk(n) == IF n = 2 THEN 1 ELSE n + 1

\* inflate() of the next length bytes by stream i: they are understood only if
\* they are a whole chunk and the stream has seen all that the server's stream
\* has put out before; v is then the parts its portions expand to.
Inflate(d, i, length) ==
    LET c == Take(d, "zlib", 1)
        chunk == c.v[1]
        expected == d.z[i]
    IN [c EXCEPT !.ok = @ /\ chunk.len = length /\ chunk.n = expected.n
                            /\ (chunk.n # 0 => chunk.of = expected.of),
                 !.z[i] = [of |-> chunk.of, n |-> AfterChunk(chunk.n)],
                 !.v = chunk.parts]
==============================================================================
