------------------------------ MODULE MCDecoding -----------------------------
(* A screen of two rows of four pixels, tiles of three by three: a whole      *)
(* tile and a cut one.                                                        *)
EXTENDS Decoding

Paint(F(_, _)) == [p \in Points |-> F(p[1], p[2])]

MCPatterns == {Paint(LAMBDA x, y : 1), Paint(LAMBDA x, y : IF x < 2 THEN 1 ELSE 2),
               Paint(LAMBDA x, y : (x + 2 * y) % 4)}
MCRects == {Rect(0, 0, 4, 2), Rect(1, 0, 3, 2), Rect(0, 0, 0, 0)}
MCSources == {<<0, 0>>, <<1, 0>>}
MCCursorSizes == {<<0, 0>>, <<3, 1>>}
\* The default of main.c, with EGL; and with trle besides.
MCDefault == {"open-h264", "tight", "zrle", "ultra", "copyrect", "hextile", "zlib", "corre", "rre", "raw"}
MCNames == MCDefault \cup {"trle"}
MCSetups == {{"raw", "copyrect", "rre", "corre", "ultra"}, {"ultrazip", "last"}, {"raw", "hextile", "last"},
             {"trle"}, {"zlib", "last"}, {"zrle"}, {"tight", "last"}, {"h264", "pts", "last"},
             {"raw", "cursor", "xcursor", "pointerpos", "messages", "encodings", "identity", "pts", "qemu", "last"}}
MCUltraSetups == {{"ultra", "ultrazip"}}
MCResets == {{}, {"tight1"}}
MCSplits == {2, 5}
==============================================================================
