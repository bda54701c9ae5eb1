----------------------------- MODULE MCFramebuffer -----------------------------
(* A screen of one row: three pixels, or two.  The setups: the software         *)
(* renderer, the EGL renderer with a screen of constant size, and video.       *)
EXTENDS Framebuffer

MCPixels == 1..3
MCSizes == {"small", "large"}
MCArea == [s \in MCSizes |-> IF s = "small" THEN 1..2 ELSE 1..3]
MCRects == {{1}, {2}, {3}, {1, 2}}
MCExtent(r) == {p \in 1..3 : (\E a \in r : a <= p) /\ (\E b \in r : p <= b)}
MCSetups ==
  {[egl |-> FALSE, video |-> "none", resizes |-> TRUE, prompt |-> FALSE],
   [egl |-> TRUE, video |-> "none", resizes |-> FALSE, prompt |-> TRUE],
   [egl |-> TRUE, video |-> "whole", resizes |-> TRUE, prompt |-> FALSE]}
MCPromptSetups ==
  {[egl |-> FALSE, video |-> "none", resizes |-> TRUE, prompt |-> TRUE]}
===============================================================================
