-------------------------------- MODULE H264 ---------------------------------
(***************************************************************************)
(* The decoders of Open H.264 rectangles (open-h264.c): a table of at most *)
(* MaxContexts contexts, one per rectangle, found by comparing rectangles. *)
(* A context is a decoder with a past: a frame it decodes makes a whole    *)
(* picture only if it has decoded every frame since the key frame.  Frames *)
(* are counted like chunks: 0 for a key frame, then 1, 2, 1, 2, ...        *)
(***************************************************************************)
EXTENDS Reader

CONSTANT MaxContexts  \* OPEN_H264_MAX_CONTEXTS

\* An entry of the table may also be null, or point to where nothing is.
Context(r) == [kind |-> "context", rect |-> r, next |-> 0]
Null == [kind |-> "null", rect |-> Rect(0, 0, 0, 0), next |-> 0]
Wild == [kind |-> "wild", rect |-> Rect(0, 0, 0, 0), next |-> 0]

NoContexts == [entries |-> [i \in 1 .. MaxContexts |-> Null], n |-> 0]

\* The search reads every entry up to n, whatever became of it.
Crashes(table, r) ==
    \E i \in 1 .. table.n : /\ table.entries[i].kind # "context"
                            /\ \A j \in 1 .. i - 1 : table.entries[j].rect # r

\* Fault: a rectangle that has grown wider is taken for the same.
FoundByOrigin(table, r) == {i \in 1 .. table.n : table.entries[i].rect.y = r.y /\ table.entries[i].rect.h = r.h}

FoundAt(table, r) == {i \in 1 .. table.n : table.entries[i].rect = r}

find_context_index(table, r) ==
    IF FoundAt(table, r) = {} THEN 0
    ELSE CHOOSE i \in FoundAt(table, r) : \A j \in FoundAt(table, r) : i <= j

\* memmove is given a number of entries where it takes a number of bytes: of
\* the pointer that moves into the gap only a part does, as long as fewer than
\* eight entries follow it, which MaxContexts is small enough for.
reset_context(table, r) ==
    LET i == find_context_index(table, r)
    IN IF i = 0 THEN table
       ELSE [entries |-> [table.entries EXCEPT ![i] = IF i = table.n THEN Null ELSE Wild],
             n |-> table.n - 1]

\* The count is left as it is.
reset_all_contexts(table) ==
    [table EXCEPT !.entries = [i \in DOMAIN @ |-> IF i <= table.n THEN Null ELSE @[i]]]

\* Finds or makes the context of a rectangle; 0 when the table is full.
open_h264_context_create(table, r) ==
    IF table.n >= MaxContexts THEN table
    ELSE [entries |-> [table.entries EXCEPT ![table.n + 1] = Context(r)],
          n |-> table.n + 1]

get_context(table, r) ==
    IF find_context_index(table, r) > 0 THEN table ELSE open_h264_context_create(table, r)

\* The table after the reset that comes with a rectangle.
Reset(table, r, reset) == CASE reset = "all" -> reset_all_contexts(table)
                            [] reset = "one" -> reset_context(table, r)
                            [] OTHER -> table

\* Decoding a frame with entry i.  A frame that does not follow on what the
\* decoder has seen comes out damaged, and so does every frame up to the next
\* key frame.
Decoded(table, i, n) ==
    [table EXCEPT !.entries[i].next = IF n = 0 \/ n = @ THEN AfterChunk(n) ELSE 3]

\* open_h264_decode_rect: head is the data of the rectangle, of the kind "h264".
\* The result has the frame as v, or fails with what follows unread.
open_h264_decode_rect(d, r) ==
    LET h == Take(d, "h264", 1)
        head == h.v[1]
        table == get_context(Reset(d.h264, r, head.reset), r)
        i == find_context_index(table, r)
        whole == head.n = 0 \/ head.n = table.entries[i].next
    IN IF ~h.ok \/ Crashes(Reset(d.h264, r, head.reset), r) \/ i = 0 THEN Fail(h)
       ELSE [h EXCEPT !.h264 = Decoded(table, i, head.n),
                      !.v = <<[rect |-> r, whole |-> whole]>>]
==============================================================================
