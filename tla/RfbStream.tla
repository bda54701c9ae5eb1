------------------------------ MODULE RfbStream ------------------------------
(***************************************************************************)
(* What the transport promises the protocol code: the server's bytes are   *)
(* one stream, cut into a handshake and messages, and the client handles   *)
(* the messages one at a time, each exactly once, in the order of the      *)
(* stream.  Nothing is said of buffers, event loops or locks: MainLoop     *)
(* has those and implements this.                                          *)
(***************************************************************************)
EXTENDS ByteStream

VARIABLE handled   \* every byte up to this position belongs to handled messages

Init == handled = 0

(* The handshake comes first. *)
Handshake == handled = 0 /\ handled' = InitLen

(* The message that starts right after what was handled is handled, whole. *)
HandleMessage ==
  /\ handled + 1 \in Heads
  /\ handled' = handled + 1 + BodyLen[handled + 1]

Next == Handshake \/ HandleMessage

Spec == Init /\ [][Next]_handled
==============================================================================
