----------------------------- MODULE ByteStream ------------------------------
(***************************************************************************)
(* What an RFB server sends: a handshake followed by messages, each a type *)
(* byte and a body.  Bytes are named by their positions, 1..N.             *)
(***************************************************************************)
EXTENDS Integers

CONSTANTS
  N,        \* length of the stream in bytes
  InitLen,  \* bytes of the handshake that opens it
  Heads,    \* positions of the first bytes of the messages
  BodyLen   \* BodyLen[h]: bytes after the first of the message that starts at h

ASSUME StreamAssumption ==
  /\ N \in Nat
  /\ InitLen \in 1..N
  /\ Heads \subseteq (InitLen + 1)..N
  /\ BodyLen \in [Heads -> Nat]
  /\ \A h \in Heads :
       /\ h + BodyLen[h] <= N
       /\ h + BodyLen[h] + 1 \in Heads \/ h + BodyLen[h] = N
  /\ InitLen + 1 \in Heads \/ InitLen = N
==============================================================================
