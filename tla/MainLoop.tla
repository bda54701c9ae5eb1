------------------------------- MODULE MainLoop -------------------------------
(***************************************************************************)
(* The one thread of wlvncc: the event loop of main.c, the receive buffer   *)
(* of sockets.c and the handler lock of vnc.c.                             *)
(*                                                                         *)
(* Protocol code is written as if reads blocked: ReadFromRFBServer does    *)
(* not return before it has the bytes it was asked for.  It waits by       *)
(* running the event loop again (run_main_loop_once) from inside the       *)
(* handler that the event loop called.  The nested loop dispatches the     *)
(* same handlers, so a message can be half parsed while Wayland events,    *)
(* signals and, during the handshake, the VNC socket's own handler run.    *)
(*                                                                         *)
(* Bytes are named by their position in the server's stream, 1..N.         *)
(***************************************************************************)
EXTENDS ByteStream, Sequences

CONSTANTS
  FirstReply,    \* the first byte the server sends only once it was asked
                 \* for an update, that is after the handshake
  BufSize,       \* RFB_BUF_SIZE
  Layer,         \* "none", "tls" or "sasl": what the bytes are wrapped in
  RecordEnd,     \* RecordEnd[p]: the last byte of the TLS or SASL record
                 \* that byte p + 1 is in
  AmlReentrant,  \* may the event loop library dispatch a handler again
                 \* while a callback of that handler is running?
  Fallible       \* the messages, 0 for the handshake, whose handler may
                 \* give up though it got every byte it asked for: of an
                 \* unknown type (its body is then the 256 bytes read to
                 \* skip it), too large, impossible to decode, to find
                 \* memory for or to answer

ASSUME LoopAssumption ==
  /\ FirstReply \in (InitLen + 1)..(N + 1)
  /\ BufSize \in Nat \ {0}
  /\ Layer \in {"none", "tls", "sasl"}
  /\ RecordEnd \in [0..(N - 1) -> 1..N]
  /\ \A p \in 0..(N - 1) : RecordEnd[p] > p
  /\ AmlReentrant \in BOOLEAN
  /\ Fallible \subseteq Heads \cup {0}

VARIABLES
  sent,      \* bytes the server has sent
  closed,    \* "no", "clean" (the layer was told) or "cut" (only TCP was)
  plain,     \* bytes whose record the layer has decoded
  absorbed,  \* bytes the layer has taken out of the socket
  given,     \* bytes put into client->buf
  buf,       \* the bytes in client->buf; client->buffered is its length
  done,      \* bytes copied out of client->buf, to the protocol code
  phase,     \* "init": in vnc_client_init; "run": after it
  pc,        \* where the thread is, see TypeOK
  pending,   \* handlers emitted by aml_poll and not dispatched yet
  lock,      \* vnc_client.handler_lock
  head,      \* first byte of the message being handled (or whose handler
             \* failed), 0 if there is none
  need,      \* bytes the current ReadFromRFBServer still has to copy
  rest,      \* bytes of the message (handshake) that no read asked for yet
  do_run,    \* main.c's flag
  wl,        \* the compositor's socket: "quiet", "events", "gone" (EPIPE) or
             \* "broken" (any other error, which libwayland reports for ever)
  window,    \* "open"; "closing": the compositor has sent a close event;
             \* "closed": its listener has run
  sigint     \* SIGINT: "none", "raised" or "seen"

net == <<sent, closed>>
layer == <<plain, absorbed>>
rx == <<given, buf, done>>
msg == <<head, need, rest>>
env == <<wl, window, sigint>>
vars == <<net, layer, rx, msg, env, phase, pc, pending, lock, do_run>>

MinOf(a, b) == IF a <= b THEN a ELSE b

(* Bytes after the first of the message that byte b introduces.  A byte   *)
(* that starts no message is not a message type either.                   *)
Body(b) == IF b \in Heads THEN BodyLen[b] ELSE 0

-------------------------------------------------------------------------------
(* The server, the compositor and the user. *)

ServerSend ==
  /\ closed = "no"
  /\ \E to \in (sent + 1)..(IF phase = "init" THEN FirstReply - 1 ELSE N) :
       sent' = to
  /\ UNCHANGED <<closed, layer, rx, msg, env, phase, pc, pending, lock, do_run>>

ServerClose ==
  /\ closed = "no"
  /\ closed' \in {"clean", "cut"}
  /\ UNCHANGED <<sent, layer, rx, msg, env, phase, pc, pending, lock, do_run>>

CompositorSends ==
  /\ wl = "quiet" /\ wl' = "events"
  /\ UNCHANGED <<net, layer, rx, msg, window, sigint, phase, pc, pending, lock, do_run>>

Connected == wl \in {"quiet", "events"}

CompositorGone ==
  /\ Connected /\ wl' \in {"gone", "broken"}
  /\ UNCHANGED <<net, layer, rx, msg, window, sigint, phase, pc, pending, lock, do_run>>

(* The user closes the window, which vnc_client_init has shown. *)
UserCloses ==
  /\ phase = "run" /\ Connected
  /\ window = "open" /\ window' = "closing"
  /\ wl' = "events"
  /\ UNCHANGED <<net, layer, rx, msg, sigint, phase, pc, pending, lock, do_run>>

Interrupt ==
  /\ sigint = "none" /\ sigint' = "raised"
  /\ UNCHANGED <<net, layer, rx, msg, wl, window, phase, pc, pending, lock, do_run>>

-------------------------------------------------------------------------------
(* ReadToBuffer: one non-blocking read of the socket, through the layer.   *)

RecordArrived == plain < N /\ RecordEnd[plain] <= sent

(* Bytes are already decoded, or a whole record can be.  Without a layer  *)
(* every byte that has arrived can be read.                               *)
Readable ==
  IF Layer = "none" THEN given < sent ELSE given < plain \/ RecordArrived

(* How far the layer's plaintext reaches when the read returns. *)
PlainTo ==
  IF Layer = "none" THEN MinOf(sent, given + BufSize - Len(buf))
  ELSE IF given < plain THEN plain ELSE RecordEnd[plain]

(* Fault: a read that would block is taken for the end of the stream.      *)
EndOfStreamWouldBlock == ~Readable

(* recv() returns 0, or the layer says that the peer is done.  ReadFromSASL *)
(* turns the end of the stream into -EIO and gnutls_record_recv a missing   *)
(* close-notify into an error, so that ReadToBuffer takes both for "try     *)
(* again later".                                                            *)
EndOfStream ==
  /\ ~Readable
  /\ \/ Layer = "none" /\ closed # "no"
     \/ Layer = "tls" /\ closed = "clean" /\ plain = sent

(* ReadToBuffer returns FALSE: also when the buffer is full. *)
ReadFails ==
  /\ Len(buf) = BufSize \/ EndOfStream
  /\ UNCHANGED <<layer, rx>>

(* Fault: the read is not limited to the room that is left.                *)
ReadSomeUnbounded ==
  /\ Len(buf) # BufSize
  /\ Readable
  /\ buf' = buf \o [i \in 1..(sent - given) |-> given + i]
  /\ given' = sent /\ plain' = sent
  /\ UNCHANGED <<absorbed, done>>

ReadSome ==
  /\ Len(buf) # BufSize
  /\ Readable
  /\ LET size == MinOf(PlainTo - given, BufSize - Len(buf)) IN
       /\ buf' = buf \o [i \in 1..size |-> given + i]
       /\ given' = given + size
  /\ plain' = PlainTo
  /\ absorbed' = IF PlainTo > absorbed THEN PlainTo ELSE absorbed
  /\ UNCHANGED done

(* The read would block; the layer may have taken part of a record. *)
ReadNothing ==
  /\ Len(buf) # BufSize
  /\ ~Readable /\ ~EndOfStream
  /\ absorbed' = IF Layer = "none" THEN absorbed ELSE sent
  /\ UNCHANGED <<plain, rx>>

ReadOk == ReadSome \/ ReadNothing

-------------------------------------------------------------------------------
(* aml: which descriptors are ready, and the handlers it emits for them.   *)

Ready ==
  (IF absorbed < sent \/ closed # "no" THEN {"vnc"} ELSE {})
    \cup (IF wl # "quiet" THEN {"wl"} ELSE {})
    \cup (IF sigint = "raised" THEN {"sig"} ELSE {})

(* The callback of the VNC socket's handler is on the stack. *)
Running == IF phase = "run" /\ pc \in {"handler", "nested"} THEN {"vnc"} ELSE {}

(* The canary ticker, which ends a poll after CANARY_TICK_PERIOD at the     *)
(* latest, is only created once the connection is set up.                   *)
CanPoll == Ready # {} \/ phase = "run"

Emitted == pending \cup (IF AmlReentrant THEN Ready ELSE Ready \ Running)

-------------------------------------------------------------------------------
(* The thread.  The outer loop: main()'s while (do_run).                   *)

(* run_main_loop_once, called by main(): poll, then dispatch. *)
Poll ==
  /\ pc = "poll" /\ do_run /\ CanPoll
  /\ pending' = Emitted
  /\ pc' = "dispatch"
  /\ UNCHANGED <<net, layer, rx, msg, env, phase, lock, do_run>>

(* The end of aml_dispatch and the test of do_run. *)
LoopTest ==
  \/ /\ pc = "dispatch" /\ pending = {}
     /\ pc' = "poll"
     /\ UNCHANGED <<net, layer, rx, msg, env, phase, pending, lock, do_run>>
  \/ /\ pc = "poll" /\ ~do_run
     /\ pc' = "exit"
     /\ UNCHANGED <<net, layer, rx, msg, env, phase, pending, lock, do_run>>

(* ReadFromRFBServer finds the buffer empty and runs the loop itself. *)
NestedPoll ==
  /\ pc = "handler" /\ need > 0 /\ buf = <<>> /\ CanPoll
  /\ pending' = Emitted
  /\ pc' = "nested"
  /\ UNCHANGED <<net, layer, rx, msg, env, phase, lock, do_run>>

Dispatching == pc \in {"dispatch", "nested"}

DispatchSignal ==
  /\ Dispatching /\ "sig" \in pending
  /\ pending' = pending \ {"sig"}
  /\ sigint' = "seen"
  /\ do_run' = FALSE
  /\ UNCHANGED <<net, layer, rx, msg, wl, window, phase, pc, lock>>

(* The listeners of the events that were read; xdg_toplevel_close is the   *)
(* one that ends the client.                                               *)
RunListeners ==
  /\ Connected /\ wl' = "quiet"
  /\ \/ window = "closing" /\ window' = "closed" /\ do_run' = FALSE
     \/ window # "closing" /\ UNCHANGED <<window, do_run>>

(* on_wayland_event: of the errors of a read only EPIPE ends the client.   *)
DispatchWayland ==
  /\ Dispatching /\ "wl" \in pending
  /\ pending' = pending \ {"wl"}
  /\ \/ RunListeners
     \/ wl = "gone" /\ do_run' = FALSE /\ UNCHANGED <<wl, window>>
     \/ wl = "broken" /\ UNCHANGED <<wl, window, do_run>>
  /\ UNCHANGED <<net, layer, rx, msg, sigint, phase, pc, lock>>

(* main(): the wl_display_dispatch between the handshake and the loop; what *)
(* it returns is ignored.                                                  *)
FirstDispatch ==
  /\ pc = "first" /\ wl # "quiet"
  /\ RunListeners \/ (~Connected /\ UNCHANGED <<wl, window, do_run>>)
  /\ pc' = "poll"
  /\ UNCHANGED <<net, layer, rx, msg, sigint, phase, pending, lock>>

-------------------------------------------------------------------------------
(* on_vnc_client_event and vnc_client_process.                             *)

(* HandleRFBServerMessage reads the message type, the first byte; that     *)
(* decides how much more there is to read.                                 *)
BeginMessage(b) ==
  /\ head' = b
  /\ need' = 1
  /\ rest' = Body(b)

TakeVnc == Dispatching /\ "vnc" \in pending /\ pending' = pending \ {"vnc"}

(* Fault: on_vnc_client_event ignores what vnc_client_process returns.     *)
ProcessFailsIgnored ==
  /\ TakeVnc
  /\ ReadFails
  /\ UNCHANGED <<net, msg, env, phase, pc, lock, do_run>>

(* The read fails: -1, and do_run is cleared, in a nested loop too. *)
ProcessFails ==
  /\ TakeVnc
  /\ ReadFails
  /\ do_run' = FALSE
  /\ UNCHANGED <<net, msg, env, phase, pc, lock>>

(* A handler is already on the stack: the bytes stay in the buffer. *)
ProcessLocked ==
  /\ TakeVnc
  /\ ReadOk
  /\ lock
  /\ UNCHANGED <<net, msg, env, phase, pc, lock, do_run>>

(* Fault: the handler lock is taken without a look at whether it is free.  *)
ProcessMessagesUnlocked ==
  /\ TakeVnc
  /\ ReadOk
  /\ buf' # <<>>
  /\ lock' = TRUE
  /\ BeginMessage(Head(buf'))
  /\ pc' = "handler"
  /\ UNCHANGED <<net, env, phase, do_run>>

ProcessMessages ==
  /\ TakeVnc
  /\ ReadOk
  /\ ~lock /\ buf' # <<>>
  /\ lock' = TRUE
  /\ BeginMessage(Head(buf'))
  /\ pc' = "handler"
  /\ UNCHANGED <<net, env, phase, do_run>>

(* Nothing was read and nothing was buffered: the loop over messages does  *)
(* not run, and vnc_client_process returns an uninitialised rc.            *)
ProcessEmpty ==
  /\ TakeVnc
  /\ ReadOk
  /\ ~lock /\ buf' = <<>>
  /\ do_run' \in {do_run, FALSE}
  /\ UNCHANGED <<net, msg, env, phase, pc, lock>>

-------------------------------------------------------------------------------
(* Inside a message, or the handshake.                                     *)

(* The protocol code asks for the next bytes; how many is its business. *)
StartRead ==
  /\ pc = "handler" /\ need = 0 /\ rest > 0
  /\ \E n \in 1..rest : need' = n /\ rest' = rest - n
  /\ UNCHANGED <<net, layer, rx, head, env, phase, pc, pending, lock, do_run>>

(* Fault: the buffer is emptied by every copy, whatever was taken.         *)
CopyOutAll ==
  /\ pc = "handler" /\ need > 0 /\ buf # <<>>
  /\ LET size == MinOf(Len(buf), need) IN done' = done + size /\ need' = need - size
  /\ buf' = <<>>
  /\ UNCHANGED <<net, layer, given, head, rest, env, phase, pc, pending, lock, do_run>>

(* ReadFromRFBServer copies what is buffered. *)
CopyOut ==
  /\ pc = "handler" /\ need > 0 /\ buf # <<>>
  /\ LET size == MinOf(Len(buf), need) IN
       /\ done' = done + size
       /\ need' = need - size
       /\ buf' = SubSeq(buf, size + 1, Len(buf))
  /\ UNCHANGED <<net, layer, given, head, rest, env, phase, pc, pending, lock, do_run>>

(* After the nested loop ReadFromRFBServer reads the socket itself. *)
NestedRead ==
  /\ pc = "nested" /\ pending = {}
  /\ ReadOk
  /\ pc' = "handler"
  /\ UNCHANGED <<net, msg, env, phase, pending, lock, do_run>>

(* Fault: a handler that fails returns with the lock taken.                *)
NestedReadFailsLocked ==
  /\ pc = "nested" /\ pending = {}
  /\ ReadFails
  /\ IF phase = "init" THEN pc' = "exit" /\ UNCHANGED do_run
                       ELSE pc' = "dispatch" /\ do_run' = FALSE
  /\ UNCHANGED <<net, msg, env, phase, pending, lock>>

(* That read fails: so does the handler, which ends the client. *)
NestedReadFails ==
  /\ pc = "nested" /\ pending = {}
  /\ ReadFails
  /\ lock' = FALSE
  /\ IF phase = "init" THEN pc' = "exit" /\ UNCHANGED do_run
                       ELSE pc' = "dispatch" /\ do_run' = FALSE
  /\ UNCHANGED <<net, msg, env, phase, pending>>

(* The handler gives up between two reads, or after the last, and so does  *)
(* vnc_client_init or vnc_client_process.                                  *)
HandlerFails ==
  /\ pc = "handler" /\ need = 0 /\ head \in Fallible
  /\ lock' = FALSE
  /\ IF phase = "init" THEN pc' = "exit" /\ UNCHANGED do_run
                       ELSE pc' = "dispatch" /\ do_run' = FALSE
  /\ UNCHANGED <<net, layer, rx, msg, env, phase, pending>>

(* Fault: a handler returns when it has got the last bytes it asked for,   *)
(* without reading the rest of its message.                                *)
MessageReadEarly == pc = "handler" /\ need = 0

MessageRead == pc = "handler" /\ need = 0 /\ rest = 0

(* vnc_client_init returns; what it sends after its last read is not part  *)
(* of this module.                                                         *)
InitDone ==
  /\ MessageRead /\ phase = "init"
  /\ phase' = "run"
  /\ lock' = FALSE
  /\ pc' = "first"
  /\ UNCHANGED <<net, layer, rx, msg, env, pending, do_run>>

NextMessage ==
  /\ MessageRead /\ phase = "run" /\ buf # <<>>
  /\ BeginMessage(Head(buf))
  /\ UNCHANGED <<net, layer, rx, env, phase, pc, pending, lock, do_run>>

(* Fault: one message is handled per event, also when more are buffered.   *)
ProcessReturnsAfterOne ==
  /\ MessageRead /\ phase = "run"
  /\ head' = 0
  /\ lock' = FALSE
  /\ pc' = "dispatch"
  /\ UNCHANGED <<net, layer, rx, need, rest, env, phase, pending, do_run>>

ProcessReturns ==
  /\ MessageRead /\ phase = "run" /\ buf = <<>>
  /\ head' = 0
  /\ lock' = FALSE
  /\ pc' = "dispatch"
  /\ UNCHANGED <<net, layer, rx, need, rest, env, phase, pending, do_run>>

-------------------------------------------------------------------------------
Init ==
  /\ sent = 0 /\ closed = "no"
  /\ plain = 0 /\ absorbed = 0
  /\ given = 0 /\ buf = <<>> /\ done = 0
  /\ phase = "init" /\ pc = "handler" /\ pending = {}
  /\ lock = TRUE
  /\ head = 0 /\ need = 0 /\ rest = InitLen
  /\ do_run = TRUE
  /\ wl = "quiet" /\ window = "open" /\ sigint = "none"

Server == ServerSend \/ ServerClose
World == CompositorSends \/ CompositorGone \/ UserCloses \/ Interrupt
Vnc == ProcessFails \/ ProcessLocked \/ ProcessMessages \/ ProcessEmpty
Handler ==
  \/ StartRead \/ CopyOut \/ InitDone \/ NextMessage \/ ProcessReturns
  \/ HandlerFails
Loop == Poll \/ LoopTest \/ NestedPoll \/ FirstDispatch
Thread ==
  \/ Loop \/ Handler \/ Vnc
  \/ DispatchSignal \/ DispatchWayland
  \/ NestedRead \/ NestedReadFails

Next == Server \/ World \/ Thread

Spec == Init /\ [][Next]_vars

(* The thread always gets to run, and a compositor answers the commit that  *)
(* showed the window.  Nothing is assumed of the server.                   *)
FairSpec == Spec /\ WF_vars(Thread) /\ WF_vars(CompositorSends)

(* As FairSpec, and a server that does not stop in the middle of its       *)
(* stream, unless it closes the connection.                                *)
LiveServerSpec == FairSpec /\ WF_vars(ServerSend)

-------------------------------------------------------------------------------
(* Properties.                                                             *)

TypeOK ==
  /\ sent \in 0..N /\ closed \in {"no", "clean", "cut"}
  /\ plain \in 0..N /\ absorbed \in 0..N
  /\ given \in 0..N /\ done \in 0..N
  /\ buf \in Seq(1..N) /\ Len(buf) <= BufSize
  /\ phase \in {"init", "run"}
  /\ pc \in {"poll", "dispatch", "handler", "nested", "first", "exit"}
  /\ pending \subseteq {"vnc", "wl", "sig"}
  /\ lock \in BOOLEAN /\ do_run \in BOOLEAN
  /\ head \in Heads \cup {0} /\ need \in 0..N /\ rest \in 0..N
  /\ wl \in {"quiet", "events", "gone", "broken"}
  /\ window \in {"open", "closing", "closed"}
  /\ sigint \in {"none", "raised", "seen"}

(* The receive buffer holds the bytes that follow the ones already handed  *)
(* out, in order, none missing and none twice, whichever of the two loops  *)
(* read them (ReadToBuffer, ReadFromRFBServer).                            *)
BytesInOrder ==
  /\ given = done + Len(buf)
  /\ \A i \in 1..Len(buf) : buf[i] = done + i

(* A message is parsed from its first byte to its last by one handler: no  *)
(* byte of it is taken for the start of a message by a handler that a      *)
(* nested loop runs, and none is left over when the handler is done.       *)
MessagesFramed ==
  /\ phase = "init" => done + need + rest = InitLen
  /\ phase = "run" /\ head = 0 => done + 1 \in Heads \/ done = N
  /\ head # 0 => done + need + rest = head + BodyLen[head]

(* handler_lock is held exactly while protocol code is on the stack, which *)
(* is what the assertion in vnc_client_unlock_handler relies on.           *)
LockMeansHandling ==
  lock <=> pc \in {"handler", "nested"}

(* When the outer loop goes to sleep, it leaves bytes unparsed only if     *)
(* they came with the end of the handshake; after that vnc_client_process  *)
(* never returns with a message, or half of one, in the buffer.            *)
NothingStranded ==
  pc = "poll" /\ do_run /\ buf # <<>> => done = InitLen

(* The handler of a message, or the handshake, gave up before its end with *)
(* no read outstanding.                                                    *)
GaveUp == ~lock /\ need = 0 /\ (head # 0 \/ phase = "init")

(* What may end the client: the server closed the connection, it sent      *)
(* something the client could not handle, the compositor went away, or the *)
(* user closed the window or interrupted the client; the event must have   *)
(* been seen where the client has to see it.                               *)
Reason ==
  \/ closed # "no" \/ GaveUp
  \/ wl = "gone" \/ window = "closed" \/ sigint = "seen"

(* The client stops for a reason only, never because a live connection had *)
(* nothing to read or the buffer was full (ReadToBuffer, the rc of         *)
(* vnc_client_process).                                                    *)
StopsForAReason == ~do_run \/ pc = "exit" => Reason

(* Protocol code and event loop together deliver the messages of the       *)
(* stream one by one, as RfbStream promises.                               *)
HandledUpTo ==
  IF head # 0 THEN head - 1 ELSE IF phase = "init" THEN 0 ELSE done
Stream == INSTANCE RfbStream WITH handled <- HandledUpTo
StreamSpec == Stream!Spec

(* A server that goes on sending has all its messages handled, unless the  *)
(* session ends for one of the reasons above; a broken connection to the   *)
(* compositor, which on_wayland_event only reports, is none of them.       *)
EverythingHandled == <>((done = N /\ head = 0) \/ Reason)

(* When the connection is closed the client exits (ReadToBuffer's FALSE,   *)
(* vnc_client_process's -1).                                               *)
EofEndsClient == closed # "no" ~> pc = "exit"
==============================================================================
