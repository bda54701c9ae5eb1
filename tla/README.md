# wlvncc in TLA+

wlvncc is a VNC client for Wayland: one thread, one window, one server.  These
modules model the parts of it whose correctness depends on the order in which
things happen, check them with TLC on small instances, and prove the main
results with TLAPS for every instance.  Paths below are relative to the
repository; line numbers are those of the commit the project was written for.

## The system

| Component | State | Operations | Talks to |
|---|---|---|---|
| Event loop (`src/main.c`, `run_main_loop_once`, `on_signal`, `on_wayland_event`, `on_vnc_client_event`) | `do_run`, what aml has emitted | poll, dispatch; exits when `do_run` is false | every handler |
| Receive path (`src/sockets.c`, TLS and SASL layers) | `client->buf`, `buffered` | `ReadToBuffer`, `ReadFromRFBServer` | runs the event loop **again** while it waits |
| VNC client object (`src/vnc.c`) | handler lock, damage, list of video frames, `current_rect_is_av_frame` | `vnc_client_init`, `vnc_client_process`, callbacks of the protocol code | window, protocol code |
| Protocol code (`src/rfbproto.c`, `src/encodings/`, `src/vncviewer.c`) | size, `updateRect`, framebuffer, zlib streams, what a decoder keeps from one tile to the next | set-up, one message at a time (`HandleFramebufferUpdate` and its decoders), sending requests and input | receive path, callbacks |
| Window and buffers (`src/main.c`, `src/buffer.c`) | three buffers with damage of their own, `back_buffer`, `buffer_index`, `vnc_fb` | allocate, draw, commit, swap; release by the compositor | renderers, compositor |
| Renderers (`src/renderer.c`, `src/renderer-egl.c`) | a texture | copy or upload damage, draw video frames | buffers |
| Keyboards (`src/keyboard.c`) | pressed keys, xkb state, LEDs, `waiting_for_modifiers` | enter, leave, key, modifiers | `on_keyboard_event`, server |
| Pointers (`src/pointer.c`) | position, buttons, distance scrolled | enter, leave, motion, button, axis, frame | `on_pointer_event`, server |
| Seats and inhibitor (`src/seat.c`, `src/inhibitor.c`, `registry_add` in `src/main.c`) | list of seats, an inhibitor per seat | globals come and go, capabilities, toggle with F12 | compositor |
| Outputs, scale and geometry (`src/output.c`, `src/main.c`) | scale of each output, size of the window | scale and configure events | window, pointer |
| Connection set-up (`InitialiseRFBConnection`, `src/tls_*.c`, `src/sasl.c`, `src/crypto_*.c`) | protocol version, security type | version, security types, authentication, initialisation | receive path, writes |
| Open H.264 (`src/open-h264.c`) | a table of decoders, one per rectangle | decode, reset one, reset all | VNC client object |

There is one thread, so nothing runs in parallel inside the client.  What makes
it hard is *re-entrance*: the protocol code is written as if reads blocked, and
the event loop runs inside those reads.  A message can be half parsed while
Wayland events, signals, and during the handshake the VNC socket's own handler,
are dispatched.  The rest is *order*: the compositor's and the server's events
come in orders of their own, buffers are released late, the focus comes and goes
with keys held, sizes change between an update and the request for the next.

What makes each component correct:

- receive path and loop: the bytes handed out are the server's, in order; one
  handler parses a message from its first byte to its last; no message is left
  in the buffer while the loop sleeps; the client stops for a reason and only
  then;
- window: the screen shows what the server sent last, although each buffer has
  missed two updates; a buffer is not drawn into while the compositor has it;
- keyboard: the server has down what the user holds; its locks are the
  compositor's;
- pointer: likewise for buttons; no scrolled distance is lost or made up;
- seats: whatever is announced in whatever order, no seat is inhibited twice, and
  each is inhibited once but for reasons that can be listed;
- requests: their number is conserved, so that they neither run dry nor pile
  up; every wrong pixel will be sent;
- decoders: the client is always at the place of the stream where the server is,
  the framebuffer comes out as the server's picture, whatever is drawn is
  reported as damage, every zlib stream and every video decoder sees the data
  that was made for it;
- geometry: the picture fits the window, only events that can be listed leave it
  laid out for another scale or screen than that of now, and until one of them a
  position of the pointer is that of the pixel below it;
- connection set-up: client and server always know what the other sends next,
  never wait for each other, and agree in the end on version, authentication and
  layer.

`PROJECT.json` lists the hazards at their lines, with the properties about each.

## The modules

| Module | Models | Run by | Proved in |
|---|---|---|---|
| `ByteStream` | a server's stream: handshake, messages; constants only | | |
| `RfbStream` | what the transport promises: messages, one at a time, in order | | |
| `MainLoop` | event loop, receive path, handler lock; implements `RfbStream` | `MCMainLoop` | `MainLoopProofs` |
| `Framebuffer` | rectangles, damage, three buffers, two renderers, video | `MCFramebuffer` | `FramebufferProofs` |
| `Keyboard` | one keyboard, the focus, the locks | `MCKeyboard` | `KeyboardProofs` |
| `Pointer` | one pointer, two surfaces, the wheel | `MCPointer` | `PointerProofs` |
| `Seats` | globals, capabilities, the inhibitor | `MCSeats` | `WaylandProofs` |
| `Window` | outputs, scale, size, layout of the picture, coordinates | `MCSeats` | `WaylandProofs` |
| `Wayland` | `Seats` and `Window` over one connection to the compositor | `MCSeats` | `WaylandProofs` |
| `UpdateLoop` | update requests and changes of size, with a server | `MCUpdateLoop` | `UpdateLoopProofs` |
| `AuthScripts` | what each authentication handler reads, writes and asks, in its order; constants only | | |
| `Handshake` | `InitialiseRFBConnection` and `vnc_client_init`, TLS, VeNCrypt, SASL | | `SessionProofs`, `ConversationProofs` |
| `Session` | `Handshake` with a server, over a connection that may be lost | `MCSession` | `SessionProofs`, `ConversationProofs` |
| `Raster` | framebuffer, rectangles, and the three ways to draw | `MCDecoding` | |
| `Reader` | items of the stream, the state of a decoder, reading | `MCDecoding` | |
| `Tiles` | RRE, CoRRE, Hextile, TRLE, the tiles of ZRLE | `MCDecoding` | |
| `Compressed` | Zlib, Ultra, UltraZip, ZRLE, Tight | `MCDecoding` | |
| `H264` | the table of video decoders | `MCDecoding` | |
| `Decoder` | `HandleFramebufferUpdate`, step by step; damage, frames | `MCDecoding` | |
| `Encoder` | every way a server may encode a rectangle | `MCDecoding` | |
| `Decoding` | `Decoder` with a server that draws | `MCDecoding`, `MCDecodingUltraZip` | |

`MC` modules extend a module and define the values of its constants; the `.cfg`
files refer to these.  Operators whose comment says *Fault* are not used by any
specification: each is a form that a definition could have by mistake, and
breaks the property that is about it.

### MainLoop

Bytes are named by their position in the stream, so that "in order" can be
said; what they mean is only which of them start a message and how long it is.
`buf` is `client->buf`, `done` what has been copied out of it, `given` what was
put in.  `plain` and `absorbed` are the layer's: TLS and SASL decode records as
a whole (`RecordEnd`), so bytes may have left the socket and not be readable
yet, or be readable and no longer make the socket ready.

`pc` is where the thread is: `poll` and `dispatch` in `main`'s loop, `handler`
in protocol code, `nested` in the loop that `ReadFromRFBServer` runs, `first`
between the handshake and the loop, `exit`.  `need` is what the current
`ReadFromRFBServer` still has to copy, `rest` what later reads of the same
message will ask for; how the protocol code divides a message into reads is
free (`StartRead`).  `ReadToBuffer` is not an action: `ReadSome`, `ReadNothing`
and `ReadFails` are parts of the actions that call it, `ProcessFails`,
`ProcessLocked`, `ProcessMessages` and `ProcessEmpty` (`vnc_client_process`)
and `NestedRead`, `NestedReadFails` (`ReadFromRFBServer`).

aml is external.  Whether it dispatches a handler whose callback is still on
the stack is the constant `AmlReentrant`; the safety properties do not depend on
it.  The uninitialised `rc` of `vnc_client_process` is a free choice
(`ProcessEmpty`).  Errors of `recv` other than end-of-stream and would-block are
not modelled.  Writes are taken for immediate.

A handler may give up without a failing read (`HandlerFails`): over a message of
an unknown type, a rectangle that is too large, a decoder or an allocation that
fails.  `Fallible` says which messages that may happen with, 0 being the
handshake; in the runs these are the handshake and the first message, so that a
handler may give up with the next message in the buffer behind it.  How far it
has read by then is free.  `window` is where a close
event of the compositor's is: sent, or seen by its listener
(`xdg_toplevel_close`), which may run in the nested loop as well.  `wl` has two
ways for the connection to the compositor to be lost: `gone` is EPIPE,
`broken` any other error, which `on_wayland_event` only prints.

### Framebuffer

Pixels have no values.  Every picture (framebuffer, the three buffers, the
texture, the compositor's copy) is the set of its pixels that are *old*, that
differ from what the server sent last.  Receiving a rectangle makes it old
everywhere but in the framebuffer; copying brings over what is old at the
source.  So "the screen is current" is `screen \subseteq unseen`: nothing is old
but what the server has not sent since the size changed.

One action per rectangle decoded, reported, and per end of an update, because
every read in between may run the event loop and with it `buffer_release`.
`setup` says which renderer, which kind of video, whether the server resizes and
whether the compositor releases a buffer promptly; it is chosen at the start and
never changes.  CopyRect is a rectangle like any other (`DecodePixels`).
The window's first allocation is part of `Init`.

### Keyboard

The compositor reports keys only with the focus, and a modifiers event after
each key that changes them and after `enter`.  `keyboard_enter` and
`keyboard_leave` loop over keys: one action per turn (`LoopKey`), with `todo`
the keys still to do.  xkbcommon is external: a key has one symbol with and one
without the level modifier.  `remote` is what the server takes to be down: key
codes if it has extended key events, else symbols.

### Pointer

Positions are a small set, distances small integers.  The compositor sends
`enter`, `leave`, `motion`, `button` and `axis` in groups that `frame` ends, and
keeps the pointer on a surface while a button is held there.  The loop of
`on_pointer_event`, a press and a release per step of the wheel, is one action
per half turn.  `MaxDistance` bounds how far an axis is scrolled.  After `enter` a
button may come before any motion; `pointer_enter` ignores the position, so
`PressedInPlace` has two parts: a press is sent for where the pointer was last
reported on the picture (`told`), and that is where the user pressed if the
pointer has moved since it entered.

### Seats

`-i` is given; without it there is no inhibitor.  `keyboards` counts the
`wl_keyboard` objects made for a seat; `owed` counts those that still have to be
told of a released F12, because each one toggles.  `MaxKeyboards` bounds the
first.  The compositor does not send key events of a seat it has removed.

The inhibitor's list knows a seat by its pointer, so seats have addresses:
`memory` says which seat is at each, `known` and `object` are the list's entries
by address.  A seat that is removed frees its address and leaves its entry
(`registry_remove` does not call `inhibitor_remove_seat`), and `GlobalSeat` may
be given a free address, also one that the list has; `mistaken` remembers the
seats that met such an entry.  `InhibitedOnceConfigured` lists what may keep a
seat from being inhibited: its user, its having come before the manager, and
such an entry.  It speaks of `Surface`, that is, from the first configure event
on that finds the manager: one that comes before the manager does nothing
(`configured` is then `"without"`), and the next has to make up for it.

Where the code goes on with a null surface (a toggle before `Surface`) or a freed
seat (`inhibitor_init` with an entry whose seat has gone), `crashed` is set and
nothing more is said: libwayland ends the connection over either, if the client
gets that far.  An inhibit manager that is announced after a seat leaves that
seat without an entry, and F12 there fails the assertion of
`src/inhibitor.c:114` (`failed`); `AbortsForEarlySeats` says that it fails for
no other seat.

### Window and Wayland

`window` is the size and scale that `window_resize` has stored and `layout` the
place and size it told the compositor.  `output.c` keeps the scale of each
output; the largest of those the window is on counts, unless the compositor has
told a preferred one.  The doubles of `window_calculate_buffer` are exact
fractions over a common denominator; the pointer's positions are in halves of
a unit.  Two events lay nothing out: `output_handle_scale`, and
`on_vnc_client_alloc_fb` once there is a window.  `laidFor` is the screen that
the picture was laid out for, `stale` says that one of the two has come since;
`Current` compares what is asked for now with what was laid out.  `PictureFits`
holds always, for the screen in `laidFor`, and says that nothing but those two
events makes it another than that of now.  `PointerOnTarget` needs `Current`,
since a position is converted with the numbers of now: without it the property
does not hold.  Outputs are not removed.  A
server's screen without width or height is left out (`WindowAssumption`):
`on_vnc_client_alloc_fb` takes any size, and `window_calculate_buffer` divides
by it.

`Wayland` lets the events of seats and of the window come in any order, as they
do on one connection; the window is configured only when there is one, and it
is made when the server has told its size.

### UpdateLoop

The two queues are the TCP connection.  The server is the RFB protocol's: it
sends updates only for requests.  `counting`, which never changes, says whether
it owes one update per request or one for all requests it has got.  It tells of
a new size by a DesktopSize rectangle, an ExtendedDesktopSize rectangle or a
ResizeFrameBuffer message.  Again pixels have no values: `outdated` are the
framebuffer's that differ from the server's, `fresh` those an update in flight
would make right.  `MaxChanges` and `MaxResizes` bound how often the picture and
the size change.

The client's thread is one action per message and one for the request that
follows it, since the loop runs in between.

### Handshake and Session

`todo` is what the client still has to do: a sequence of steps (read, write,
local step) that `AuthScripts` has for each handler, in the order of the code.
A step that decides something, the version, the list of types, a result, is an
action that puts the steps of what was chosen in its own place (`Continue`);
a C function that calls another becomes a sequence inside a sequence.  `Fail`
drops all of it, as every `return FALSE` does down to `vnc_client_init`.

A message is an item with the layer it was put on the wire with: plain, TLS or
SASL.  `Fill` is `ReadToBuffer`: it takes any prefix of what has arrived into
`client->buf`, through the layer that is on at that moment, so that reading
ahead past a change of layer gives garbage.  `Take` is the read of one message
from the buffer.  The TLS library reads the socket past the buffer.

The server is external: `AuthScripts` and `Session` have one that follows the
RFB protocol, with the VeNCrypt and SASL types that `src/` speaks, offers any of
the lists given, lets in or refuses, explains or not, and speaks 3.3 to a client
whose version is not one of 3.7 and 3.8.  A SASL mechanism is a number of
messages, the client's and the server's in turn (`mech`); what
`sasl_client_step` answers follows from how many calls there have been.

What may fail without the server has an action of its own: keys, certificates,
memory, the user.  `command` says whether `--auth-command` was given, whose
helper can crash the client in two ways (`CrashesOnly` says where): it looks
through the null pointer to a user name that nobody asked for
(`src/vncviewer.c:154`), unless the compiler drops the test, which is always
false; and a command ended by a signal counts as success with no strings, which
all but plain authentication use unchecked.

Two more things that the model shows and no line of the repository speaks about:

- inside TLS the client picks ARD and MSLogonII from the list
  (`src/rfbproto.c:479`) although the switch behind it has no case for them, so
  that it gives up on a server that also offers a type it could have used; this
  is the exception in `ChoiceHandled`;
- `HandleVeNCryptAuth` tests `major != 0 && minor != 2`
  (`src/tls_gnutls.c:424`), which lets every version with one right number pass.
  The server here announces 0.2 or 1.1.

### Decoding

The wire is a sequence of typed items: an item says what the server meant by its
bytes, a pixel, a compact pixel, a run length, a palette, a chunk of zlib data.
`Take` fails when the next item is of another kind, and so a decoder that reads
a byte too many, too few, or in the wrong order shows (`InStep`).  A decoder is
an operator from the state of the decoding, a record of what is left to read,
the framebuffer, the locals and the streams, to the state after it.

A step of the client (`Decoder`) reads a unit: the head of an update, the head
of a rectangle, a tile, a band of `RawLines` raw lines, or a whole rectangle of
the other encodings.  `local` is what outlives a tile: the colours of Hextile,
the palette and the kind of TRLE, the filter of Tight with the row it has begun.
The server (`Decoding`) changes its picture and sends what has changed in any
way the protocol has for it (`Encoder`): kinds of tiles, palettes, runs, filters,
flags that leave colours as they were, splits of the data over messages.  It
uses the encodings that the client has asked for (`SetFormatAndEncodings`), and
`setup` says which of them, as a server does not use them all at a time.  It
sends on when what it sent has been read.  With that order of steps the nested
event loop has nothing to disturb: what happens in it is in `MainLoop` and
`Framebuffer`.

A zlib stream is the count of the chunks it has put out or taken in, which goes
0, 1, 2, 1, 2, ...: the first is unlike the others, and one that is skipped or
decoded twice is noticed.  What a chunk expands to is given with it, in the
portions that `inflate` puts out for the input it has got.  A JPEG stands for its
pixels.  A video frame is counted likewise, for every rectangle on its own: it
decodes to a whole picture when the decoder has seen all since the key frame.
The server resets only the decoder it made last, or all when there are none
(`SendFrame`): after any other reset the table of `open-h264.c` holds null or
half-moved pointers, which `H264` has as entries but no run reaches.

Zlib and ZRLE are in setups of their own, as the client decodes both with one
stream; a server that gives each its own cannot be understood.

## What the runs show

| Run | Specification | Checks |
|---|---|---|
| `MCMainLoop` | `Spec`; TLS records, `BufSize` 3, re-entrant aml | `BytesInOrder`, `MessagesFramed`, `LockMeansHandling`, `NothingStranded`, implements `RfbStream` |
| `MCMainLoopPlain` | `LiveServerSpec`; plain socket, `BufSize` 5 | `StopsForAReason`, `EverythingHandled`, `EofEndsClient` |
| `MCMainLoopTlsStop` | `Spec`, TLS | **violated** `StopsForAReason` |
| `MCFramebuffer` | `Spec`, three setups | `ScreenIsCurrent`, `RepaintScheduled`, `RoundRobinSuffices` |
| `MCFramebufferReuse` | `Spec`, prompt compositor, resizes | **violated** `BackBufferReleased` |
| `MCKeyboard` | `Spec`, extended key events | `KeysAgree`, `LocksAgree`, `F12Toggles` |
| `MCPointer` | `Spec` | `ButtonsAgree`, `ScrollConserved`, `PressedInPlace` |
| `MCSeats` | `WaylandSpec`, two seats, two addresses, two outputs | `OneInhibitor`, `InhibitedOnceConfigured`, `AbortsForEarlySeats`, `PictureFits`, `PointerOnTarget` |
| `MCUpdateLoop` | `FairSpec`, both kinds of server | `RequestsConserved`, `RectsFit`, `NothingForgotten`, `Converges` |
| `MCSession` | `LiveSpec`, all versions and types | `InStep`, `JoinedTogether`, `ChoiceHandled`, `NothingUnverified`, `CrashesOnly`, `Decided` |
| `MCDecoding` | `Spec`, nine sets of encodings | `InStep`, `PictureShown`, `DamageCovers`, `StreamsAgree`, `DecodersMatchRects` |
| `MCDecodingUltraZip` | the same, Ultra and UltraZip | **violated** `EveryChangeReported` |

`MCMainLoop`, `MCFramebuffer` and `MCKeyboard` also check the `TypeOK` that the
proofs about them rest on.

The violated ones are what the code does against what it says:

- `MCMainLoopTlsStop`: `vnc_client_process` returns an uninitialised `rc`
  (`src/vnc.c:405`) when a wake-up brought no whole TLS record.
- `MCFramebufferReuse`: a resize sets `back_buffer` to the first buffer but not
  `buffer_index` (`src/main.c:820`).  With the index at 2 the next two updates
  are drawn into the same buffer, the second while the compositor shows it: the
  case of "Oops, back-buffer is still attached." (`src/main.c:873`).
- `MCDecodingUltraZip`: the header of an UltraZip rectangle holds a number of
  rectangles and a length, and `HandleFramebufferUpdate` reports these as the box
  that was updated (`src/rfbproto.c:2346`).  What was drawn is in no damage and
  stays unseen until something else changes there.  wlvncc asks for UltraZip
  whenever it asks for Ultra, which is in its default list (`src/main.c:1230`).

More limits, that no property states: `ReadFromRFBServer` loops until it has its
bytes and does not look at `do_run`, so that SIGINT, a closed window and the loss
of the compositor wait for a server that has fallen silent within a message; a
connection to the compositor that fails with anything but EPIPE never ends the
client, which is woken by it for ever.  A seat that goes before the window is
configured, and F12 between the announcement of the inhibit manager and the next
configure event, are used where they must not be (`crashed` in `Seats`).

And these are what the exceptions in five of the properties stand for, each of
them something that the code does:

- `PressedInPlace`: `pointer_enter` (`src/pointer.c:156`) does not look at the
  position of the event, so that a button that goes down before the pointer moves
  is sent for where the pointer was when it left.
- `InhibitedOnceConfigured`: `registry_remove` (`src/main.c:213`) frees a seat and
  leaves its entry in the inhibitor's list; a seat that is allocated at the same
  address is found there and not inhibited.  Nor is one that was announced before
  the inhibit manager.
- `AbortsForEarlySeats`: such a seat has no entry, and `assert(seat_inhibitor)`
  (`src/inhibitor.c:114`) fails when F12 is released on it.
- `PictureFits`, `PointerOnTarget`: after a new size of the server's screen
  (`src/main.c:808`), or a scale that an output announces later
  (`src/output.c:44`), the picture has the old layout while positions are
  converted with the new numbers, until the window is resized.

### Bounds

- `MainLoop`: a handshake of two bytes and messages of two, one and three.  The
  first may come with the handshake; the second follows the first in one read,
  so that a handler goes on to a next message; the third does not fit the buffer
  of three behind another byte and ends a TLS record that starts in the middle
  of the stream.  Longer streams repeat these cases.
- `Framebuffer`: three pixels in a row, two sizes.  Rectangles that overlap, are
  disjoint, and whose extents hold a pixel that neither has.  There is no bound
  on the number of updates: the set of states is finite.
- `Keyboard`: a lock, a modifier, a letter that the modifier changes, a key it
  does not change, and F12; no bound on the events.
- `Pointer`: distances below, above and at a multiple of the step, with both
  signs; the sum is bounded by 7, two steps and a rest.
- `Seats`: two seats with two keyboards each and two addresses, so that they live
  next to each other or one after the other at the same address; seats and
  addresses are symmetric.
- `Window`: two outputs, which are symmetric, each with scale 2 or none told yet;
  the compositor prefers 1, or has not said, so that the scale goes up and down.
  A window of 10 by 9 for a screen of 11 by 10, whose ratios are taken for the
  same and whose picture is reduced, and for one of 6 by 8, whose picture is
  enlarged and has room on both sides.  Windows so small that the picture has no
  height are left out.
- `UpdateLoop`: one or two pixels, two changes of the picture and two of the
  size, so that a resize is overtaken by another and by a change of the picture.
- `Session`: a version on each side of every limit of the code (none at all, 3.3,
  3.7, 3.8, 3.14, 3.889, 4.1); lists of up to two types, so that one that is
  chosen follows or precedes one that is not or could be; SASL mechanisms of up
  to four messages, so that either side may have the last word, first and
  after a full turn.
- `Decoding`: a screen of four by two pixels and tiles of three by three, so that
  a row has a whole tile and a cut one; rectangles that cover it, begin in its
  middle, and are empty; pictures of one colour, of two and of four.  The limits
  of the code are scaled to that: run lengths of more than one byte (`Full`),
  compact lengths of up to three (`LengthBase`), the smallest data that Tight compresses (`TightMin`), a buffer that rows of Tight do not fill
  evenly (`TightBuffer`), a table of two video decoders for two rectangles
  (`MaxContexts`), at most six subrectangles for CoRRE (`SubrectMax`), a
  cursor as wide as is accepted (`MaxCursor`).  Two rectangles
  in an update, in any of the encodings of a setup, follow on each other in
  every order; the number of updates has no bound.

### Fairness

`MainLoop!FairSpec` assumes that the thread runs when it can and that the
compositor answers the commit which shows the window (`main` waits for that
before its loop).  `EverythingHandled` also needs a server that goes on sending
(`LiveServerSpec`); nothing is assumed of it otherwise.  `UpdateLoop!FairSpec`
assumes that the client's thread runs and that the server reads requests and
sends what it was asked for when it has it.  Neither the picture nor the size is
assumed to change, or not to.
`Session!LiveSpec` assumes that the client goes on when it can, its user and the
authentication command included, and that the server, which follows the
protocol, does.  That the connection is lost is not assumed: `Decided` does not
need it.
`Decoding` states no fairness: that neither side waits for something that does
not come is a matter of safety there, and the run checks that there is no
deadlock.

### Assumptions of the runs that are not the code's

Each of these is a constant or a part of what stands for the server, and without
it a property does not hold; nothing in the repository promises that it would, so
these are limits and not findings:

- `Keyboard!LockHeld = FALSE`: a lock key held while the focus arrives is
  pressed by `keyboard_enter` and once more by `keyboard_sync_led_state`.
- `Keyboard!Extended = TRUE`: without extended key events a letter pressed with
  Shift and released without it stays down on the server.
- `UpdateLoop`: a server that tells of its size by ExtendedDesktopSize sends all of
  the picture again by itself after a change (`NothingForgotten`, `Converges`).
- `UpdateLoop!ScreenIds = TRUE`: an ExtendedDesktopSize rectangle whose screen
  has id 0 is ignored.
- `Framebuffer`: EGL with pixels and a server that resizes is not among the
  setups, as the texture keeps its first size; nor are video and pixels in one
  update, of which only the frames are drawn.
- `MainLoop`: `EofEndsClient` is checked without a layer.  A TLS connection that
  is cut without close-notify, and a SASL connection that ends in any way, look
  to `ReadToBuffer` like one that has no data yet.

## What is proved

`tlapm` checks these for every value of the constants that their assumptions
allow.

`MainLoopProofs`, with no assumption beyond those on the constants:
`TypeCorrect`, `BytesStayInOrder`, `MessagesStayFramed`, `LockTracksHandlers`,
`NothingIsStranded` and `ImplementsStream` (`Spec => StreamSpec`).  The
invariant is `IInv`: types, `Flow` (how far each stage of the receive path has
come: `given <= plain <= sent`), `Control` (what each `pc` implies for phase,
lock and message), `BytesInOrder` and `MessagesFramed`.  `MessagesFramed` alone
is not inductive: that a handler in the nested loop may not begin a message
needs the lock, the lock needs `Control`, and that the byte at the head of the
buffer starts a message needs `BytesInOrder`.  `ReadKeeps` is the lemma about
`ReadToBuffer` that all actions with a read cite.  `NoSpuriousStop`
(`StopsForAReason`) holds for a plain connection, an event loop that does not
re-enter a running handler, and a buffer that holds what the server sends
before it is asked for an update (`Sound`); `Prompt` is its invariant: a
ready socket then has bytes and the buffer has room for one.  The reasons are
`Reason`'s: SIGINT or a close event has been seen, the compositor has gone with
EPIPE, the server has closed the connection, or a handler gave up.

`FramebufferProofs`: `ScreenStaysCurrent` and `NoRepaintIsLost`, if every setup
is `Sound` (see above), with the invariant `PInv`: the old pixels of each
buffer, of the screen and of the texture are in the damage that is kept for
them or in what the running update will add.  `BackBufferIsReleased` needs only
`Rotation`: the back buffer is the one at the index, and not the one shown.

`KeyboardProofs`: `NoKeyIsStuck` and `LockIsKept`, if there are slots for all
keys, extended key events, no key that is F12 at one level only, and no lock key
held while the focus arrives.  The invariant `KInv` extends the two properties
to the middle of the loops of `keyboard_enter` and `keyboard_leave`.  From it comes
`TogglesOnRelease` (`F12Toggles`), an action property: only a key that goes up
toggles, because the loops press what is not in a slot and release what is.

The latter two also state their `TypeOK` as a theorem (`TypeCorrect`), under the
same assumptions: what the sizes, buffers and slots are is part of the argument.

`PointerProofs`: `ButtonsAlwaysAgree` and `ScrollAlwaysConserved`, for any
buttons, any length of a step and any distances; `PressesInPlace`, an action
property, which does not need a motion before the button.  What holds between
frames is not inductive; `PointerInv` says of every moment which surface has the
pointer, that `pressed` is right after each event, that the mask is when the
frame is over or nothing in it needs one, and that less than a step is left when
a frame ends.  `Truncated` is the arithmetic of `trunc()` for both signs.

`WaylandProofs`: `PictureAlwaysFits` and `PointerAlwaysOnTarget`, for any finite
set of outputs, any scales, any window and any screen with an area, and
`WindowSafe`, the same of the window by itself.  `WindowInv` is small, and that
is the point of it: the layout is always the one for the window of now and the
screen in `laidFor`, and scale and screen are still those unless one of the two
events that lay nothing out has come.  The rest are lemmas about
`window_calculate_buffer`: what two integer divisions lose (`TwiceDivided`),
that each of its three cases makes a picture inside the window with the screen's
proportions (`Fitted`, `Proportions`), and that the conversion of a position
undoes the layout (`OnTarget`).  `SeatsImplemented` shows that seats and window
over one connection implement `Seats!Spec`; with `SeatsInv` come
`InhibitorsAgree`, `SeatsInhibited` and `AbortsExplained`, for any number of
seats and addresses.  `OneInhibitor` alone is not inductive: that no second
object is made for a seat needs that a seat has one address, that its object is
in the entry of that address as long as it lives, and that entries have none
before there is a surface (`SeatsHoused`, `ObjectsHeld`); that every seat has an
entry or came before the manager is `SeatsListed`.

`UpdateLoopProofs`: `RequestsAlwaysConserved`, `RectsAlwaysFit` and
`NothingEverForgotten`, for any sizes, any ways of telling of them and queues of
any length, if screens have ids where a server tells of a size by the rectangle
that needs one (`Listens`).  `UpdateInv` is about each message in flight rather
than about the state when none is: with which size the client will take it
(`SizesTold`), and, for each pixel that will be wrong once it is taken, which
later message, which request or which of the server's own changes stands for it
(`WrongDue`, `StaleDue`, `NewSizeDue`).

`SessionProofs`: `ChoiceAlwaysHandled` and `CrashesOnlyThere`, for any versions,
any lists (`SessionAssumption`: a version is two numbers, or none could be read;
lists are finite) and a connection that is lost anywhere.  Both are proved from the client's side alone.  `todo` holds
the client's steps up to its next decision, and the invariant says which steps
may follow which (`Ordered`: after the switch on a security type nothing decides
any more, and nothing that asks for a password is ahead of it) and in which
state of the choice each may be reached (`Fits`: a step that asks for a password
is ahead only if the type is one of those in `CrashesOnly`).  Of the server it
needs only what `WireInv` says: that the lengths of lists are numbers.  The
lemmas `Handlers`, `SubHandlers` and `VeNCryptHandlers` are about the switches:
each has a handler for every type that was let through before it, except for the
two of `ChoiceHandled`.

`ConversationProofs`: `InStepAlways`, `JoinedAlways` and `VerifiedAlways`, under
the same assumptions, for SASL mechanisms of any number of messages.  These are
about both sides at once, and none of them is inductive: the next message fits
because both sides' whole plans fit.  The invariant is `TalkInv`:

- `Conv`: put back what is under way.  Let `c` be what the client has written and
  the server has not got, followed by `todo`, and `s` what the server has sent
  and the client has not read, followed by `steps`.  Then `Talking(c, s)`.  A
  message that is sent, arrives or is read ahead moves within one of the two and
  changes neither (`ConvMoves`); what is left are steps that take the first
  element off one of them.  A lost connection takes no step of the server any
  more, but the client may go on with what has arrived; the relation then holds
  for some continuation of what is lost (`Ghost`).
- `Talking` says what the two may have left to do, for each state of the choice:
  the versions are exchanged, a list is read (`Listing`, `VeListing`), the client
  has gone on with a type that the server does not know of yet (`Pending`), or
  both know the types (`Straight`).  Between two decisions it is a stretch
  (`Near`): a sequence of steps in which each write of the client's meets a get
  of the server's and each send a read, until both stand where the next decision
  is made.  `Matched` has it as the existence of a relation that each step
  keeps, which stands in for a recursive definition.  `TalkReads`, `TalkLocals`,
  `TalkGets` and `TalkDecides` say what the next step of either side can be
  (`SessionProofs`, second part), and one lemma per action that the two are still
  talking after it.
- `LayerInv`: a message under way was put on the wire with the layer that its
  reader will have on: the reader's own of now, but for a server that has
  finished the TLS handshake before its client.  That nothing is read ahead into
  the handshake (`Unread`) is part of it.  `Upward` says that no layer is on
  before a type is chosen, and `Verified` what the SASL library has seen once its
  layer is on.
- `ShapeInv`: the steps in `todo` are those of the scripts, so that the first of
  them, known by what it is called, is known altogether.

Along this argument, a server that follows the protocol is assumed, as in the
model; that it is not in step with a client is then a bug of the client's
handlers, and each handler's script (`VncScript`, `ARDScript`, ...) is compared
with what its server does.

Only model-checked: the five invariants of `Decoding`, and all liveness
(`EverythingHandled`, `EofEndsClient`, `Converges`, `Decided`).  Liveness under
fairness and `ENABLED` are beyond the provers used here, and so are recursive
operators and what folds compute for every input: run lengths in `Tiles` and
portions in `Compressed` are recursive, and no theorem is about the decoders.

## What is not modelled, and what is left

- Pure data conversion, which has no order of events to get wrong: the JPEG
  wrapper, the wavelets of ZYWRLE (which wlvncc does not ask for), ciphers and
  hashes, DES, the table of key codes, the shape of a cursor.
- Writing to the server.  A write blocks the one thread until the server reads,
  and a server that does not read while it writes makes a deadlock
  (`src/sockets.c:136` has a TODO); the protocol leaves open whether one may, so
  that a model would only restate its assumption.
- Which certificates are accepted, and the OpenSSL variant of the TLS layer.
- The set-up of EGL and GBM, the allocation of buffers, the command line: calls
  in a fixed order, made once.
- Resets of video decoders whose outcome is undefined, Zlib and ZRLE at a
  time, and more than 64 video frames in one update (an assertion fails).
- The announcement of extended key events between the press and the release of
  a key, and two pointers that share the server's one mask of buttons.

Every safety property that a run checks is proved but those of `Decoding`.  A
proof about the decoders would have to compute what a tile or a portion of data
comes to, for every input: induction over data, which these provers do not do.

Runs that ask the same of different setups are one run, with the setup as a
variable that never changes (`Framebuffer`, `UpdateLoop`, `Decoding`).
