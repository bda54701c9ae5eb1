---------------------------- MODULE MainLoopProofs ----------------------------
(***************************************************************************)
(* Theorems about MainLoop, for every stream, buffer size, layer, record   *)
(* size and either behaviour of the event loop library.                    *)
(***************************************************************************)
EXTENDS MainLoop, SequenceTheorems, TLAPS

(* How far each stage of the receive path has come.                        *)
Flow ==
  /\ given <= sent /\ absorbed <= sent
  /\ Layer # "none" => given <= plain /\ plain <= sent

(* Where the thread can be, given the phase and the message at hand.       *)
Control ==
  /\ lock <=> pc \in {"handler", "nested"}
  /\ phase = "init" => head = 0 /\ pc \in {"handler", "nested", "exit"}
  /\ phase = "run" /\ head = 0 => need = 0 /\ rest = 0
  /\ phase = "run" /\ head # 0 =>
       \/ pc \in {"handler", "nested"}
       \/ ~do_run /\ (pc = "dispatch" => "vnc" \notin pending)
  /\ pc = "handler" => "vnc" \notin pending
  /\ phase = "run" /\ pc \in {"handler", "nested"} => head # 0
  /\ phase = "run" /\ pc = "first" => head = 0

(* The types of what the receive path is made of.                          *)
RxType ==
  /\ sent \in 0..N /\ plain \in 0..N /\ absorbed \in 0..N
  /\ given \in 0..N /\ done \in 0..N
  /\ buf \in Seq(1..N) /\ Len(buf) <= BufSize

RxOK == RxType /\ Flow /\ BytesInOrder

LEMMA Numbers == N \in Nat /\ InitLen \in 1..N /\ BufSize \in Nat
BY StreamAssumption, LoopAssumption

(* ReadToBuffer, whatever it returns, appends the next bytes of the stream *)
(* to the buffer, no more than fit, and hands none out.                    *)
LEMMA ReadKeeps ==
  ASSUME RxOK, ReadOk, sent' = sent
  PROVE  RxOK' /\ done' = done
<1> USE Numbers DEF RxOK, RxType
<1>1. CASE ReadSome
  <2> DEFINE size == MinOf(PlainTo - given, BufSize - Len(buf))
             new == [i \in 1..size |-> given + i]
  <2>1. PlainTo \in given..N /\ PlainTo <= sent
    <3>1. CASE Layer = "none"
      BY <1>1, <3>1 DEF ReadSome, Readable, PlainTo, MinOf, Flow
    <3>2. CASE Layer # "none" /\ given < plain
      BY <1>1, <3>2 DEF PlainTo, Flow
    <3>3. CASE Layer # "none" /\ ~(given < plain)
      <4>1. plain < N /\ RecordEnd[plain] <= sent
        BY <1>1, <3>3 DEF ReadSome, Readable, RecordArrived
      <4>2. RecordEnd[plain] \in 1..N /\ RecordEnd[plain] > plain
        BY <4>1, LoopAssumption
      <4>3. QED
        BY <3>3, <4>1, <4>2 DEF PlainTo, Flow
    <3>4. QED
      BY <3>1, <3>2, <3>3
  <2>2. size \in Nat /\ size <= BufSize - Len(buf) /\ given + size <= PlainTo
    BY <2>1 DEF MinOf
  <2>3. /\ buf' = buf \o new /\ given' = given + size /\ done' = done
        /\ plain' = PlainTo
        /\ absorbed' = IF PlainTo > absorbed THEN PlainTo ELSE absorbed
    BY <1>1 DEF ReadSome
  <2> HIDE DEF size
  <2>4. new \in Seq(1..N) /\ Len(new) = size /\ \A i \in 1..size : new[i] = given + i
    BY <2>1, <2>2
  <2> HIDE DEF new
  <2>5. /\ buf' \in Seq(1..N) /\ Len(buf') = Len(buf) + size
        /\ \A i \in 1..Len(buf') :
             buf'[i] = IF i <= Len(buf) THEN buf[i] ELSE new[i - Len(buf)]
    <3> DEFINE cat == buf \o new
    <3>1. /\ cat \in Seq(1..N) /\ Len(cat) = Len(buf) + Len(new)
          /\ \A i \in 1..(Len(buf) + Len(new)) :
               cat[i] = IF i <= Len(buf) THEN buf[i] ELSE new[i - Len(buf)]
      BY <2>4, ConcatProperties, Zenon
    <3>2. buf' = cat /\ Len(new) = size
      BY <2>3, <2>4
    <3> HIDE DEF cat
    <3>3. QED
      BY <3>1, <3>2
  <2>6. \A i \in 1..Len(buf') : buf'[i] = done + i
    <3> SUFFICES ASSUME NEW i \in 1..Len(buf') PROVE buf'[i] = done + i
      OBVIOUS
    <3>1. buf'[i] = IF i <= Len(buf) THEN buf[i] ELSE new[i - Len(buf)]
      BY <2>5
    <3>2. CASE i <= Len(buf)
      BY <3>1, <3>2 DEF BytesInOrder
    <3>3. CASE i > Len(buf)
      <4>1. i - Len(buf) \in 1..size
        BY <3>3, <2>2, <2>5
      <4>2. buf'[i] = given + (i - Len(buf))
        BY <4>1, <3>1, <3>3, <2>4
      <4>3. QED
        BY <4>2 DEF BytesInOrder
    <3>4. QED
      BY <3>2, <3>3
  <2>7. BytesInOrder'
    BY <2>2, <2>3, <2>5, <2>6 DEF BytesInOrder
  <2>8. Flow' /\ RxType'
    BY <2>1, <2>2, <2>3, <2>5 DEF Flow
  <2>9. QED
    BY <2>3, <2>7, <2>8
<1>2. CASE ReadNothing
  BY <1>2 DEF ReadNothing, Flow, BytesInOrder, rx
<1>3. QED
  BY <1>1, <1>2 DEF ReadOk

(* ReadFromRFBServer's copy takes the next bytes out, in order.            *)
LEMMA CopyKeeps ==
  ASSUME RxOK, need \in 0..N, CopyOut
  PROVE  /\ RxOK'
         /\ need' \in 0..N
         /\ done' + need' = done + need
<1> DEFINE size == MinOf(Len(buf), need)
<1> USE Numbers DEF RxOK, RxType
<1>1. size \in Nat /\ size <= Len(buf) /\ size <= need
  BY DEF MinOf
<1>2. /\ done' = done + size /\ need' = need - size
      /\ buf' = SubSeq(buf, size + 1, Len(buf))
      /\ UNCHANGED <<sent, plain, absorbed, given>>
  BY DEF CopyOut, net, layer
<1> HIDE DEF size
<1>3. /\ buf' \in Seq(1..N) /\ Len(buf') = Len(buf) - size
      /\ \A i \in 1..(Len(buf) - size) : buf'[i] = buf[size + i]
  BY <1>1, <1>2
<1>4. BytesInOrder'
  <2>1. given' = done' + Len(buf')
    <3>1. given = done + Len(buf)
      BY DEF BytesInOrder
    <3>2. given' = given /\ done' = done + size
      BY <1>2
    <3>3. QED
      BY <1>1, <1>3, <3>1, <3>2
  <2>2. ASSUME NEW i \in 1..Len(buf') PROVE buf'[i] = done' + i
    <3>1. i \in 1..(Len(buf) - size) /\ size + i \in 1..Len(buf)
      BY <2>2, <1>1, <1>3
    <3>2. QED
      BY <3>1, <1>1, <1>2, <1>3 DEF BytesInOrder
  <2>3. QED
    BY <2>1, <2>2 DEF BytesInOrder
<1>5. done' \in 0..N /\ need' \in 0..N
  BY <1>1, <1>2 DEF BytesInOrder
<1>6. QED
  BY <1>1, <1>2, <1>3, <1>4, <1>5 DEF Flow

-------------------------------------------------------------------------------
(* The inductive invariant.                                                *)
IInv == TypeOK /\ Flow /\ BytesInOrder /\ Control /\ MessagesFramed

LEMMA InitIInv == Init => IInv
<1> SUFFICES ASSUME Init PROVE IInv
  OBVIOUS
<1>1. TypeOK
  BY Numbers DEF Init, TypeOK
<1>2. Flow /\ BytesInOrder /\ Control /\ MessagesFramed
  BY Numbers DEF Init, Flow, BytesInOrder, Control, MessagesFramed
<1>3. QED
  BY <1>1, <1>2 DEF IInv

(* Steps of the server and the world leave the client alone.               *)
LEMMA OthersKeepIInv ==
  ASSUME IInv, Server \/ World
  PROVE  IInv'
<1> USE Numbers DEF IInv, layer, rx, msg, Flow, BytesInOrder, Control, MessagesFramed
<1>1. CASE ServerSend
  <2>1. sent' \in 0..N /\ sent' > sent
    BY <1>1, LoopAssumption DEF ServerSend, TypeOK
  <2>2. QED
    BY <1>1, <2>1 DEF ServerSend, TypeOK, env
<1>2. CASE ServerClose
  BY <1>2 DEF ServerClose, TypeOK, env
<1>3. CASE CompositorSends
  BY <1>3 DEF CompositorSends, TypeOK, net
<1>4. CASE CompositorGone
  BY <1>4 DEF CompositorGone, TypeOK, net
<1>5. CASE UserCloses
  BY <1>5 DEF UserCloses, TypeOK, net
<1>6. CASE Interrupt
  BY <1>6 DEF Interrupt, TypeOK, net
<1>7. QED
  BY <1>1, <1>2, <1>3, <1>4, <1>5, <1>6 DEF Server, World

(* What the listeners of Wayland events may do to the loop.                *)
LEMMA ListenersRun ==
  ASSUME RunListeners, TypeOK
  PROVE  /\ wl' = "quiet" /\ window' \in {"open", "closing", "closed"}
         /\ do_run' \in {do_run, FALSE}
         /\ do_run' = do_run \/ window' = "closed"
         /\ window = "closed" => window' = "closed"
         /\ wl # "gone"
BY DEF RunListeners, Connected, TypeOK

(* Running the event loop, up to the handler of the VNC socket.            *)
LEMMA LoopKeepsIInv ==
  ASSUME IInv, Loop \/ DispatchSignal \/ DispatchWayland
  PROVE  IInv'
<1> USE Numbers DEF IInv, net, layer, rx, msg, Flow, BytesInOrder, MessagesFramed
<1>1. CASE Poll
  <2>1. pending' \subseteq {"vnc", "wl", "sig"}
    BY <1>1 DEF Poll, Emitted, Ready, TypeOK
  <2>2. QED
    BY <1>1, <2>1 DEF Poll, TypeOK, Control, env
<1>2. CASE LoopTest
  <2>1. /\ UNCHANGED <<net, layer, rx, msg, env, phase, pending, lock, do_run>>
        /\ pc \in {"dispatch", "poll"} /\ pc' \in {"poll", "exit"}
    BY <1>2 DEF LoopTest
  <2>2. QED
    BY <2>1 DEF TypeOK, Control, env
<1>3. CASE NestedPoll
  <2>1. pending' \subseteq {"vnc", "wl", "sig"}
    BY <1>3 DEF NestedPoll, Emitted, Ready, TypeOK
  <2>2. QED
    BY <1>3, <2>1 DEF NestedPoll, TypeOK, Control, env
<1>4. CASE FirstDispatch
  BY <1>4, ListenersRun DEF FirstDispatch, TypeOK, Control
<1>5. CASE DispatchSignal
  BY <1>5 DEF DispatchSignal, Dispatching, TypeOK, Control
<1>6. CASE DispatchWayland
  <2>1. /\ wl' \in {"quiet", "events", "gone", "broken"}
        /\ window' \in {"open", "closing", "closed"} 
        /\ do_run' = do_run \/ do_run' = FALSE
    BY <1>6, ListenersRun DEF DispatchWayland, TypeOK
  <2>2. /\ UNCHANGED <<net, layer, rx, msg, sigint, phase, pc, lock>>
        /\ pending' \subseteq pending
    BY <1>6 DEF DispatchWayland
  <2>3. TypeOK'
    <3>1. do_run' \in BOOLEAN /\ pending' \subseteq {"vnc", "wl", "sig"}
      BY <2>1, <2>2 DEF TypeOK
    <3>2. QED
      BY <2>1, <2>2, <3>1 DEF TypeOK
  <2>4. Control' /\ Flow' /\ BytesInOrder' /\ MessagesFramed'
    BY <2>1, <2>2 DEF Control
  <2>5. QED
    BY <2>3, <2>4
<1>7. QED
  BY <1>1, <1>2, <1>3, <1>4, <1>5, <1>6 DEF Loop

(* After a read the invariant only needs what the action says of control.  *)
LEMMA ReadIInv ==
  ASSUME IInv, ReadOk \/ ReadFails, sent' = sent
  PROVE  RxOK' /\ done' = done
<1>1. RxOK
  BY DEF IInv, TypeOK, RxOK, RxType
<1>2. CASE ReadOk
  BY <1>1, <1>2, ReadKeeps
<1>3. CASE ReadFails
  BY <1>1, <1>3 DEF ReadFails, layer, rx, RxOK, RxType, Flow, BytesInOrder
<1>4. QED
  BY <1>2, <1>3

(* With every byte of the handled messages handed out, the first byte in   *)
(* the buffer starts a message.                                            *)
LEMMA FirstBuffered ==
  ASSUME NEW b \in Seq(1..N), NEW d \in 0..N, b # <<>>,
         \A i \in 1..Len(b) : b[i] = d + i,
         d + 1 \in Heads \/ d = N
  PROVE  Head(b) = d + 1 /\ d + 1 \in Heads
<1>1. Len(b) \in Nat /\ Len(b) # 0
  BY EmptySeq
<1>2. b[1] = d + 1 /\ b[1] \in 1..N
  <2>1. 1 \in 1..Len(b)
    BY <1>1
  <2>2. QED
    BY <2>1, ElementOfSeq
<1>3. Head(b) = b[1]
  BY <1>1
<1>4. QED
  BY <1>2, <1>3, Numbers

LEMMA StartOfMessage ==
  ASSUME NEW h \in Heads
  PROVE  /\ h \in 1..N /\ BodyLen[h] \in 0..N /\ Body(h) = BodyLen[h]
         /\ h + BodyLen[h] + 1 \in Heads \/ h + BodyLen[h] = N
BY StreamAssumption DEF Body

(* vnc_client_process, from either loop.                                   *)
LEMMA VncKeepsIInv ==
  ASSUME IInv, Vnc
  PROVE  IInv'
<1> USE DEF IInv, msg, env, net
<1>1. sent' = sent /\ (ReadOk \/ ReadFails) /\ pending' \subseteq pending
  BY DEF Vnc, ProcessFails, ProcessLocked, ProcessMessages, ProcessEmpty, TakeVnc
<1>2. RxOK' /\ done' = done
  BY <1>1, ReadIInv
<1>3. Dispatching /\ pending # {}
  BY DEF Vnc, ProcessFails, ProcessLocked, ProcessMessages, ProcessEmpty, TakeVnc
<1>4. CASE ProcessFails \/ ProcessLocked \/ ProcessEmpty
  <2>1. /\ UNCHANGED <<net, msg, env, phase, pc, lock>>
        /\ do_run' = do_run \/ do_run' = FALSE
    BY <1>4 DEF ProcessFails, ProcessLocked, ProcessEmpty
  <2>2. TypeOK'
    <3>1. RxType' /\ do_run' \in BOOLEAN /\ pending' \subseteq {"vnc", "wl", "sig"}
      BY <1>1, <1>2, <2>1 DEF TypeOK, RxOK
    <3>2. QED
      BY <2>1, <3>1 DEF TypeOK, RxType
  <2>3. Control' /\ MessagesFramed'
    BY <1>1, <1>2, <2>1 DEF Control, MessagesFramed, TypeOK
  <2>4. QED
    BY <1>2, <2>2, <2>3 DEF RxOK
<1>5. CASE ProcessMessages
  <2>1. phase = "run" /\ head = 0
    <3>1. ~lock /\ "vnc" \in pending
      BY <1>5 DEF ProcessMessages, TakeVnc
    <3>2. pc = "dispatch" /\ phase = "run"
      BY <1>3, <3>1 DEF Control, Dispatching, TypeOK
    <3>3. QED
      BY <3>1, <3>2 DEF Control
  <2>2. buf' # <<>> /\ (done' + 1 \in Heads \/ done' = N)
    BY <1>2, <1>5, <2>1 DEF ProcessMessages, MessagesFramed
  <2>3. Head(buf') = done' + 1 /\ done' + 1 \in Heads
    BY <1>2, <2>2, FirstBuffered DEF RxOK, RxType, BytesInOrder
  <2>4. /\ head' = done' + 1 /\ need' = 1 /\ rest' = BodyLen[head']
        /\ lock' = TRUE /\ pc' = "handler" /\ phase' = "run"
        /\ "vnc" \notin pending' /\ UNCHANGED <<net, env, do_run>>
    BY <1>5, <2>1, <2>3, StartOfMessage DEF ProcessMessages, BeginMessage, TakeVnc
  <2>5. TypeOK'
    BY <1>1, <1>2, <2>3, <2>4, StartOfMessage, Numbers DEF TypeOK, RxOK, RxType
  <2>6. Control' /\ MessagesFramed'
    BY <1>2, <2>3, <2>4, StartOfMessage, Numbers DEF Control, MessagesFramed, RxOK, RxType
  <2>7. QED
    BY <1>2, <2>5, <2>6 DEF RxOK
<1>6. QED
  BY <1>4, <1>5 DEF Vnc

(* The nested loop's own read.                                             *)
LEMMA NestedKeepsIInv ==
  ASSUME IInv, NestedRead \/ NestedReadFails
  PROVE  IInv'
<1> USE DEF IInv, msg, env, net
<1>1. RxOK' /\ done' = done
  BY ReadIInv DEF NestedRead, NestedReadFails
<1>2. CASE NestedRead
  <2>1. TypeOK'
    BY <1>1, <1>2 DEF NestedRead, TypeOK, RxOK, RxType
  <2>2. Control' /\ MessagesFramed'
    BY <1>1, <1>2 DEF NestedRead, Control, MessagesFramed
  <2>3. QED
    BY <1>1, <2>1, <2>2 DEF RxOK
<1>3. CASE NestedReadFails
  <2>1. TypeOK'
    BY <1>1, <1>3 DEF NestedReadFails, TypeOK, RxOK, RxType
  <2>2. Control' /\ MessagesFramed'
    BY <1>1, <1>3 DEF NestedReadFails, Control, MessagesFramed, TypeOK
  <2>3. QED
    BY <1>1, <2>1, <2>2 DEF RxOK
<1>4. QED
  BY <1>2, <1>3

(* The protocol code, between and in its reads.                            *)
LEMMA HandlerKeepsIInv ==
  ASSUME IInv, Handler
  PROVE  IInv'
<1> USE DEF IInv, net, env
<1>0. RxOK /\ lock = TRUE /\ pc = "handler"
  BY DEF TypeOK, RxOK, RxType, Control, Handler, StartRead, CopyOut, InitDone,
         NextMessage, ProcessReturns, HandlerFails, MessageRead
<1>1. CASE StartRead
  <2>1. /\ need' \in 0..N /\ rest' \in 0..N /\ need' + rest' = need + rest
        /\ UNCHANGED <<net, layer, rx, head, env, phase, pc, pending, lock, do_run>>
    BY <1>1, Numbers DEF StartRead, TypeOK
  <2>2. Control'
    BY <1>0, <1>1, <2>1 DEF StartRead, Control, TypeOK
  <2>3. TypeOK' /\ Flow' /\ BytesInOrder'
    BY <2>1 DEF TypeOK, Flow, BytesInOrder, layer, rx
  <2>4. done' + need' + rest' = done + need + rest
    <3>1. done' = done /\ done \in Int /\ need \in Int /\ rest \in Int
      BY <2>1, Numbers DEF TypeOK, rx
    <3>2. need' \in Int /\ rest' \in Int /\ need' + rest' = need + rest
      BY <2>1, Numbers
    <3>3. done' + need' + rest' = done' + (need' + rest')
      BY <3>1, <3>2
    <3>4. done' + (need' + rest') = done + (need + rest)
      BY <3>1, <3>2
    <3>5. done + (need + rest) = done + need + rest
      BY <3>1
    <3>6. QED
      BY <3>3, <3>4, <3>5
  <2>5. MessagesFramed'
    BY <2>1, <2>4, Numbers DEF MessagesFramed, TypeOK, rx
  <2>6. QED
    BY <2>2, <2>3, <2>5
<1>2. CASE CopyOut
  <2>1. RxOK' /\ need' \in 0..N /\ done' + need' = done + need
    BY <1>0, <1>2, CopyKeeps DEF TypeOK
  <2>2. UNCHANGED <<net, head, rest, env, phase, pc, pending, lock, do_run>>
    BY <1>2 DEF CopyOut
  <2>3. TypeOK'
    BY <2>1, <2>2 DEF TypeOK, RxOK, RxType
  <2>4. head = 0 => phase = "init"
    BY <1>2 DEF Control, CopyOut, TypeOK
  <2>5. Control' /\ MessagesFramed'
    BY <1>0, <2>1, <2>2, <2>4, Numbers DEF Control, MessagesFramed, TypeOK, RxOK, RxType
  <2>6. QED
    BY <2>1, <2>3, <2>5 DEF RxOK
<1>3. CASE InitDone
  <2>1. done = InitLen
    BY <1>3, Numbers DEF InitDone, MessageRead, MessagesFramed, TypeOK
  <2>2. MessagesFramed' /\ Control'
    BY <1>3, <2>1, StreamAssumption
       DEF InitDone, MessageRead, MessagesFramed, Control, TypeOK, rx, msg
  <2>3. QED
    BY <1>3, <2>2 DEF InitDone, TypeOK, Flow, BytesInOrder, layer, rx, msg
<1>4. MessageRead /\ phase = "run" => done + 1 \in Heads \/ done = N
  BY StartOfMessage, Numbers DEF MessageRead, MessagesFramed, TypeOK
<1>5. CASE NextMessage
  <2>1. Head(buf) = done + 1 /\ done + 1 \in Heads
    BY <1>0, <1>4, <1>5, FirstBuffered DEF NextMessage, RxOK, RxType, BytesInOrder
  <2>2. /\ head' = done + 1 /\ need' = 1 /\ rest' = BodyLen[head']
        /\ phase = "run"
        /\ UNCHANGED <<net, layer, rx, env, phase, pc, pending, lock, do_run>>
    BY <1>5, <2>1, StartOfMessage DEF NextMessage, BeginMessage
  <2>3. TypeOK'
    BY <2>1, <2>2, StartOfMessage, Numbers DEF TypeOK, layer, rx
  <2>4. Control' /\ MessagesFramed'
    BY <1>0, <2>1, <2>2, StartOfMessage, Numbers
       DEF Control, MessagesFramed, TypeOK, rx
  <2>5. QED
    BY <2>2, <2>3, <2>4 DEF Flow, BytesInOrder, layer, rx
<1>6. CASE ProcessReturns
  <2>1. MessagesFramed' /\ Control'
    BY <1>4, <1>6
       DEF ProcessReturns, MessageRead, MessagesFramed, Control, TypeOK, rx
  <2>2. QED
    BY <1>6, <2>1 DEF ProcessReturns, TypeOK, Flow, BytesInOrder, layer, rx
<1>7. CASE HandlerFails
  <2>1. MessagesFramed' /\ Control'
    BY <1>7 DEF HandlerFails, MessagesFramed, Control, TypeOK, rx, msg
  <2>2. QED
    BY <1>7, <2>1 DEF HandlerFails, TypeOK, Flow, BytesInOrder, layer, rx, msg
<1>8. QED
  BY <1>1, <1>2, <1>3, <1>5, <1>6, <1>7 DEF Handler

(* IInv holds throughout: every step keeps it.                             *)
THEOREM Invariance == Spec => []IInv
<1>1. IInv /\ [Next]_vars => IInv'
  <2> SUFFICES ASSUME IInv, [Next]_vars PROVE IInv'
    OBVIOUS
  <2>1. CASE Server \/ World
    BY <2>1, OthersKeepIInv
  <2>2. CASE Loop \/ DispatchSignal \/ DispatchWayland
    BY <2>2, LoopKeepsIInv
  <2>3. CASE Handler
    BY <2>3, HandlerKeepsIInv
  <2>4. CASE Vnc
    BY <2>4, VncKeepsIInv
  <2>5. CASE NestedRead \/ NestedReadFails
    BY <2>5, NestedKeepsIInv
  <2>6. CASE UNCHANGED vars
    BY <2>6 DEF vars, net, layer, rx, msg, env, IInv, TypeOK, Flow, BytesInOrder,
                Control, MessagesFramed
  <2>7. QED
    BY <2>1, <2>2, <2>3, <2>4, <2>5, <2>6 DEF Next, Thread
<1>2. QED
  BY <1>1, InitIInv, PTL DEF Spec

-------------------------------------------------------------------------------
(* The variables of MainLoop keep their types.                             *)
THEOREM TypeCorrect == Spec => []TypeOK
BY Invariance, PTL DEF IInv

(* The receive buffer never loses, repeats or reorders a byte.             *)
THEOREM BytesStayInOrder == Spec => []BytesInOrder
BY Invariance, PTL DEF IInv

(* No byte of a message is ever taken for the start of one, although event *)
(* loops run inside the parsers.                                           *)
THEOREM MessagesStayFramed == Spec => []MessagesFramed
BY Invariance, PTL DEF IInv

(* The assertion in vnc_client_unlock_handler holds.                       *)
THEOREM LockTracksHandlers == Spec => []LockMeansHandling
<1>1. IInv => LockMeansHandling
  BY DEF IInv, Control, LockMeansHandling
<1>2. QED
  BY <1>1, Invariance, PTL

-------------------------------------------------------------------------------
(* MainLoop implements RfbStream.                                          *)

LEMMA VncRefines ==
  ASSUME IInv, Vnc
  PROVE  UNCHANGED HandledUpTo
<1> USE DEF msg
<1>0. done' = done
  BY ReadIInv DEF Vnc, ProcessFails, ProcessLocked, ProcessMessages, ProcessEmpty, net
<1>1. CASE ProcessFails \/ ProcessLocked \/ ProcessEmpty
  BY <1>0, <1>1 DEF ProcessFails, ProcessLocked, ProcessEmpty, HandledUpTo
<1>2. CASE ProcessMessages
  <2>1. phase = "run" /\ head = 0
    BY <1>2 DEF ProcessMessages, TakeVnc, IInv, Control, Dispatching, TypeOK
  <2>2. RxOK'
    BY <1>2, ReadIInv DEF ProcessMessages, net
  <2>3. Head(buf') = done' + 1 /\ done' + 1 \in Heads
    BY <1>0, <1>2, <2>1, <2>2, FirstBuffered
       DEF ProcessMessages, IInv, MessagesFramed, RxOK, RxType, BytesInOrder
  <2>4. head' = done' + 1 /\ head' # 0 /\ done \in Nat
    BY <1>2, <2>3, StartOfMessage, Numbers
       DEF ProcessMessages, BeginMessage, IInv, TypeOK
  <2>5. QED
    BY <1>0, <2>1, <2>4 DEF HandledUpTo
<1>3. QED
  BY <1>1, <1>2 DEF Vnc

LEMMA HandlerRefines ==
  ASSUME IInv, Handler
  PROVE  [Stream!Next]_HandledUpTo
<1> USE DEF IInv, msg, rx
<1>1. CASE StartRead
  BY <1>1 DEF StartRead, HandledUpTo
<1>2. CASE CopyOut
  <2>1. head # 0 \/ phase = "init"
    BY <1>2 DEF CopyOut, Control, TypeOK
  <2>2. QED
    BY <1>2, <2>1 DEF CopyOut, HandledUpTo
<1>3. CASE InitDone
  <2>1. done = InitLen /\ head = 0
    BY <1>3, Numbers DEF InitDone, MessageRead, MessagesFramed, TypeOK, Control
  <2>2. QED
    BY <1>3, <2>1 DEF InitDone, HandledUpTo, Stream!Next, Stream!Handshake
<1>4. CASE (NextMessage \/ ProcessReturns) /\ head # 0
  <2>1. /\ head \in Heads /\ HandledUpTo = head - 1
        /\ done = head + BodyLen[head]
    <3>1. need = 0 /\ rest = 0 /\ head \in Heads /\ done \in 0..N
      BY <1>4 DEF NextMessage, ProcessReturns, MessageRead, TypeOK
    <3>2. done + need + rest = head + BodyLen[head]
      BY <1>4 DEF MessagesFramed
    <3>3. HandledUpTo = head - 1
      BY <1>4 DEF HandledUpTo
    <3>4. QED
      BY <3>1, <3>2, <3>3, StartOfMessage, Numbers
  <2>2. HandledUpTo' = done
    <3>1. CASE ProcessReturns
      BY <3>1 DEF ProcessReturns, HandledUpTo, MessageRead
    <3>2. CASE NextMessage
      <4>1. done + 1 \in Heads \/ done = N
        BY <2>1, StartOfMessage
      <4>2. Head(buf) = done + 1 /\ done + 1 \in Heads
        BY <3>2, <4>1, FirstBuffered DEF NextMessage, TypeOK, BytesInOrder
      <4>3. head' = done + 1 /\ head' # 0 /\ done \in Nat
        BY <3>2, <4>2, StartOfMessage, Numbers
           DEF NextMessage, BeginMessage, TypeOK
      <4>4. QED
        BY <4>3 DEF HandledUpTo
    <3>3. QED
      BY <1>4, <3>1, <3>2
  <2>3. HandledUpTo + 1 = head /\ head + BodyLen[head] = done
    <3>1. head \in Int
      BY <2>1, Numbers, StartOfMessage
    <3>2. QED
      BY <2>1, <3>1
  <2>4. Stream!HandleMessage
    BY <2>1, <2>2, <2>3 DEF Stream!HandleMessage
  <2>5. QED
    BY <2>4 DEF Stream!Next
<1>5. CASE (NextMessage \/ ProcessReturns) /\ head = 0
  <2>1. phase = "run"
    BY <1>5 DEF NextMessage, ProcessReturns
  <2>2. CASE ProcessReturns
    BY <1>5, <2>1, <2>2 DEF ProcessReturns, HandledUpTo
  <2>3. CASE NextMessage
    <3>1. Head(buf) = done + 1 /\ done + 1 \in Heads
      BY <1>5, <2>1, <2>3, FirstBuffered
         DEF NextMessage, TypeOK, BytesInOrder, MessagesFramed
    <3>2. head' = done + 1 /\ head' # 0 /\ done \in Nat
      BY <2>3, <3>1, StartOfMessage, Numbers
         DEF NextMessage, BeginMessage, TypeOK
    <3>3. QED
      BY <1>5, <2>1, <3>2 DEF HandledUpTo
  <2>4. QED
    BY <1>5, <2>2, <2>3
<1>6. CASE HandlerFails
  BY <1>6 DEF HandlerFails, HandledUpTo
<1>7. QED
  BY <1>1, <1>2, <1>3, <1>4, <1>5, <1>6 DEF Handler

(* Event loop, buffer and lock together deliver the server's messages one  *)
(* at a time, each once and whole, in the order they were sent.            *)
THEOREM ImplementsStream == Spec => StreamSpec
<1>1. Init => Stream!Init
  BY DEF Init, Stream!Init, HandledUpTo
<1>2. IInv /\ [Next]_vars => [Stream!Next]_HandledUpTo
  <2> SUFFICES ASSUME IInv, [Next]_vars PROVE [Stream!Next]_HandledUpTo
    OBVIOUS
  <2> USE DEF HandledUpTo, msg, rx
  <2>1. CASE Server \/ World
    BY <2>1 DEF Server, World, ServerSend, ServerClose, CompositorSends,
                CompositorGone, UserCloses, Interrupt
  <2>2. CASE Loop \/ DispatchSignal \/ DispatchWayland
    BY <2>2 DEF Loop, Poll, LoopTest, NestedPoll, FirstDispatch, DispatchSignal,
                DispatchWayland
  <2>3. CASE Handler
    BY <2>3, HandlerRefines
  <2>4. CASE Vnc
    BY <2>4, VncRefines
  <2>5. CASE NestedRead \/ NestedReadFails
    <3>1. done' = done
      BY <2>5, ReadIInv DEF NestedRead, NestedReadFails, net
    <3>2. QED
      BY <2>5, <3>1 DEF NestedRead, NestedReadFails
  <2>6. CASE UNCHANGED vars
    BY <2>6 DEF vars
  <2>7. QED
    BY <2>1, <2>2, <2>3, <2>4, <2>5, <2>6 DEF Next, Thread
<1>3. QED
  BY <1>1, <1>2, Invariance, PTL DEF Spec, StreamSpec, Stream!Spec

-------------------------------------------------------------------------------
(* What is left in the buffer when no handler is on the stack came with    *)
(* the handshake.                                                          *)
Leftover ==
  pc \in {"first", "poll", "dispatch"} /\ do_run /\ buf # <<>> => done = InitLen

(* The outer loop never sleeps on unparsed bytes, except on those that     *)
(* came with the end of the handshake.                                     *)
THEOREM NothingIsStranded == Spec => []NothingStranded
<1>1. Init => Leftover
  BY DEF Init, Leftover
<1>2. IInv /\ Leftover /\ [Next]_vars => Leftover'
  <2> SUFFICES ASSUME IInv, Leftover, [Next]_vars PROVE Leftover'
    OBVIOUS
  <2> USE DEF Leftover, rx
  <2>1. CASE Server \/ World
    BY <2>1 DEF Server, World, ServerSend, ServerClose, CompositorSends,
                CompositorGone, UserCloses, Interrupt
  <2>2. CASE Loop \/ DispatchSignal \/ DispatchWayland
    BY <2>2, ListenersRun
       DEF Loop, Poll, LoopTest, NestedPoll, FirstDispatch, DispatchSignal,
           DispatchWayland, IInv
  <2>3. CASE Handler
    <3>1. CASE InitDone
      BY <3>1, Numbers
         DEF InitDone, MessageRead, IInv, MessagesFramed, TypeOK
    <3>2. CASE StartRead \/ CopyOut \/ NextMessage \/ ProcessReturns
      BY <3>2 DEF StartRead, CopyOut, NextMessage, ProcessReturns, MessageRead
    <3>3. CASE HandlerFails
      BY <3>3 DEF HandlerFails, IInv, Control, TypeOK
    <3>4. QED
      BY <2>3, <3>1, <3>2, <3>3 DEF Handler
  <2>4. CASE Vnc
    <3>1. CASE ProcessFails \/ ProcessMessages \/ ProcessEmpty
      BY <3>1 DEF ProcessFails, ProcessMessages, ProcessEmpty
    <3>2. CASE ProcessLocked
      BY <3>2 DEF ProcessLocked, IInv, Control
    <3>3. QED
      BY <2>4, <3>1, <3>2 DEF Vnc
  <2>5. CASE NestedRead \/ NestedReadFails
    BY <2>5 DEF NestedRead, NestedReadFails
  <2>6. CASE UNCHANGED vars
    BY <2>6 DEF vars
  <2>7. QED
    BY <2>1, <2>2, <2>3, <2>4, <2>5, <2>6 DEF Next, Thread
<1>3. Leftover => NothingStranded
  BY DEF Leftover, NothingStranded
<1>4. QED
  BY <1>1, <1>2, <1>3, Invariance, PTL DEF Spec

-------------------------------------------------------------------------------
(* Without a layer, with an event loop library that does not dispatch a    *)
(* handler during its own callback, and with a buffer longer than what the *)
(* server sends before it is asked for an update: a read of the socket     *)
(* then only fails at the end of the stream.                               *)

Sound == Layer = "none" /\ AmlReentrant = FALSE /\ FirstReply <= BufSize

(* A full buffer or a read of nothing never happens to the handler of the  *)
(* VNC socket; the strengthening of StopsForAReason.                       *)
Prompt ==
  /\ absorbed = given
  /\ phase = "init" => sent < FirstReply
  /\ phase = "init" /\ pc = "handler" => pending = {}
  /\ pc \in {"first", "poll"} => pending = {}
  /\ pc = "dispatch" /\ "vnc" \in pending => given < sent \/ closed # "no"
  /\ phase = "run" /\ pc \in {"handler", "nested"} => "vnc" \notin pending
  /\ phase = "run" /\ pc = "nested" => buf = <<>>
  /\ pc \in {"first", "poll", "dispatch"} /\ do_run /\ buf # <<>> =>
       given < FirstReply

(* Under these assumptions the buffer has room whenever the socket is read *)
(* while the client is not about to stop.                                  *)
LEMMA Room ==
  ASSUME Sound, IInv, Prompt,
         \/ pc = "dispatch" /\ do_run
         \/ pc = "nested" /\ (phase = "init" \/ phase = "run")
  PROVE  Len(buf) < BufSize
<1>1. Len(buf) \in Nat /\ done \in Nat /\ given = done + Len(buf)
  BY Numbers DEF IInv, TypeOK, BytesInOrder
<1>2. CASE buf = <<>>
  BY <1>2, LoopAssumption
<1>3. CASE buf # <<>>
  <2>1. given < FirstReply
    <3>1. CASE phase = "init" /\ pc = "nested"
      BY <3>1, LoopAssumption, Numbers DEF Prompt, IInv, Flow, TypeOK
    <3>2. CASE ~(phase = "init" /\ pc = "nested")
      BY <1>3, <3>2 DEF Prompt
    <3>3. QED
      BY <3>1, <3>2
  <2>2. QED
    BY <1>1, <2>1, LoopAssumption, Numbers DEF Sound, IInv, TypeOK
<1>4. QED
  BY <1>2, <1>3

(* What a read does to the counters under these assumptions.               *)
LEMMA PlainRead ==
  ASSUME Sound, IInv, Prompt, ReadOk \/ ReadFails
  PROVE  absorbed' = given'
<1>1. CASE ReadSome
  <2>1. Layer = "none" /\ given < sent
    BY <1>1 DEF Sound, ReadSome, Readable
  <2>2. PlainTo = MinOf(sent, given + BufSize - Len(buf)) /\ Len(buf) # BufSize
    BY <1>1, <2>1 DEF PlainTo, ReadSome
  <2>3. Len(buf) \in Nat /\ Len(buf) < BufSize
    BY <2>2, Numbers DEF IInv, TypeOK
  <2>4. /\ PlainTo > given /\ PlainTo - given <= BufSize - Len(buf)
        /\ PlainTo \in Int
    BY <2>1, <2>2, <2>3, Numbers DEF MinOf, IInv, TypeOK
  <2>5. given' = given + MinOf(PlainTo - given, BufSize - Len(buf))
    BY <1>1 DEF ReadSome
  <2>6. given' = PlainTo
    BY <2>3, <2>4, <2>5, Numbers DEF MinOf, IInv, TypeOK
  <2>7. absorbed' = PlainTo
    BY <1>1, <2>4 DEF ReadSome, Prompt
  <2>8. QED
    BY <2>6, <2>7
<1>2. CASE ReadNothing
  BY <1>2 DEF ReadNothing, Sound, Prompt, rx
<1>3. CASE ReadFails
  BY <1>3 DEF ReadFails, Prompt, layer, rx
<1>4. QED
  BY <1>1, <1>2, <1>3 DEF ReadOk

(* A reason to stop does not go away.                                      *)
LEMMA ReasonStays ==
  ASSUME IInv, Next, Reason
  PROVE  Reason'
<1> USE DEF net, layer, rx, msg, env, IInv
<1>1. CASE GaveUp
  <2>1. pc \notin {"handler", "nested", "first"}
    BY <1>1 DEF GaveUp, Control, TypeOK
  <2>2. /\ pc = "dispatch" => "vnc" \notin pending
        /\ pc = "poll" => ~do_run
    BY <1>1, <2>1 DEF GaveUp, Control, TypeOK
  <2>3. UNCHANGED <<lock, need, head, phase>>
    <3>1. CASE Server \/ World
      BY <3>1 DEF Server, World, ServerSend, ServerClose, CompositorSends,
                  CompositorGone, UserCloses, Interrupt
    <3>2. CASE Loop \/ DispatchSignal \/ DispatchWayland
      BY <3>2 DEF Loop, Poll, LoopTest, NestedPoll, FirstDispatch, DispatchSignal,
                  DispatchWayland
    <3>3. ~Handler /\ ~NestedRead /\ ~NestedReadFails
      BY <2>1 DEF Handler, StartRead, CopyOut, InitDone, NextMessage,
                  ProcessReturns, HandlerFails, MessageRead, NestedRead,
                  NestedReadFails
    <3>4. ~Vnc
      BY <2>1, <2>2 DEF Vnc, ProcessFails, ProcessLocked, ProcessMessages,
                        ProcessEmpty, TakeVnc, Dispatching
    <3>5. QED
      BY <3>1, <3>2, <3>3, <3>4 DEF Next, Thread
  <2>4. QED
    BY <1>1, <2>3 DEF GaveUp, Reason
<1>2. CASE ~GaveUp
  <2>1. /\ closed # "no" => closed' # "no"
        /\ wl = "gone" => wl' = "gone"
        /\ window = "closed" => window' = "closed"
        /\ sigint = "seen" => sigint' = "seen"
    <3>1. CASE Server \/ World
      BY <3>1 DEF Server, World, ServerSend, ServerClose, CompositorSends,
                  CompositorGone, UserCloses, Interrupt, Connected
    <3>2. CASE Loop \/ DispatchSignal \/ DispatchWayland
      BY <3>2, ListenersRun
         DEF Loop, Poll, LoopTest, NestedPoll, FirstDispatch, DispatchSignal,
             DispatchWayland
    <3>3. CASE Handler \/ NestedRead \/ NestedReadFails
      BY <3>3 DEF Handler, StartRead, CopyOut, InitDone, NextMessage,
                  ProcessReturns, HandlerFails, NestedRead, NestedReadFails
    <3>4. CASE Vnc
      BY <3>4 DEF Vnc, ProcessFails, ProcessLocked, ProcessMessages, ProcessEmpty
    <3>5. QED
      BY <3>1, <3>2, <3>3, <3>4 DEF Next, Thread
  <2>2. QED
    BY <1>2, <2>1 DEF Reason
<1>3. QED
  BY <1>1, <1>2

LEMMA VncPrompt ==
  ASSUME Sound, IInv, Prompt, StopsForAReason, Vnc
  PROVE  Prompt' /\ StopsForAReason'
<1> USE DEF net, msg, env
<1>0. Reason => Reason'
  BY ReasonStays DEF Next, Thread
<1>1. absorbed' = given' /\ UNCHANGED <<sent, closed>>
  BY PlainRead DEF Vnc, ProcessFails, ProcessLocked, ProcessMessages, ProcessEmpty
<1>2. /\ "vnc" \in pending /\ pending' = pending \ {"vnc"}
      /\ pc = "dispatch" \/ (pc = "nested" /\ phase = "init")
  BY DEF Vnc, ProcessFails, ProcessLocked, ProcessMessages, ProcessEmpty, TakeVnc,
         Dispatching, Prompt, IInv, TypeOK
<1>3. phase' = phase /\ UNCHANGED <<wl, sigint>>
  BY DEF Vnc, ProcessFails, ProcessLocked, ProcessMessages, ProcessEmpty
<1>4. CASE ProcessFails
  <2>1. buf' = buf /\ given' = given /\ pc' = pc /\ do_run' = FALSE
    BY <1>4 DEF ProcessFails, ReadFails, rx
  <2>2. ~do_run \/ closed # "no"
    <3>1. SUFFICES ASSUME do_run PROVE closed # "no"
      OBVIOUS
    <3>2. Len(buf) < BufSize
      BY <1>2, <3>1, Room
    <3>3. Len(buf) # BufSize
      BY <3>2, Numbers DEF IInv, TypeOK
    <3>4. QED
      BY <1>4, <3>3 DEF ProcessFails, ReadFails, EndOfStream, Sound
  <2>3. StopsForAReason'
    BY <1>0, <2>2 DEF StopsForAReason, Reason
  <2>4. Prompt'
    BY <1>1, <1>2, <1>3, <2>1 DEF Prompt
  <2>5. QED
    BY <2>3, <2>4
<1>5. CASE ProcessLocked
  <2>1. lock /\ UNCHANGED <<pc, do_run>>
    BY <1>5 DEF ProcessLocked
  <2>2. pc = "nested" /\ phase = "init"
    BY <1>2, <2>1 DEF IInv, Control
  <2>3. Prompt'
    BY <1>1, <1>2, <1>3, <2>1, <2>2 DEF Prompt
  <2>4. QED
    BY <1>0, <2>1, <2>3 DEF StopsForAReason
<1>6. CASE ProcessMessages
  <2>1. phase = "run"
    BY <1>2, <1>6 DEF ProcessMessages, IInv, Control, TypeOK
  <2>2. pc' = "handler" /\ UNCHANGED do_run
    BY <1>6 DEF ProcessMessages
  <2>3. Prompt'
    BY <1>1, <1>2, <1>3, <2>1, <2>2 DEF Prompt
  <2>4. QED
    BY <1>0, <2>2, <2>3 DEF StopsForAReason
<1>7. CASE ProcessEmpty
  <2>1. ~lock /\ buf' = <<>> /\ pc' = pc /\ do_run' \in {do_run, FALSE}
    BY <1>7 DEF ProcessEmpty
  <2>2. pc = "dispatch"
    BY <1>2, <2>1 DEF IInv, Control
  <2>3. ReadNothing => closed # "no"
    BY <1>2, <2>2 DEF Prompt, ReadNothing, Readable, Sound
  <2>4. ReadNothing => closed = "no"
    BY DEF ReadNothing, EndOfStream, Sound
  <2>5. ReadSome
    BY <1>7, <2>3, <2>4 DEF ProcessEmpty, ReadOk
  <2>6. given' \in Int /\ given' <= given
    <3>1. RxOK' /\ done' = done
      BY <1>1, <1>7, ReadIInv DEF ProcessEmpty
    <3>2. given' = done
      BY <2>1, <3>1, Numbers DEF RxOK, RxType, BytesInOrder
    <3>3. QED
      BY <3>2, Numbers DEF IInv, TypeOK, BytesInOrder
  <2>7. given < sent
    BY <2>5 DEF ReadSome, Readable, Sound
  <2>8. absorbed' > given
    <3>1. Len(buf) \in Nat /\ Len(buf) < BufSize
      BY <2>5, Numbers DEF ReadSome, IInv, TypeOK
    <3>2. PlainTo = MinOf(sent, given + BufSize - Len(buf))
      BY DEF PlainTo, Sound
    <3>3. PlainTo > given /\ PlainTo \in Int
      BY <2>7, <3>1, <3>2, Numbers DEF MinOf, IInv, TypeOK
    <3>4. QED
      BY <2>5, <3>3 DEF ReadSome, Prompt
  <2>9. QED
    BY <1>1, <2>6, <2>8, Numbers DEF IInv, TypeOK
<1>8. QED
  BY <1>4, <1>5, <1>6, <1>7 DEF Vnc

LEMMA NestedPrompt ==
  ASSUME Sound, IInv, Prompt, StopsForAReason, NestedRead \/ NestedReadFails
  PROVE  Prompt' /\ StopsForAReason'
<1> USE DEF net, msg, env
<1>0. Reason => Reason'
  BY ReasonStays DEF Next, Thread
<1>1. /\ absorbed' = given' /\ UNCHANGED <<sent, closed, wl, sigint, phase, pending>>
      /\ pc = "nested" /\ pending = {}
  BY PlainRead DEF NestedRead, NestedReadFails
<1>2. CASE NestedRead
  BY <1>0, <1>1, <1>2 DEF NestedRead, Prompt, StopsForAReason
<1>3. CASE NestedReadFails
  <2>1. Len(buf) < BufSize
    BY <1>1, Room DEF IInv, TypeOK
  <2>2. Len(buf) # BufSize
    BY <2>1, Numbers DEF IInv, TypeOK
  <2>3. closed # "no"
    BY <1>3, <2>2 DEF NestedReadFails, ReadFails, EndOfStream, Sound
  <2>4. StopsForAReason'
    BY <1>0, <2>3 DEF StopsForAReason, Reason
  <2>5. /\ phase = "init" => pc' = "exit"
        /\ phase = "run" => pc' = "dispatch" /\ do_run' = FALSE
        /\ phase \in {"init", "run"}
    BY <1>3 DEF NestedReadFails, IInv, TypeOK
  <2>6. Prompt'
    BY <1>1, <2>5 DEF Prompt
  <2>7. QED
    BY <2>4, <2>6
<1>4. QED
  BY <1>2, <1>3

LEMMA HandlerPrompt ==
  ASSUME Sound, IInv, Prompt, StopsForAReason, Handler
  PROVE  Prompt' /\ StopsForAReason'
<1> USE DEF net, layer, rx, msg, env
<1>0. Reason => Reason'
  BY ReasonStays DEF Next, Thread
<1>1. CASE StartRead
  BY <1>0, <1>1 DEF StartRead, Prompt, StopsForAReason
<1>2. CASE CopyOut
  BY <1>0, <1>2 DEF CopyOut, Prompt, StopsForAReason
<1>3. CASE InitDone
  <2>1. given < FirstReply
    BY <1>3, LoopAssumption, Numbers
       DEF InitDone, MessageRead, Prompt, IInv, TypeOK, Flow
  <2>2. QED
    BY <1>0, <1>3, <2>1 DEF InitDone, MessageRead, Prompt, StopsForAReason
<1>4. CASE NextMessage
  BY <1>0, <1>4 DEF NextMessage, MessageRead, Prompt, StopsForAReason
<1>5. CASE ProcessReturns
  BY <1>0, <1>5 DEF ProcessReturns, MessageRead, Prompt, StopsForAReason
<1>6. CASE HandlerFails
  <2>1. /\ UNCHANGED <<net, layer, rx, msg, env, phase, pending>>
        /\ phase = "init" => pc' = "exit"
        /\ phase = "run" => pc' = "dispatch" /\ do_run' = FALSE
        /\ phase \in {"init", "run"} /\ pc = "handler"
    BY <1>6 DEF HandlerFails, IInv, TypeOK
  <2>2. GaveUp'
    BY <1>6, <2>1 DEF HandlerFails, GaveUp, IInv, Control
  <2>3. Prompt'
    BY <2>1 DEF Prompt
  <2>4. QED
    BY <2>2, <2>3 DEF StopsForAReason, Reason
<1>7. QED
  BY <1>1, <1>2, <1>3, <1>4, <1>5, <1>6 DEF Handler

LEMMA LoopPrompt ==
  ASSUME Sound, IInv, Prompt, StopsForAReason, Loop \/ DispatchSignal \/ DispatchWayland
  PROVE  Prompt' /\ StopsForAReason'
<1> USE DEF net, layer, rx, msg, env, StopsForAReason
<1>0. Reason => Reason'
  BY ReasonStays DEF Next, Thread
<1>1. CASE Poll
  <2>1. phase = "run" /\ pending = {}
    BY <1>1 DEF Poll, IInv, Control, Prompt, TypeOK
  <2>2. "vnc" \in pending' => given < sent \/ closed # "no"
    BY <1>1, <2>1 DEF Poll, Emitted, Ready, Prompt, Running
  <2>3. QED
    BY <1>0, <1>1, <2>1, <2>2 DEF Poll, Prompt
<1>2. CASE LoopTest
  <2>1. CASE pc = "dispatch"
    BY <1>0, <1>2, <2>1 DEF LoopTest, Prompt
  <2>2. CASE pc = "poll"
    BY <1>0, <1>2, <2>2 DEF LoopTest, Prompt
  <2>3. QED
    BY <1>2, <2>1, <2>2 DEF LoopTest
<1>3. CASE NestedPoll
  <2>1. phase = "run" => "vnc" \notin pending'
    BY <1>3 DEF NestedPoll, Emitted, Running, Sound, Prompt
  <2>2. QED
    BY <1>0, <1>3, <2>1 DEF NestedPoll, Prompt
<1>4. CASE FirstDispatch
  <2>1. /\ UNCHANGED <<net, layer, rx, msg, sigint, phase, pending, lock>>
        /\ pc = "first" /\ pc' = "poll"
        /\ do_run' = do_run \/ (do_run' = FALSE /\ window' = "closed")
    BY <1>4, ListenersRun DEF FirstDispatch, IInv
  <2>2. Prompt'
    BY <2>1 DEF Prompt
  <2>3. QED
    BY <1>0, <2>1, <2>2 DEF Reason
<1>5. CASE DispatchSignal
  <2>1. Prompt'
    BY <1>5 DEF DispatchSignal, Dispatching, Prompt
  <2>2. QED
    BY <1>5, <2>1 DEF DispatchSignal, Reason
<1>6. CASE DispatchWayland
  <2>1. /\ UNCHANGED <<net, layer, rx, msg, sigint, phase, pc, lock>>
        /\ pending' \subseteq pending /\ Dispatching
        /\ \/ do_run' = do_run
           \/ do_run' = FALSE /\ (window' = "closed" \/ wl' = "gone")
    BY <1>6, ListenersRun DEF DispatchWayland, IInv
  <2>2. Prompt'
    BY <2>1 DEF Prompt, Dispatching
  <2>3. QED
    BY <1>0, <2>1, <2>2 DEF Reason
<1>7. QED
  BY <1>1, <1>2, <1>3, <1>4, <1>5, <1>6 DEF Loop

(* On a plain connection whose handshake fits the buffer, the client stops *)
(* only when the server closed the connection or sent something that it    *)
(* could not handle, the compositor went away, or the user closed the      *)
(* window or interrupted it.                                               *)
THEOREM NoSpuriousStop ==
  ASSUME Sound
  PROVE  Spec => []StopsForAReason
<1>1. Init => Prompt /\ StopsForAReason
  BY LoopAssumption, Numbers DEF Init, Prompt, StopsForAReason
<1>2. IInv /\ Prompt /\ StopsForAReason /\ [Next]_vars => Prompt' /\ StopsForAReason'
  <2> SUFFICES ASSUME IInv, Prompt, StopsForAReason, [Next]_vars
               PROVE  Prompt' /\ StopsForAReason'
    OBVIOUS
  <2>0. Next /\ Reason => Reason'
    BY ReasonStays
  <2>1. CASE ServerSend
    <3>1. sent' \in Nat /\ sent' > sent /\ (phase = "init" => sent' < FirstReply)
      BY <2>1, LoopAssumption, Numbers DEF ServerSend, IInv, TypeOK
    <3>2. /\ UNCHANGED <<closed, layer, rx, msg, env, phase, pc, pending, lock, do_run>>
          /\ given \in Nat /\ sent \in Nat
      BY <2>1, Numbers DEF ServerSend, IInv, TypeOK
    <3>3. QED
      <4>1. Prompt'
        BY <3>1, <3>2 DEF Prompt, layer, rx, env
      <4>2. QED
        BY <2>0, <2>1, <3>2, <4>1 DEF StopsForAReason, Next, Server
  <2>2. CASE ServerClose \/ World
    <3>1. /\ UNCHANGED <<sent, layer, rx, phase, pc, pending, lock, do_run>>
          /\ closed # "no" => closed' # "no"
      BY <2>2 DEF ServerClose, World, CompositorSends, CompositorGone, UserCloses, Interrupt, net
    <3>2. Prompt'
      BY <3>1 DEF Prompt, layer, rx
    <3>3. QED
      BY <2>0, <2>2, <3>1, <3>2 DEF StopsForAReason, Next, Server
  <2>3. CASE Loop \/ DispatchSignal \/ DispatchWayland
    BY <2>3, LoopPrompt
  <2>4. CASE Handler
    BY <2>4, HandlerPrompt
  <2>5. CASE Vnc
    BY <2>5, VncPrompt
  <2>6. CASE NestedRead \/ NestedReadFails
    BY <2>6, NestedPrompt
  <2>7. CASE UNCHANGED vars
    BY <2>7 DEF vars, net, layer, rx, msg, env, Prompt, StopsForAReason, Reason, GaveUp
  <2>8. QED
    BY <2>1, <2>2, <2>3, <2>4, <2>5, <2>6, <2>7 DEF Next, Thread, Server
<1>3. QED
  BY <1>1, <1>2, Invariance, PTL DEF Spec
===============================================================================
