--------------------------- MODULE UpdateLoopProofs ----------------------------
(***************************************************************************)
(* Proofs about UpdateLoop: for any sizes, any way of telling of them but   *)
(* the one that the client does not listen to, and any number of changes,   *)
(*   - requests are neither lost nor made up (RequestsConserved),           *)
(*   - no rectangle is taken for too large (RectsFit),                      *)
(*   - a pixel that is wrong will be sent (NothingForgotten).               *)
(*                                                                         *)
(* What holds when nothing is in flight says little of a pipeline.  The     *)
(* invariant is about each message in flight: which size it finds the       *)
(* client with, and which pixels the server, what follows it or a request   *)
(* still stand for once the client has taken it.                            *)
(***************************************************************************)
EXTENDS UpdateLoop, FiniteSetTheorems, SequenceTheorems, TLAPS

(* The client takes the size from an "extended" rectangle only if a screen  *)
(* in it has an id (HandleExtDesktopSize).                                  *)
Listens == "extended" \in Ways => ScreenIds

Tellings == Ways \cup {"none"}
Messages ==
  [resize : Tellings, size : Sizes, rects : SUBSET Pixels, fresh : SUBSET Pixels]
Requests == [incremental : BOOLEAN, area : Sizes]

TypeOK ==
  /\ size \in Sizes /\ width \in Sizes /\ rect \in Sizes /\ news \in Tellings
  /\ owed \in Nat /\ fulls \in Nat
  /\ toServer \in Seq(Requests) /\ toClient \in Seq(Messages)
  /\ pc \in {"idle", "update"}
  /\ changed \subseteq Area[size] /\ asked \subseteq Area[size] /\ wanted \subseteq Area[size]
  /\ outdated \subseteq Area[width]

(* The size that the client has when it has taken k of the messages.        *)
SizeAfter(k) == IF k = 0 THEN width ELSE toClient[k].size

(* No size is told of after the first k messages. *)
LastTold(k) ==
  news = "none" /\ \A i \in k + 1 .. Len(toClient) : toClient[i].resize = "none"

(* Every size is told before a pixel of it is sent. *)
SizesTold ==
  /\ \A i \in 1 .. Len(toClient) :
       /\ toClient[i].resize = "none" => toClient[i].size = SizeAfter(i - 1)
       /\ toClient[i].rects \subseteq Area[toClient[i].size]
       /\ toClient[i].fresh \subseteq toClient[i].rects
  /\ \A k \in 0 .. Len(toClient) : LastTold(k) => SizeAfter(k) = size

(* Will x be sent, without a request for it or with one, to a client that   *)
(* has taken the first k messages?                                          *)
Due(x, k) == x \in changed \/ \E i \in k + 1 .. Len(toClient) : x \in toClient[i].fresh
Asked(x) ==
  x \in wanted \/ \E i \in 1 .. Len(toServer) :
                    ~toServer[i].incremental /\ x \in Area[toServer[i].area]

(* What the client has wrong is on its way. *)
WrongDue == LastTold(0) => \A x \in outdated : Due(x, 0) \/ Asked(x)

(* So is what a rectangle brings that changed after it was sent.            *)
StaleDue ==
  \A i \in 1 .. Len(toClient) : LastTold(i) =>
    \A x \in toClient[i].rects \ toClient[i].fresh : Due(x, i)

(* A size that the client does not ask for a picture of is followed by one. *)
NewSizeDue ==
  /\ news = "extended" => Area[size] \subseteq changed
  /\ \A i \in 1 .. Len(toClient) : LastTold(i) /\ toClient[i].resize = "extended" =>
       \A x \in Area[size] : Due(x, i - 1) \/ Asked(x)

UpdateInv ==
  TypeOK /\ SizesTold /\ WrongDue /\ StaleDue /\ NewSizeDue /\ RequestsConserved

-------------------------------------------------------------------------------
(* What the server sends: news of a size if there are any, and pixels.      *)
LEMMA Sends ==
  ASSUME UpdateInv, NEW R \in SUBSET Area[size],
         toClient' = Append(toClient, [resize |-> news, size |-> size, rects |-> R, fresh |-> R]),
         changed' = changed \ R, wanted' = wanted \ R, news' = "none",
         UNCHANGED <<size, toServer, width, outdated>>
  PROVE  /\ toClient' \in Seq(Messages)
         /\ SizesTold' /\ WrongDue' /\ StaleDue' /\ NewSizeDue'
<1> DEFINE n == Len(toClient)
           m == [resize |-> news, size |-> size, rects |-> R, fresh |-> R]
<1>1. toClient \in Seq(Messages) /\ size \in Sizes /\ news \in Tellings /\ n \in Nat
  BY DEF UpdateInv, TypeOK
<1>2. m \in Messages
  BY <1>1 DEF Messages, Pixels
<1>3. /\ toClient' \in Seq(Messages) /\ Len(toClient') = n + 1
      /\ \A i \in 1 .. n : toClient'[i] = toClient[i]
      /\ toClient'[n + 1] = m
  <2>1. toClient' = Append(toClient, m)
    OBVIOUS
  <2> HIDE DEF m
  <2>2. QED
    BY <1>1, <1>2, <2>1, AppendProperties
<1> HIDE DEF n
<1>4. \A k \in 0 .. n : LastTold(k)' => LastTold(k)
  BY <1>1, <1>3 DEF LastTold, n
<1>5. \A x, k : k \in 0 .. n /\ (Due(x, k) \/ x \in R) => Due(x, k)'
  BY <1>1, <1>3 DEF Due, n
<1>6. \A x : Asked(x) => Asked(x)' \/ x \in R
  BY DEF Asked
<1>7. SizesTold'
  BY <1>1, <1>3, <1>4 DEF UpdateInv, SizesTold, SizeAfter, n, LastTold
<1>8. WrongDue'
  BY <1>1, <1>4, <1>5, <1>6 DEF UpdateInv, WrongDue
<1>9. StaleDue'
  BY <1>1, <1>3, <1>4, <1>5 DEF UpdateInv, StaleDue, n
<1>10. NewSizeDue'
  <2>1. ASSUME NEW i \in 1 .. n + 1, LastTold(i)', toClient'[i].resize = "extended",
               NEW x \in Area[size]
        PROVE  Due(x, i - 1)' \/ Asked(x)'
    <3>1. CASE i \in 1 .. n
      BY <1>1, <1>3, <1>4, <1>5, <1>6, <2>1, <3>1 DEF UpdateInv, NewSizeDue, n
    <3>2. CASE i = n + 1
      <4>1. x \in changed
        BY <1>3, <2>1, <3>2 DEF UpdateInv, NewSizeDue
      <4>2. Due(x, n)
        BY <4>1 DEF Due
      <4>3. QED
        BY <1>1, <1>5, <3>2, <4>2
    <3>3. QED
      BY <1>1, <3>1, <3>2
  <2>2. QED
    BY <1>3, <2>1 DEF NewSizeDue
<1>11. QED
  BY <1>3, <1>7, <1>8, <1>9, <1>10

-------------------------------------------------------------------------------
(* What the client takes. *)
LEMMA Head1 ==
  ASSUME UpdateInv, Listens, toClient # <<>>
  PROVE  LET m == Head(toClient)
         IN /\ m \in Messages /\ m = toClient[1] /\ NewWidth(m) = m.size
            /\ Wrong(m) \subseteq Area[m.size]
            /\ m.resize \notin {"desktop", "extended", "resize"} =>
                 m.resize = "none" /\ Wrong(m) = outdated
            /\ m.fresh \subseteq m.rects /\ m.rects \subseteq Area[m.size]
            /\ Len(toClient) \in Nat \ {0}
            /\ Tail(toClient) \in Seq(Messages) /\ Len(Tail(toClient)) = Len(toClient) - 1
            /\ \A i \in 1 .. Len(toClient) - 1 : Tail(toClient)[i] = toClient[i + 1]
<1> DEFINE m == Head(toClient)
<1>1. /\ toClient \in Seq(Messages) /\ m \in Messages /\ m = toClient[1]
      /\ Len(toClient) \in Nat \ {0}
      /\ Tail(toClient) \in Seq(Messages) /\ Len(Tail(toClient)) = Len(toClient) - 1
      /\ \A i \in 1 .. Len(toClient) - 1 : Tail(toClient)[i] = toClient[i + 1]
  BY HeadTailProperties, EmptySeq DEF UpdateInv, TypeOK
<1> HIDE DEF m
<1>2. /\ m.fresh \subseteq m.rects /\ m.rects \subseteq Area[m.size]
      /\ m.resize = "none" => m.size = width
  BY <1>1 DEF UpdateInv, SizesTold, SizeAfter
<1>3. m.resize \in {"desktop", "extended", "resize", "none"}
  BY <1>1, UpdateAssumption DEF Messages, Tellings
<1>4. m.resize = "extended" => ScreenIds
  BY <1>1 DEF Messages, Tellings, Listens
<1>5. NewWidth(m) = m.size /\ Wrong(m) \subseteq Area[m.size]
  BY <1>2, <1>3, <1>4 DEF NewWidth, Wrong, Resizes, UpdateInv, TypeOK
<1>6. m.resize = "none" => Wrong(m) = outdated
  BY DEF Wrong, Resizes
<1>7. QED
  BY <1>1, <1>2, <1>3, <1>5, <1>6 DEF m

LEMMA Takes ==
  ASSUME UpdateInv, Listens, toClient # <<>>, TakeMessage(Head(toClient)),
         LET m == Head(toClient)
         IN /\ outdated' \subseteq Area[m.size]
            /\ FullRequest(m) \/ outdated' = (Wrong(m) \ m.rects) \cup (m.rects \ m.fresh)
  PROVE  SizesTold' /\ WrongDue' /\ StaleDue' /\ NewSizeDue'
<1> DEFINE n == Len(toClient)
           m == Head(toClient)
<1>1. /\ m \in Messages /\ m = toClient[1] /\ Wrong(m) \subseteq Area[m.size]
      /\ m.resize \notin {"desktop", "extended", "resize"} =>
           m.resize = "none" /\ Wrong(m) = outdated
      /\ m.fresh \subseteq m.rects /\ m.rects \subseteq Area[m.size]
      /\ n \in Nat \ {0} /\ Len(toClient') = n - 1
      /\ \A i \in 1 .. n - 1 : toClient'[i] = toClient[i + 1]
      /\ width' = m.size /\ UNCHANGED <<size, changed, news, asked, wanted>>
      /\ toServer' = IF FullRequest(m) THEN Append(toServer, Request(FALSE, m.size)) ELSE toServer
  BY Head1 DEF TakeMessage, server
<1>2. /\ outdated' \subseteq Area[m.size]
      /\ FullRequest(m) \/ outdated' = (Wrong(m) \ m.rects) \cup (m.rects \ m.fresh)
  OBVIOUS
<1> HIDE DEF m, n
<1>3. ASSUME NEW k \in 0 .. n - 1, LastTold(k)'
      PROVE  LastTold(k + 1)
  <2>1. ASSUME NEW i \in (k + 1) + 1 .. n
        PROVE  toClient[i].resize = "none"
    <3>1. i - 1 \in k + 1 .. n - 1 /\ i - 1 \in 1 .. n - 1 /\ (i - 1) + 1 = i
      BY <1>1
    <3>2. toClient'[i - 1].resize = "none"
      BY <1>1, <1>3, <3>1 DEF LastTold
    <3>3. QED
      BY <1>1, <3>1, <3>2
  <2>2. QED
    BY <1>1, <1>3, <2>1 DEF LastTold, n
<1>4. ASSUME NEW x, NEW k \in 0 .. n - 1, Due(x, k + 1)
      PROVE  Due(x, k)'
  <2>1. CASE x \in changed
    BY <1>1, <2>1 DEF Due
  <2>2. ASSUME NEW i \in (k + 1) + 1 .. n, x \in toClient[i].fresh
        PROVE  Due(x, k)'
    <3>1. i - 1 \in k + 1 .. n - 1 /\ i - 1 \in 1 .. n - 1 /\ (i - 1) + 1 = i
      BY <1>1
    <3>2. x \in toClient'[i - 1].fresh
      BY <1>1, <2>2, <3>1
    <3>3. QED
      BY <1>1, <3>1, <3>2 DEF Due
  <2>3. QED
    BY <1>4, <2>1, <2>2 DEF Due, n
<1>5. /\ toServer \in Seq(Requests)
      /\ FullRequest(m) =>
           /\ Len(toServer') = Len(toServer) + 1
           /\ \A i \in 1 .. Len(toServer) : toServer'[i] = toServer[i]
           /\ toServer'[Len(toServer) + 1] = Request(FALSE, m.size)
  BY <1>1, AppendProperties DEF UpdateInv, TypeOK, Requests, Request, Messages
<1>6. Len(toServer) \in Nat
  BY <1>5
<1>7. ASSUME NEW x, Asked(x)
      PROVE  Asked(x)'
  <2>1. CASE FullRequest(m)
    <3>1. \A i \in 1 .. Len(toServer) : i \in 1 .. Len(toServer') /\ toServer'[i] = toServer[i]
      BY <1>5, <1>6, <2>1
    <3>2. QED
      BY <1>1, <1>7, <3>1 DEF Asked
  <2>2. CASE ~FullRequest(m)
    BY <1>1, <1>7, <2>2 DEF Asked
  <2>3. QED
    BY <2>1, <2>2
<1>8. SizesTold'
  <2>1. \A k \in 0 .. n - 1 : SizeAfter(k)' = SizeAfter(k + 1)
    BY <1>1 DEF SizeAfter
  <2>2. ASSUME NEW i \in 1 .. n - 1
        PROVE  /\ toClient'[i].resize = "none" => toClient'[i].size = SizeAfter(i - 1)'
               /\ toClient'[i].rects \subseteq Area[toClient'[i].size]
               /\ toClient'[i].fresh \subseteq toClient'[i].rects
    <3>1. SizeAfter(i - 1)' = SizeAfter(i) /\ toClient'[i] = toClient[i + 1]
      BY <1>1, <2>1
    <3>2. i + 1 \in 1 .. n /\ (i + 1) - 1 = i
      BY <1>1
    <3>3. QED
      BY <3>1, <3>2 DEF UpdateInv, SizesTold, n
  <2>3. ASSUME NEW k \in 0 .. n - 1, LastTold(k)'
        PROVE  SizeAfter(k)' = size'
    <3>1. LastTold(k + 1) /\ k + 1 \in 0 .. n
      BY <1>1, <1>3, <2>3
    <3>2. QED
      BY <1>1, <2>1, <3>1 DEF UpdateInv, SizesTold, n
  <2>4. QED
    BY <1>1, <2>2, <2>3 DEF SizesTold
<1>9. WrongDue'
  <2> SUFFICES ASSUME LastTold(0)', NEW x \in outdated'
               PROVE  Due(x, 0)' \/ Asked(x)'
    BY DEF WrongDue
  <2>1. LastTold(1) /\ 1 \in 1 .. n
    BY <1>1, <1>3
  <2>2. SizeAfter(1) = size /\ m.size = size
    BY <1>1, <2>1 DEF UpdateInv, SizesTold, SizeAfter, n
  <2>3. Due(x, 1) => Due(x, 0)'
    BY <1>1, <1>4
  <2>4. CASE FullRequest(m)
    BY <1>1, <1>2, <1>5, <1>6, <2>4 DEF Asked, Request
  <2>5. CASE ~FullRequest(m)
    <3>1. x \in (Wrong(m) \ m.rects) \cup (m.rects \ m.fresh) /\ x \notin m.fresh
      BY <1>1, <1>2, <2>5
    <3>2. Due(x, 0) => Due(x, 1)
      BY <1>1, <3>1 DEF Due, n
    <3>3. CASE m.resize = "extended"
      <4>1. Due(x, 0) \/ Asked(x)
        BY <1>1, <1>2, <2>1, <2>2, <3>3 DEF UpdateInv, NewSizeDue, n
      <4>2. QED
        BY <1>7, <2>3, <3>2, <4>1
    <3>4. CASE m.resize # "extended"
      <4>1. m.resize = "none" /\ Wrong(m) = outdated
        BY <1>1, <2>5, <3>4 DEF FullRequest
      <4>2. LastTold(0)
        BY <1>1, <2>1, <4>1 DEF LastTold
      <4>3. CASE x \in m.rects
        BY <1>1, <2>1, <2>3, <3>1, <4>3 DEF UpdateInv, StaleDue, n
      <4>4. CASE x \notin m.rects
        BY <1>7, <2>3, <3>1, <3>2, <4>1, <4>2, <4>4 DEF UpdateInv, WrongDue
      <4>5. QED
        BY <4>3, <4>4
    <3>5. QED
      BY <3>3, <3>4
  <2>6. QED
    BY <2>4, <2>5
<1>10. StaleDue'
  <2> SUFFICES ASSUME NEW i \in 1 .. n - 1, LastTold(i)',
                      NEW x \in toClient'[i].rects \ toClient'[i].fresh
               PROVE  Due(x, i)'
    BY <1>1 DEF StaleDue
  <2>1. LastTold(i + 1) /\ i + 1 \in 1 .. n /\ toClient'[i] = toClient[i + 1]
    BY <1>1, <1>3
  <2>2. Due(x, i + 1)
    BY <2>1 DEF UpdateInv, StaleDue, n
  <2>3. QED
    BY <1>1, <1>4, <2>2
<1>11. NewSizeDue'
  <2>1. news' = "extended" => Area[size'] \subseteq changed'
    BY <1>1 DEF UpdateInv, NewSizeDue
  <2>2. ASSUME NEW i \in 1 .. n - 1, LastTold(i)', toClient'[i].resize = "extended",
               NEW x \in Area[size']
        PROVE  Due(x, i - 1)' \/ Asked(x)'
    <3>1. LastTold(i + 1) /\ i + 1 \in 1 .. n /\ toClient'[i] = toClient[i + 1]
          /\ (i + 1) - 1 = (i - 1) + 1
      BY <1>1, <1>3, <2>2
    <3>2. Due(x, (i - 1) + 1) \/ Asked(x)
      BY <1>1, <2>2, <3>1 DEF UpdateInv, NewSizeDue, n
    <3>3. QED
      BY <1>1, <1>4, <1>7, <3>2
  <2>3. QED
    BY <1>1, <2>1, <2>2 DEF NewSizeDue
<1>12. QED
  BY <1>8, <1>9, <1>10, <1>11

-------------------------------------------------------------------------------
(* Counting the messages that the client answers with a request. *)

Answered(s) == {i \in DOMAIN s : s[i].resize # "resize"}
One(m) == IF m.resize # "resize" THEN 1 ELSE 0

LEMMA AnsweredFinite ==
  ASSUME NEW s \in Seq(Messages)
  PROVE  IsFiniteSet(Answered(s)) /\ Cardinality(Answered(s)) \in Nat
<1>1. Answered(s) \in SUBSET (1 .. Len(s)) /\ Len(s) \in Nat
  BY DEF Answered
<1>2. IsFiniteSet(1 .. Len(s))
  BY <1>1, FS_Interval
<1>3. IsFiniteSet(Answered(s))
  BY <1>1, <1>2, FS_Subset
<1>4. QED
  BY <1>3, FS_CardinalityType

LEMMA AnsweredAppend ==
  ASSUME NEW s \in Seq(Messages), NEW m \in Messages
  PROVE  Cardinality(Answered(Append(s, m))) = Cardinality(Answered(s)) + One(m)
<1> DEFINE n == Len(s)
           t == Append(s, m)
<1>1. /\ n \in Nat /\ DOMAIN s = 1 .. n /\ DOMAIN t = 1 .. n + 1
      /\ \A i \in 1 .. n : t[i] = s[i]
      /\ t[n + 1] = m
  BY AppendProperties
<1>2. n + 1 \notin Answered(s)
  BY <1>1 DEF Answered
<1>3. CASE m.resize # "resize"
  <2>1. Answered(t) = Answered(s) \cup {n + 1}
    <3> HIDE DEF t, n
    <3>1. QED BY <1>1, <1>3 DEF Answered
  <2>2. QED
    BY <1>2, <1>3, <2>1, AnsweredFinite, FS_AddElement DEF One
<1>4. CASE m.resize = "resize"
  <2>1. Answered(t) = Answered(s)
    <3> HIDE DEF t, n
    <3>1. QED BY <1>1, <1>4 DEF Answered
  <2>2. QED
    BY <1>4, <2>1, AnsweredFinite DEF One
<1>5. QED
  BY <1>3, <1>4

LEMMA AnsweredTail ==
  ASSUME NEW s \in Seq(Messages), s # <<>>
  PROVE  Cardinality(Answered(s)) = Cardinality(Answered(Tail(s))) + One(Head(s))
<1> DEFINE n == Len(s)
           t == Tail(s)
           A == Answered(s) \ {1}
           B == Answered(t)
           f == [i \in B |-> i + 1]
<1>1. /\ n \in Nat \ {0} /\ DOMAIN s = 1 .. n /\ t \in Seq(Messages) /\ DOMAIN t = 1 .. n - 1
      /\ \A i \in 1 .. n - 1 : t[i] = s[i + 1]
      /\ Head(s) = s[1]
  BY HeadTailProperties, EmptySeq
<1>2. B \subseteq 1 .. n - 1 /\ A \subseteq 2 .. n
  BY <1>1 DEF Answered
<1>3. \A i \in 1 .. n - 1 : i \in B <=> i + 1 \in A
  <2> HIDE DEF n, t
  <2>1. QED BY <1>1 DEF Answered
<1>4. f \in Bijection(B, A)
  <2> HIDE DEF A, B, n
  <2>1. f \in [B -> A]
    BY <1>2, <1>3
  <2>2. \A i, j \in B : f[i] = f[j] => i = j
    BY <1>2
  <2>3. ASSUME NEW j \in A PROVE \E i \in B : f[i] = j
    <3>1. j - 1 \in 1 .. n - 1 /\ (j - 1) + 1 = j
      BY <1>1, <1>2
    <3>2. j - 1 \in B
      BY <1>3, <3>1
    <3>3. QED
      BY <3>1, <3>2
  <2>4. QED
    BY <2>1, <2>2, <2>3 DEF Bijection, Injection, Surjection, IsInjective
<1>5. Cardinality(A) = Cardinality(B)
  <2>1. IsFiniteSet(B)
    BY <1>1, AnsweredFinite
  <2> HIDE DEF A, B, f
  <2>2. QED
    BY <1>4, <2>1, FS_Bijection DEF ExistsBijection
<1>6. /\ Cardinality(A) = IF 1 \in Answered(s) THEN Cardinality(Answered(s)) - 1
                                               ELSE Cardinality(Answered(s))
      /\ Cardinality(Answered(s)) \in Nat
  BY AnsweredFinite, FS_RemoveElement
<1>7. 1 \in Answered(s) <=> Head(s).resize # "resize"
  BY <1>1 DEF Answered
<1>8. QED
  BY <1>5, <1>6, <1>7 DEF One

-------------------------------------------------------------------------------
(* Every step keeps the invariant. *)

LEMMA UpdateInitially == Init => UpdateInv
<1> SUFFICES ASSUME Init PROVE UpdateInv
  OBVIOUS
<1> USE UpdateAssumption DEF Init
<1>1. Request(FALSE, FirstSize) \in Requests /\ Request(TRUE, FirstSize) \in Requests
  BY DEF Request, Requests
<1>2. /\ toServer \in Seq(Requests) /\ Len(toServer) = 3
      /\ toServer[1] = Request(FALSE, FirstSize)
  <2>1. ASSUME NEW S, NEW a \in S, NEW b \in S
        PROVE  /\ <<a, b, b>> \in Seq(S) /\ Len(<<a, b, b>>) = 3
               /\ <<a, b, b>>[1] = a
    OBVIOUS
  <2>2. QED
    BY <1>1, <2>1
<1>3. toClient \in Seq(Messages) /\ Len(toClient) = 0
  BY EmptySeq
<1>4. TypeOK
  BY <1>2, <1>3 DEF TypeOK, Tellings
<1>5. SizesTold /\ StaleDue /\ NewSizeDue
  BY <1>3 DEF SizesTold, StaleDue, NewSizeDue, SizeAfter
<1>6. WrongDue
  BY <1>2 DEF WrongDue, Asked, Request
<1>7. RequestsConserved
  <2>1. Cardinality(Answered(toClient)) = 0
    <3>1. Answered(toClient) = {}
      BY DEF Answered
    <3>2. QED
      BY <3>1, FS_EmptySet
  <2>2. QED
    BY <1>2, <2>1 DEF RequestsConserved, Unanswered, Answered
<1>8. QED
  BY <1>4, <1>5, <1>6, <1>7 DEF UpdateInv

LEMMA PictureChangesKept ==
  ASSUME UpdateInv, NEW p \in SUBSET Pixels, PictureChanges(p)
  PROVE  UpdateInv'
<1> USE DEF PictureChanges
<1> DEFINE n == Len(toClient)
<1>1. toClient \in Seq(Messages) /\ n \in Nat /\ toClient \in [1 .. n -> Messages]
      /\ DOMAIN toClient = 1 .. n
  BY LenProperties DEF UpdateInv, TypeOK
<1>2. \A i \in 1 .. n : /\ toClient'[i] = [toClient[i] EXCEPT !.fresh = @ \ p]
                        /\ toClient'[i] \in Messages
  BY <1>1 DEF Outdated, Messages
<1>3. \A i \in 1 .. n : /\ toClient'[i].resize = toClient[i].resize
                        /\ toClient'[i].size = toClient[i].size
                        /\ toClient'[i].rects = toClient[i].rects
                        /\ toClient'[i].fresh = toClient[i].fresh \ p
  BY <1>1, <1>2 DEF Messages
<1>4. toClient' \in Seq(Messages) /\ Len(toClient') = n
  <2>1. toClient' \in [1 .. n -> Messages]
    BY <1>1, <1>2 DEF Outdated
  <2>2. QED
    BY <1>1, <2>1, SeqDef
<1> HIDE DEF n
<1>5. TypeOK'
  BY <1>4 DEF UpdateInv, TypeOK
<1>6. \A k \in 0 .. n : (LastTold(k)' <=> LastTold(k)) /\ SizeAfter(k)' = SizeAfter(k)
  BY <1>1, <1>3, <1>4 DEF LastTold, SizeAfter, n
<1>7. \A x, k : k \in 0 .. n /\ (Due(x, k) \/ x \in p) => Due(x, k)'
  BY <1>1, <1>3, <1>4 DEF Due, n
<1>8. \A x : Asked(x)' <=> Asked(x)
  BY DEF Asked
<1>9. SizesTold'
  BY <1>1, <1>3, <1>4, <1>6 DEF UpdateInv, SizesTold, n
<1>10. WrongDue'
  BY <1>1, <1>6, <1>7, <1>8 DEF UpdateInv, WrongDue
<1>11. StaleDue'
  BY <1>1, <1>3, <1>4, <1>6, <1>7 DEF UpdateInv, StaleDue, n
<1>12. NewSizeDue'
  BY <1>1, <1>3, <1>4, <1>6, <1>7, <1>8 DEF UpdateInv, NewSizeDue, n
<1>13. RequestsConserved'
  <2>1. Answered(toClient') = Answered(toClient)
    BY <1>1, <1>3, <1>4 DEF Answered
  <2>2. QED
    BY <2>1 DEF UpdateInv, RequestsConserved, Unanswered, Answered
<1>14. QED
  BY <1>5, <1>9, <1>10, <1>11, <1>12, <1>13 DEF UpdateInv

LEMMA ScreenResizesKept ==
  ASSUME UpdateInv, NEW s \in Sizes, NEW way \in Ways, ScreenResizes(s, way)
  PROVE  UpdateInv'
<1> USE DEF ScreenResizes, client
<1>1. TypeOK'
  BY DEF UpdateInv, TypeOK, Tellings
<1>2. news' # "none"
  BY UpdateAssumption
<1>3. SizesTold' /\ WrongDue' /\ StaleDue' /\ NewSizeDue'
  BY <1>2 DEF UpdateInv, SizesTold, SizeAfter, WrongDue, StaleDue, NewSizeDue, LastTold
<1>4. RequestsConserved'
  BY DEF UpdateInv, RequestsConserved, Unanswered
<1>5. QED
  BY <1>1, <1>3, <1>4 DEF UpdateInv

LEMMA ServerReceivesKept ==
  ASSUME UpdateInv, ServerReceives
  PROVE  UpdateInv'
<1> USE DEF ServerReceives, client, bounds
<1> DEFINE n == Len(toServer)
           r == Head(toServer)
<1>1. /\ toServer \in Seq(Requests) /\ r \in Requests /\ r = toServer[1] /\ n \in Nat \ {0}
      /\ toServer' \in Seq(Requests) /\ Len(toServer') = n - 1
      /\ \A i \in 1 .. n - 1 : toServer'[i] = toServer[i + 1]
  BY HeadTailProperties, EmptySeq DEF UpdateInv, TypeOK
<1>2. TypeOK'
  BY <1>1 DEF UpdateInv, TypeOK
<1>3. ASSUME NEW x \in Area[size], Asked(x)
      PROVE  Asked(x)'
  <2>1. CASE x \in wanted
    BY <2>1 DEF Asked
  <2>2. ASSUME NEW i \in 1 .. n, ~toServer[i].incremental, x \in Area[toServer[i].area]
        PROVE  Asked(x)'
    <3>1. CASE i = 1
      BY <1>1, <1>3, <2>2, <3>1 DEF Asked
    <3>2. CASE i # 1
      <4>1. i - 1 \in 1 .. n - 1 /\ (i - 1) + 1 = i
        BY <1>1, <3>2
      <4>2. QED
        BY <1>1, <2>2, <4>1 DEF Asked
    <3>3. QED
      BY <3>1, <3>2
  <2>3. QED
    BY <1>3, <2>1, <2>2 DEF Asked
<1>4. SizesTold'
  BY DEF UpdateInv, SizesTold, SizeAfter, LastTold
<1>5. WrongDue'
  <2>1. LastTold(0) => width = size
    BY DEF UpdateInv, TypeOK, SizesTold, SizeAfter
  <2>2. QED
    BY <1>3, <2>1 DEF UpdateInv, TypeOK, WrongDue, LastTold, Due
<1>6. StaleDue'
  BY DEF UpdateInv, StaleDue, LastTold, Due
<1>7. NewSizeDue'
  BY <1>3 DEF UpdateInv, NewSizeDue, LastTold, Due
<1>8. RequestsConserved'
  <2>1. Unanswered' = Unanswered
    BY DEF Unanswered
  <2>2. owed' + Len(toServer') = owed + Len(toServer)
    BY <1>1 DEF UpdateInv, TypeOK
  <2>3. QED
    BY <2>1, <2>2 DEF UpdateInv, RequestsConserved
<1>9. QED
  BY <1>2, <1>4, <1>5, <1>6, <1>7, <1>8 DEF UpdateInv

LEMMA ServerUpdatesKept ==
  ASSUME UpdateInv, ServerUpdates
  PROVE  UpdateInv'
<1> USE DEF ServerUpdates, client, bounds
<1>1. PICK R \in {wanted \cup (changed \cap asked), {}} :
        /\ toClient' = Append(toClient,
             [resize |-> news, size |-> size, rects |-> R, fresh |-> R])
        /\ changed' = changed \ R /\ wanted' = wanted \ R
  BY DEF ServerUpdates
<1>2. R \in SUBSET Area[size]
  BY DEF UpdateInv, TypeOK
<1>3. toClient' \in Seq(Messages) /\ SizesTold' /\ WrongDue' /\ StaleDue' /\ NewSizeDue'
  BY <1>1, <1>2, Sends
<1>4. owed' \in Nat /\ (counting => owed' = owed - 1)
  BY DEF UpdateInv, TypeOK
<1>5. TypeOK'
  BY <1>1, <1>3, <1>4 DEF UpdateInv, TypeOK, Tellings
<1>6. RequestsConserved'
  <2> DEFINE m == [resize |-> news, size |-> size, rects |-> R, fresh |-> R]
  <2>1. m \in Messages /\ toClient \in Seq(Messages) /\ One(m) = 1
    BY <1>2 DEF UpdateInv, TypeOK, Messages, Pixels, One
  <2>2. toClient' = Append(toClient, m)
    BY <1>1
  <2> HIDE DEF m
  <2>3. /\ Cardinality(Answered(toClient')) = Cardinality(Answered(toClient)) + 1
        /\ Cardinality(Answered(toClient)) \in Nat
    BY <2>1, <2>2, AnsweredAppend, AnsweredFinite
  <2>4. /\ Unanswered = Cardinality(Answered(toClient)) + (IF pc = "update" THEN 1 ELSE 0)
        /\ Unanswered' = Cardinality(Answered(toClient')) + (IF pc = "update" THEN 1 ELSE 0)
    BY DEF Unanswered, Answered
  <2>5. Len(toServer) \in Nat /\ owed \in Nat
        /\ Unanswered' = Unanswered + 1 /\ Unanswered \in Nat
    BY <2>3, <2>4 DEF UpdateInv, TypeOK
  <2>6. counting => owed' + Len(toServer) + Unanswered' = 3 + fulls
    BY <1>4, <2>5 DEF UpdateInv, RequestsConserved
  <2>7. QED
    BY <2>6 DEF RequestsConserved
<1>7. QED
  BY <1>3, <1>5, <1>6 DEF UpdateInv

LEMMA ServerSendsResizeKept ==
  ASSUME UpdateInv, ServerSendsResize
  PROVE  UpdateInv'
<1> USE DEF ServerSendsResize, client, bounds
<1> DEFINE m == [resize |-> news, size |-> size, rects |-> {}, fresh |-> {}]
<1>1. toClient' = Append(toClient, m) /\ changed' = changed \ {} /\ wanted' = wanted \ {}
  OBVIOUS
<1>2. toClient' \in Seq(Messages) /\ SizesTold' /\ WrongDue' /\ StaleDue' /\ NewSizeDue'
  BY <1>1, Sends
<1>3. TypeOK'
  BY <1>2 DEF UpdateInv, TypeOK, Tellings
<1>4. RequestsConserved'
  <2>1. m \in Messages /\ toClient \in Seq(Messages) /\ One(m) = 0
    BY DEF UpdateInv, TypeOK, Messages, One
  <2> HIDE DEF m
  <2>2. Cardinality(Answered(toClient')) = Cardinality(Answered(toClient))
    BY <1>1, <2>1, AnsweredAppend, AnsweredFinite
  <2>3. Unanswered' = Unanswered
    BY <2>2 DEF Unanswered, Answered
  <2>4. QED
    BY <2>3 DEF UpdateInv, RequestsConserved
<1>5. QED
  BY <1>2, <1>3, <1>4 DEF UpdateInv

(* Both handlers: what is taken is not in flight any more, and a request    *)
(* for everything is counted.                                               *)
LEMMA TakenCounted ==
  ASSUME UpdateInv, Listens, toClient # <<>>, TakeMessage(Head(toClient)),
         UNCHANGED owed, pc = "idle",
         pc' = IF One(Head(toClient)) = 1 THEN "update" ELSE "idle"
  PROVE  /\ RequestsConserved'
         /\ toServer' \in Seq(Requests) /\ toClient' \in Seq(Messages)
         /\ fulls' \in Nat /\ width' \in Sizes /\ rect' \in Sizes
<1> DEFINE m == Head(toClient)
<1>1. /\ m \in Messages /\ toClient \in Seq(Messages) /\ toServer \in Seq(Requests)
      /\ fulls \in Nat /\ owed \in Nat /\ Len(toServer) \in Nat
      /\ width \in Sizes /\ rect \in Sizes
      /\ toClient' = Tail(toClient) /\ toClient' \in Seq(Messages)
  BY Head1 DEF UpdateInv, TypeOK, TakeMessage
<1>2. m.size \in Sizes /\ Request(FALSE, m.size) \in Requests
  BY <1>1 DEF Messages, Requests, Request
<1>3. /\ toServer' \in Seq(Requests)
      /\ Len(toServer') - fulls' = Len(toServer) - fulls
      /\ fulls' \in Nat /\ Len(toServer') \in Nat
  <2>1. /\ toServer' = IF FullRequest(m) THEN Append(toServer, Request(FALSE, m.size))
                                         ELSE toServer
        /\ fulls' = IF FullRequest(m) THEN fulls + 1 ELSE fulls
    BY DEF TakeMessage
  <2> HIDE DEF m
  <2>2. CASE FullRequest(m)
    <3>1. toServer' \in Seq(Requests) /\ Len(toServer') = Len(toServer) + 1
      BY <1>1, <1>2, <2>1, <2>2, AppendProperties
    <3>2. fulls' = fulls + 1
      BY <2>1, <2>2
    <3>3. QED
      BY <1>1, <3>1, <3>2
  <2>3. CASE ~FullRequest(m)
    BY <1>1, <2>1, <2>3
  <2>4. QED
    BY <2>2, <2>3
<1>4. /\ Cardinality(Answered(toClient)) = Cardinality(Answered(toClient')) + One(m)
      /\ Cardinality(Answered(toClient)) \in Nat /\ Cardinality(Answered(toClient')) \in Nat
  BY <1>1, AnsweredTail, AnsweredFinite
<1>5. One(m) \in {0, 1}
  BY DEF One
<1>6. Unanswered' = Unanswered /\ Unanswered \in Nat
  BY <1>4, <1>5 DEF Unanswered, Answered
<1>7. RequestsConserved'
  <2>1. counting' = counting
    BY DEF TakeMessage, server
  <2>2. counting => owed + Len(toServer) + Unanswered = 3 + fulls
    BY DEF UpdateInv, RequestsConserved
  <2>3. counting => owed + Len(toServer') + Unanswered = 3 + fulls'
    BY <1>1, <1>3, <1>6, <2>2
  <2>4. QED
    BY <1>6, <2>1, <2>3 DEF RequestsConserved
<1>8. width' \in Sizes /\ rect' \in Sizes
  BY <1>1, <1>2 DEF TakeMessage, NewWidth, NewRect
<1>9. QED
  BY <1>1, <1>3, <1>7, <1>8

LEMMA DecodeRectsKept ==
  ASSUME UpdateInv, Listens, DecodeRects
  PROVE  UpdateInv'
<1> DEFINE m == Head(toClient)
<1>1. /\ pc = "idle" /\ toClient # <<>> /\ m.resize # "resize" /\ TakeMessage(m)
      /\ UNCHANGED <<size, news, changed, asked, wanted, owed>>
  BY DEF DecodeRects, TakeMessage, server
<1>2. /\ NewWidth(m) = m.size /\ m.rects \subseteq Area[m.size]
      /\ Wrong(m) \subseteq Area[m.size]
  BY <1>1, Head1
<1>3. /\ outdated' = (Wrong(m) \ m.rects) \cup (m.rects \ m.fresh)
      /\ pc' = "update" /\ width' = m.size
  BY <1>2 DEF DecodeRects, TakeMessage
<1>4. outdated' \subseteq Area[m.size]
  BY <1>2, <1>3
<1>5. SizesTold' /\ WrongDue' /\ StaleDue' /\ NewSizeDue'
  BY <1>1, <1>3, <1>4, Takes
<1>6. One(m) = 1
  BY <1>1 DEF One
<1>7. /\ RequestsConserved'
      /\ toServer' \in Seq(Requests) /\ toClient' \in Seq(Messages)
      /\ fulls' \in Nat /\ width' \in Sizes /\ rect' \in Sizes
  BY <1>1, <1>3, <1>6, TakenCounted
<1>8. TypeOK'
  BY <1>1, <1>3, <1>4, <1>7 DEF UpdateInv, TypeOK
<1>9. QED
  BY <1>5, <1>7, <1>8 DEF UpdateInv

LEMMA HandleResizeFrameBufferKept ==
  ASSUME UpdateInv, Listens, HandleResizeFrameBuffer
  PROVE  UpdateInv'
<1> DEFINE m == Head(toClient)
<1>1. /\ pc = "idle" /\ toClient # <<>> /\ m.resize = "resize" /\ TakeMessage(m)
      /\ UNCHANGED <<pc, size, news, changed, asked, wanted, owed>>
      /\ outdated' = Wrong(m) /\ width' = NewWidth(m)
  BY DEF HandleResizeFrameBuffer, TakeMessage, server
<1>2. outdated' \subseteq Area[m.size] /\ width' = m.size
  BY <1>1, Head1
<1>3. FullRequest(m) /\ One(m) = 0
  BY <1>1 DEF FullRequest, One
<1>4. SizesTold' /\ WrongDue' /\ StaleDue' /\ NewSizeDue'
  BY <1>1, <1>2, <1>3, Takes
<1>5. /\ RequestsConserved'
      /\ toServer' \in Seq(Requests) /\ toClient' \in Seq(Messages)
      /\ fulls' \in Nat /\ width' \in Sizes /\ rect' \in Sizes
  BY <1>1, <1>3, TakenCounted
<1>6. TypeOK'
  BY <1>1, <1>2, <1>5 DEF UpdateInv, TypeOK
<1>7. QED
  BY <1>4, <1>5, <1>6 DEF UpdateInv

LEMMA SendIncrementalRequestKept ==
  ASSUME UpdateInv, SendIncrementalRequest
  PROVE  UpdateInv'
<1> USE DEF SendIncrementalRequest, server, bounds
<1> DEFINE n == Len(toServer)
<1>1. Request(TRUE, rect) \in Requests
  BY DEF UpdateInv, TypeOK, Request, Requests
<1>2. /\ toServer \in Seq(Requests) /\ n \in Nat
      /\ toServer' \in Seq(Requests) /\ Len(toServer') = n + 1
      /\ \A i \in 1 .. n : toServer'[i] = toServer[i]
  <2> DEFINE r == Request(TRUE, rect)
  <2>1. toServer \in Seq(Requests) /\ toServer' = Append(toServer, r) /\ r \in Requests
    BY <1>1 DEF UpdateInv, TypeOK
  <2> HIDE DEF r
  <2> HIDE DEF SendIncrementalRequest
  <2>2. Len(toServer) \in Nat
    BY <2>1
  <2>3. QED
    BY <2>1, <2>2, AppendProperties
<1>3. TypeOK'
  BY <1>2 DEF UpdateInv, TypeOK
<1>4. ASSUME NEW x, Asked(x)
      PROVE  Asked(x)'
  <2>1. \A i \in 1 .. n : i \in 1 .. n + 1 /\ toServer'[i] = toServer[i]
    BY <1>2
  <2> HIDE DEF n
  <2>2. wanted' = wanted /\ Len(toServer') = n + 1
    BY <1>2
  <2>3. QED
    BY <1>4, <2>1, <2>2 DEF Asked, n
<1>5. SizesTold'
  BY DEF UpdateInv, SizesTold, SizeAfter, LastTold
<1>6. WrongDue' /\ StaleDue' /\ NewSizeDue'
  BY <1>4 DEF UpdateInv, WrongDue, StaleDue, NewSizeDue, LastTold, Due
<1>7. RequestsConserved'
  <2>1. Cardinality(Answered(toClient)) \in Nat
    BY AnsweredFinite DEF UpdateInv, TypeOK
  <2>2. Unanswered = Unanswered' + 1 /\ Unanswered' \in Nat
    BY <2>1 DEF Unanswered, Answered
  <2>3. QED
    BY <1>2, <2>2 DEF UpdateInv, TypeOK, RequestsConserved
<1>8. QED
  BY <1>3, <1>5, <1>6, <1>7 DEF UpdateInv

LEMMA UpdateKept == Listens /\ UpdateInv /\ [Next]_vars => UpdateInv'
<1> SUFFICES ASSUME Listens, UpdateInv, [Next]_vars PROVE UpdateInv'
  OBVIOUS
<1>1. CASE World
  BY <1>1, PictureChangesKept, ScreenResizesKept DEF World
<1>2. CASE Server
  BY <1>2, ServerReceivesKept, ServerUpdatesKept, ServerSendsResizeKept DEF Server
<1>3. CASE Client
  BY <1>3, DecodeRectsKept, HandleResizeFrameBufferKept, SendIncrementalRequestKept DEF Client
<1>4. CASE UNCHANGED vars
  BY <1>4 DEF vars, server, client, UpdateInv, TypeOK, SizesTold, SizeAfter, WrongDue,
              StaleDue, NewSizeDue, RequestsConserved, Unanswered, LastTold, Due, Asked
<1>5. QED
  BY <1>1, <1>2, <1>3, <1>4 DEF Next

LEMMA UpdateAlways ==
  ASSUME Listens
  PROVE  Spec => []UpdateInv
<1>1. UpdateInv /\ [Next]_vars => UpdateInv'
  BY UpdateKept
<1>2. QED
  BY <1>1, UpdateInitially, PTL DEF Spec

(* With a server that counts, three requests are under way at every moment, *)
(* and one more for each time that the size changed, however updates and    *)
(* requests overtake each other (HandleFramebufferUpdate).                  *)
THEOREM RequestsAlwaysConserved ==
  ASSUME Listens
  PROVE  Spec => []RequestsConserved
BY UpdateAlways, PTL DEF UpdateInv

(* No rectangle of the server's is too large for the framebuffer: the       *)
(* client has heard of every size before it gets pixels of it               *)
(* (HandleFramebufferUpdate, ResizeClientBuffer).                           *)
THEOREM RectsAlwaysFit ==
  ASSUME Listens
  PROVE  Spec => []RectsFit
<1>1. UpdateInv => RectsFit
  BY DEF UpdateInv, TypeOK, RectsFit
<1>2. QED
  BY <1>1, UpdateAlways, PTL

(* Every pixel that the framebuffer has wrong will be sent, though each new *)
(* size loses all of it: with the request that ResizeClientBuffer's callers *)
(* make, or because the server sends all by itself.                         *)
THEOREM NothingEverForgotten ==
  ASSUME Listens
  PROVE  Spec => []NothingForgotten
<1>1. UpdateInv => NothingForgotten
  <2> SUFFICES ASSUME UpdateInv, SizeKnown, NEW x \in outdated
               PROVE  x \in changed \cup InFlight \cup AskedAnyway
    BY DEF NothingForgotten
  <2>1. LastTold(0)
    BY DEF SizeKnown, LastTold, UpdateInv, TypeOK
  <2>2. Due(x, 0) \/ Asked(x)
    BY <2>1 DEF UpdateInv, WrongDue
  <2>3. CASE Due(x, 0)
    BY <2>3 DEF Due, InFlight, UpdateInv, TypeOK
  <2>4. CASE Asked(x)
    BY <2>4 DEF Asked, AskedAnyway, UpdateInv, TypeOK
  <2>5. QED
    BY <2>2, <2>3, <2>4
<1>2. QED
  BY <1>1, UpdateAlways, PTL
================================================================================
