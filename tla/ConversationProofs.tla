-------------------------- MODULE ConversationProofs --------------------------
(***************************************************************************)
(* Proofs about Session: whatever the server offers and decides, however    *)
(* far each of the two is ahead of the other, and wherever the connection   *)
(* is lost,                                                                 *)
(*   - the client reads what it waits for, and the server takes what it     *)
(*     expects, on the layer it expects it on,                              *)
(*   - a client that has joined agrees with its server on the version, the  *)
(*     authentication and the layer, and has nothing of the opening left,   *)
(*   - the library of SASL has verified all that the server sent before     *)
(*     its layer is on.                                                     *)
(*                                                                          *)
(* The invariant (TalkInv) is that of a conversation: what the client has   *)
(* written and the server has not got, followed by what the client still    *)
(* has to do, stands in the relation Talking to what the server has sent    *)
(* and the client has not read, followed by what the server still has to    *)
(* do (Conv).  Moving a message from one place to the next leaves both      *)
(* sides alone; a step of one of the two takes the first step off its side, *)
(* and the relation says what it is.  Beside it: which layer each message   *)
(* that is under way was sent on (LayerInv), when TLS may be up (Upward)    *)
(* and what the library of SASL has seen (Verified).                        *)
(***************************************************************************)
EXTENDS SessionProofs

-------------------------------------------------------------------------------
(* Where the server's part of the conversation is, when it decides: the     *)
(* client may not have come to it yet.                                      *)
Placed(tk, c, r, c2, r2) ==
  /\ Agreed /\ taken = tk
  /\ \/ /\ scheme = NoType /\ ~Listed(version)
        /\ \E w \in Words :
             /\ tk = One(w) /\ c2 = Handle(w) ++ Z
             /\ \/ c = R("word") & Z /\ r = S("word", w) & r2
                \/ c = L("switch") & Z /\ picked = w /\ r = r2
     \/ /\ Choosing /\ Selectable(picked, SubAuth) /\ tk = Added(Before, picked)
        /\ c2 = Handle(picked) ++ Z
        /\ \A d : ASequence(d) => Types(r2 ++ d, c, r ++ d)
     \/ tk = Both /\ c2 = c /\ r2 = r

LEMMA HandleStays ==
  ASSUME UNCHANGED <<version, scheme>>
  PROVE  /\ \A w : Handle(w)' = Handle(w)
         /\ SubAuth' <=> SubAuth
  BY DEF Handle, SubAuth, SubHandler, Handler, Explains

LEMMA PlacedStays ==
  ASSUME UNCHANGED <<choice, reply, taken>>,
         NEW tk, NEW c, NEW r, NEW c2, NEW r2, Placed(tk, c, r, c2, r2)
  PROVE  Placed(tk, c, r, c2, r2)'
<1>1. UNCHANGED <<version, scheme, sub, picked, reply, taken>>
  BY DEF choice
<1>2. (\A w : Handle(w)' = Handle(w)) /\ (SubAuth' <=> SubAuth)
  BY <1>1, HandleStays
<1>3. Agreed'
  BY <1>1 DEF Placed, Agreed
<1>4. Both' = Both /\ Before' = Before /\ (Choosing' <=> Choosing)
  BY <1>1, <1>2 DEF Both, Before, Choosing
<1>5. CASE /\ scheme = NoType /\ ~Listed(version)
           /\ \E w \in Words :
                /\ tk = One(w) /\ c2 = Handle(w) ++ Z
                /\ \/ c = R("word") & Z /\ r = S("word", w) & r2
                   \/ c = L("switch") & Z /\ picked = w /\ r = r2
  <2>1. PICK w \in Words :
                /\ tk = One(w) /\ c2 = Handle(w) ++ Z
                /\ \/ c = R("word") & Z /\ r = S("word", w) & r2
                   \/ c = L("switch") & Z /\ picked = w /\ r = r2
    BY <1>5
  <2>2. c2 = Handle(w)' ++ Z
    BY <1>2, <2>1
  <2>3. scheme' = NoType /\ ~Listed(version)' /\ taken' = tk
    BY <1>1, <1>5 DEF Placed
  <2>4. \/ c = R("word") & Z /\ r = S("word", w) & r2
        \/ c = L("switch") & Z /\ picked' = w /\ r = r2
    BY <1>1, <2>1
  <2> QED BY <1>3, <2>1, <2>2, <2>3, <2>4 DEF Placed
<1>6. CASE /\ Choosing /\ Selectable(picked, SubAuth) /\ tk = Added(Before, picked)
           /\ c2 = Handle(picked) ++ Z
           /\ \A d : ASequence(d) => Types(r2 ++ d, c, r ++ d)
  <2>1. Selectable(picked, SubAuth)'
    BY <1>1, <1>2, <1>6 DEF Selectable
  <2>2. tk = Added(Before, picked)'
    BY <1>1, <1>4, <1>6 DEF Added
  <2>3. c2 = (Handle(picked) ++ Z)'
    <3>1. Handle(picked)' = Handle(picked)
      BY <1>1 DEF Handle, SubAuth, SubHandler, Handler, Explains
    <3> QED BY <1>6, <3>1
  <2>4. taken' = tk
    BY <1>1 DEF Placed
  <2> QED BY <1>3, <1>4, <1>6, <2>1, <2>2, <2>3, <2>4 DEF Placed
<1>7. CASE tk = Both /\ c2 = c /\ r2 = r
  BY <1>1, <1>3, <1>4, <1>7 DEF Placed
<1> QED BY <1>5, <1>6, <1>7 DEF Placed

LEMMA PlacedThere ==
  ASSUME NEW tk, NEW c, NEW r, NEW c2, NEW r2, AllOp(r2, "send"), NEW e, ASequence(e),
         Placed(tk, c, r, c2, r2)', Talk(tk, c2, r2 ++ e)'
  PROVE  Talking(c, r ++ e)'
<1>1. ASequence(r2) /\ ASequence(r2 ++ e)
  BY AllOpSequence, JoinSequence
<1>2. CASE /\ scheme' = NoType /\ ~Listed(version)'
           /\ \E w \in Words :
                /\ tk = One(w) /\ c2 = Handle(w)' ++ Z
                /\ \/ c = R("word") & Z /\ r = S("word", w) & r2
                   \/ c = L("switch") & Z /\ picked' = w /\ r = r2
  <2>1. PICK w \in Words :
                /\ tk = One(w) /\ c2 = Handle(w)' ++ Z
                /\ \/ c = R("word") & Z /\ r = S("word", w) & r2
                   \/ c = L("switch") & Z /\ picked' = w /\ r = r2
    BY <1>2
  <2> DEFINE s2 == r2 ++ e
             s == r ++ e
  <2>2. WordServed(w, s2)'
    <3> HIDE DEF s2
    <3>1. Talk(tk, c2, s2)'
      BY DEF s2
    <3> QED BY <2>1, <3>1 DEF WordServed, Placed
  <2>3. CASE c = R("word") & Z /\ r = S("word", w) & r2
    <3>1. s = S("word", w) & s2
      BY <1>1, <2>3, JoinCons
    <3> HIDE DEF s, s2
    <3>2. WordTalk(c, s)'
      BY <1>2, <2>2, <2>3, <3>1 DEF WordTalk
    <3>3. Talking(c, s)'
      BY <3>2 DEF Talking, Placed
    <3> QED BY <3>3 DEF s
  <2>4. CASE c = L("switch") & Z /\ picked' = w /\ r = r2
    <3>1. s = s2
      BY <2>4
    <3> HIDE DEF s, s2
    <3>2. WordTalk(c, s)'
      BY <1>2, <2>2, <2>4, <3>1 DEF WordTalk
    <3>3. Talking(c, s)'
      BY <3>2 DEF Talking, Placed
    <3> QED BY <3>3 DEF s
  <2> QED BY <2>1, <2>3, <2>4
<1>3. CASE /\ Choosing' /\ Selectable(picked, SubAuth)' /\ tk = Added(Before, picked)'
           /\ c2 = (Handle(picked) ++ Z)'
           /\ \A d : ASequence(d) => Types(r2 ++ d, c, r ++ d)
  <2> DEFINE s2 == r2 ++ e
             s == r ++ e
  <2>1. Types(s2, c, s) /\ Talk(tk, c2, s2)'
    BY <1>3
  <2> HIDE DEF s, s2
  <2>2. Types(s2, c, s)'
    BY <2>1 DEF Types
  <2>3. Heard(c, s)'
    BY <1>3, <2>1, <2>2 DEF Heard, Placed
  <2>4. Listing(c, s)'
    BY <1>3, <2>3 DEF Listing
  <2>5. Talking(c, s)'
    BY <2>4 DEF Talking, Placed
  <2> QED BY <2>5 DEF s
<1>4. CASE tk = Both' /\ c2 = c /\ r2 = r
  <2> DEFINE s == r ++ e
  <2>1. Talk(tk, c, s)'
    BY <1>4
  <2> HIDE DEF s
  <2>2. Straight(c, s)'
    BY <1>4, <2>1 DEF Straight, Placed
  <2>3. Talking(c, s)'
    BY <2>2 DEF Talking, Placed
  <2> QED BY <2>3 DEF s
<1> QED BY <1>2, <1>3, <1>4 DEF Placed
(* The server has its type from the client's version alone.                 *)
ByWord(c, r, x) ==
  /\ Agreed /\ Fresh /\ taken = Nil
  /\ \/ /\ scheme = NoType /\ ~Listed(version)
        /\ \E w \in Words :
             /\ x = Chosen(w)
             /\ \/ c = R("word") & Z /\ r = S("word", w) & Nil
                \/ c = L("switch") & Z /\ picked = w /\ r = Nil
     \/ /\ r = Nil /\ x = Chosen(Type) /\ Type \in Words /\ scheme # NoType /\ sub = NoType
        /\ Early(Both, c, ServerHandler(Type))

LEMMA WordDecides ==
  ASSUME NEW w, NEW r, NEW x, NEW d, Decision(r, x, d), WordServed(w, r ++ (x & d))
  PROVE  \/ Fresh /\ taken = Nil /\ r = Nil /\ x = Chosen(w) /\ d = Nil
         \/ taken = One(w) /\ Talk(One(w), Handle(w) ++ Z, r ++ (x & d))
<1>1. CASE Fresh /\ taken = Nil /\ r ++ (x & d) = Chosen(w) & Nil
  <2>1. Chosen(w).op # "send" /\ ASequence(Nil) /\ r ++ (x & d) = Chosen(w) & Nil
    BY <1>1, Kinds, NilSequence
  <2>2. r = Nil /\ x = Chosen(w) /\ d = Nil
    BY <2>1, DecisionNow
  <2> QED BY <1>1, <2>2
<1> QED BY <1>1 DEF WordServed

LEMMA GreetingDecides ==
  ASSUME NEW c, NEW r, NEW x, NEW d, Decision(r, x, d)
  PROVE  ~Greeting(c, r ++ (x & d))
<1>1. Wire(Nil)
  BY WireNil
<1>2. Wire(G("version") & Nil)
  BY <1>1, Kinds, WireCons
<1>3. ASSUME NEW v PROVE Wire(S("version", v) & (G("version") & Nil))
  BY <1>2, Kinds, WireCons
<1>4. r ++ (x & d) # G("version") & Nil
  BY <1>2, DecisionNot
<1>5. ASSUME NEW v PROVE r ++ (x & d) # S("version", v) & (G("version") & Nil)
  BY <1>3, DecisionNot
<1> QED BY <1>4, <1>5 DEF Greeting

LEMMA TalkingDecides ==
  ASSUME NEW c, NEW r, NEW x, NEW d, Decision(r, x, d), x # D("close"), Talking(c, r ++ (x & d))
  PROVE  \/ Ends(c)
         \/ \E tk, c2, r2 : /\ AllOp(r2, "send") /\ Talk(tk, c2, r2 ++ (x & d))
                            /\ Placed(tk, c, r, c2, r2)
         \/ d = Nil /\ ByWord(c, r, x)
<1>0. AllOp(r, "send") /\ x.op \notin {"send", "get"} /\ ASequence(d)
  BY DEF Decision
<1>1. ~Greeting(c, r ++ (x & d))
  BY GreetingDecides
<1>2. CASE Agreed /\ WordTalk(c, r ++ (x & d))
  <2>1. PICK w \in Words :
       \/ c = R("word") & Z /\ \E s1 : r ++ (x & d) = S("word", w) & s1 /\ WordServed(w, s1)
       \/ c = L("switch") & Z /\ picked = w /\ WordServed(w, r ++ (x & d))
    BY <1>2 DEF WordTalk
  <2>2. scheme = NoType /\ ~Listed(version)
    BY <1>2 DEF WordTalk
  <2>3. CASE c = R("word") & Z /\ \E s1 : r ++ (x & d) = S("word", w) & s1 /\ WordServed(w, s1)
    <3>1. PICK s1 : r ++ (x & d) = S("word", w) & s1 /\ WordServed(w, s1)
      BY <2>3
    <3>2. ASequence(s1) /\ S("word", w).op # x.op
      BY <1>0, <3>1, TalkFacts, NilSequence, ConsSequence, Kinds DEF WordServed
    <3>3. PICK r1 : Decision(r1, x, d) /\ r = S("word", w) & r1 /\ s1 = r1 ++ (x & d)
      BY <3>1, <3>2, DecisionAfter
    <3>4. WordServed(w, r1 ++ (x & d)) /\ AllOp(r1, "send")
      BY <3>1, <3>3 DEF Decision
    <3>5. CASE Fresh /\ taken = Nil /\ r1 = Nil /\ x = Chosen(w) /\ d = Nil
      BY <1>2, <2>2, <2>3, <3>3, <3>5 DEF ByWord
    <3>6. CASE taken = One(w) /\ Talk(One(w), Handle(w) ++ Z, r1 ++ (x & d))
      <4>1. Placed(One(w), c, r, Handle(w) ++ Z, r1)
        BY <1>2, <2>2, <2>3, <3>3, <3>6 DEF Placed
      <4> QED BY <3>4, <3>6, <4>1
    <3> QED BY <3>3, <3>4, <3>5, <3>6, WordDecides
  <2>4. CASE c = L("switch") & Z /\ picked = w /\ WordServed(w, r ++ (x & d))
    <3>5. CASE Fresh /\ taken = Nil /\ r = Nil /\ x = Chosen(w) /\ d = Nil
      BY <1>2, <2>2, <2>4, <3>5 DEF ByWord
    <3>6. CASE taken = One(w) /\ Talk(One(w), Handle(w) ++ Z, r ++ (x & d))
      <4>1. Placed(One(w), c, r, Handle(w) ++ Z, r)
        BY <1>2, <2>2, <2>4, <3>6 DEF Placed
      <4> QED BY <1>0, <3>6, <4>1
    <3> QED BY <2>4, <3>5, <3>6, WordDecides
  <2> QED BY <2>1, <2>3, <2>4
<1>3. CASE Agreed /\ Listing(c, r ++ (x & d))
  <2>1. /\ Choosing /\ Selectable(picked, SubAuth) /\ taken = Added(Before, picked)
        /\ \E r2 : /\ AllOp(r2, "send")
                   /\ Talk(taken, Handle(picked) ++ Z, r2 ++ (x & d))
                   /\ \A d2 : ASequence(d2) => Types(r2 ++ d2, c, r ++ d2)
    BY <1>0, <1>3, ListingDecides
  <2>2. PICK r2 : /\ AllOp(r2, "send")
                  /\ Talk(taken, Handle(picked) ++ Z, r2 ++ (x & d))
                  /\ \A d2 : ASequence(d2) => Types(r2 ++ d2, c, r ++ d2)
    BY <2>1
  <2>3. Placed(taken, c, r, Handle(picked) ++ Z, r2)
    BY <1>3, <2>1, <2>2 DEF Placed
  <2> QED BY <2>2, <2>3
<1>4. CASE Agreed /\ VeListing(c, r ++ (x & d))
  BY <1>0, <1>4, VeListingDecides
<1>5. CASE Agreed /\ Pending(c, r ++ (x & d))
  <2>1. r ++ (x & d) # G("choice") & Nil
    BY NilSequence, GetNotDecided
  <2>2. r ++ (x & d) = Chosen(Type) & Nil /\ Type \in Words /\ sub = NoType /\ Early(Both, c, ServerHandler(Type))
    BY <1>5, <2>1 DEF Pending
  <2>3. r = Nil /\ x = Chosen(Type) /\ d = Nil
    <3>1. Chosen(Type).op # "send" /\ ASequence(Nil)
      BY Kinds, NilSequence
    <3> QED BY <2>2, <3>1, DecisionNow
  <2> QED BY <1>5, <2>2, <2>3 DEF Pending, ByWord
<1>6. CASE Agreed /\ Straight(c, r ++ (x & d))
  <2>1. Placed(Both, c, r, c, r) /\ Talk(Both, c, r ++ (x & d))
    BY <1>6 DEF Straight, Placed
  <2> QED BY <1>0, <2>1
<1> QED BY <1>1, <1>2, <1>3, <1>4, <1>5, <1>6 DEF Talking

(* A decision, and what the server goes on with: a client that has ended    *)
(* does not mind.                                                           *)
LEMMA DecisionGoesOn ==
  ASSUME NEW c, NEW r, NEW w, w # "close", NEW d, AllOp(r, "send"), ASequence(d),
         Talking(c, r ++ (D(w) & d)), UNCHANGED <<choice, reply, taken>>,
         NEW e, ASequence(e),
         \A tk, c2, r2 : AllOp(r2, "send") /\ Talk(tk, c2, r2 ++ (D(w) & d)) /\ taken = tk => Talk(tk, c2, r2 ++ e)'
  PROVE  Talking(c, r ++ e)'
<1>1. D(w).op \notin {"send", "get", "chosen"} /\ D(w) # D("close")
  BY Kinds
<1>2. Decision(r, D(w), d)
  BY <1>1 DEF Decision
<1>3. ~ByWord(c, r, D(w))
  BY <1>1, Kinds DEF ByWord
<1>4. CASE Ends(c)
  BY <1>4 DEF Talking, Ends
<1>5. CASE \E tk, c2, r2 : /\ AllOp(r2, "send") /\ Talk(tk, c2, r2 ++ (D(w) & d))
                           /\ Placed(tk, c, r, c2, r2)
  <2>1. PICK tk, c2, r2 : /\ AllOp(r2, "send") /\ Talk(tk, c2, r2 ++ (D(w) & d))
                          /\ Placed(tk, c, r, c2, r2)
    BY <1>5
  <2>2. Placed(tk, c, r, c2, r2)'
    BY <2>1, PlacedStays
  <2>3. taken = tk
    BY <2>1 DEF Placed
  <2>4. Talk(tk, c2, r2 ++ e)'
    BY <2>1, <2>3
  <2> QED BY <2>1, <2>2, <2>4, PlacedThere
<1> DEFINE x == D(w)
<1>6. Decision(r, x, d) /\ x # D("close") /\ Talking(c, r ++ (x & d))
  BY <1>1, <1>2
<1> HIDE DEF x
<1>7. \/ Ends(c)
      \/ \E tk, c2, r2 : /\ AllOp(r2, "send") /\ Talk(tk, c2, r2 ++ (x & d))
                         /\ Placed(tk, c, r, c2, r2)
      \/ ByWord(c, r, x)
  BY <1>6, TalkingDecides
<1> QED BY <1>3, <1>4, <1>5, <1>7 DEF x

-------------------------------------------------------------------------------
(* The client's steps are those of its scripts: the session is ready when   *)
(* there is nothing else to do, and a handshake is finished at once.        *)
Simple(x) == x = R(x.what) \/ x = L(x.what) \/ x = W(x.what, x.val) \/ x = GiveUp(x.what)
Shape(q) ==
  ASequence(q) /\ \A i \in 1 .. Len(q) : Simple(q[i]) \/ (i = Len(q) /\ q[i] = Ready)
ShapeInv ==
  /\ tls \in BOOLEAN
  /\ Shape(todo) \/ \E t : Shape(t) /\ todo = F & t

LEMMA SimpleSteps ==
  /\ \A w : Simple(R(w)) /\ Simple(L(w)) /\ Simple(GiveUp(w))
  /\ \A w, v : Simple(W(w, v))
  /\ \A x : Simple(x) =>
       /\ x.op = "read" => x = R(x.what)
       /\ x.op = "local" => x = L(x.what)
       /\ x.op = "write" => x = W(x.what, x.val)
       /\ x.op \notin {"ready", "tls"}
  BY Kinds DEF Simple

LEMMA ShapeNil == Shape(Nil)
  BY NilSequence, EmptySequence DEF Shape, Nil

LEMMA ShapeCons ==
  ASSUME NEW a, Simple(a), NEW q, Shape(q)
  PROVE  Shape(a & q)
<1> DEFINE y == a & q
<1>1. ASequence(q) /\ ASequence(y) /\ y[1] = a /\ Len(y) = Len(q) + 1 /\ Len(q) \in Nat
      /\ \A i \in 1 .. Len(q) : y[i + 1] = q[i]
  BY ConsFacts DEF Shape
<1> HIDE DEF y
<1>2. ASSUME NEW i \in 1 .. Len(y) PROVE Simple(y[i]) \/ (i = Len(y) /\ y[i] = Ready)
  <2>1. CASE i = 1
    BY <1>1, <2>1
  <2>2. CASE i # 1
    <3>1. i - 1 \in 1 .. Len(q) /\ (i - 1) + 1 = i
      BY <1>1, <2>2
    <3>2. y[i] = q[i - 1]
      BY <1>1, <3>1
    <3>3. Simple(q[i - 1]) \/ (i - 1 = Len(q) /\ q[i - 1] = Ready)
      BY <3>1 DEF Shape
    <3> QED BY <1>1, <3>1, <3>2, <3>3
  <2> QED BY <2>1, <2>2
<1>3. Shape(y)
  BY <1>1, <1>2 DEF Shape
<1> QED BY <1>3 DEF y

LEMMA ShapeParts ==
  ASSUME NEW a, NEW q, ASequence(q), Shape(a & q)
  PROVE  Shape(q) /\ (Simple(a) \/ (a = Ready /\ q = Nil))
<1> DEFINE y == a & q
<1>1. ASequence(y) /\ y[1] = a /\ Len(y) = Len(q) + 1 /\ Len(q) \in Nat
      /\ \A i \in 1 .. Len(q) : y[i + 1] = q[i]
  BY ConsFacts
<1>2. \A i \in 1 .. Len(y) : Simple(y[i]) \/ (i = Len(y) /\ y[i] = Ready)
  BY DEF Shape
<1> HIDE DEF y
<1>3. ASSUME NEW i \in 1 .. Len(q) PROVE Simple(q[i]) \/ (i = Len(q) /\ q[i] = Ready)
  <2>1. i + 1 \in 1 .. Len(y)
    BY <1>1
  <2>2. Simple(y[i + 1]) \/ (i + 1 = Len(y) /\ y[i + 1] = Ready)
    BY <1>2, <2>1
  <2> QED BY <1>1, <2>2
<1>4. Shape(q)
  BY <1>3 DEF Shape
<1>5. Simple(a) \/ (a = Ready /\ q = Nil)
  <2>1. 1 \in 1 .. Len(y)
    BY <1>1
  <2>2. Simple(a) \/ (1 = Len(y) /\ a = Ready)
    BY <1>1, <1>2, <2>1
  <2>3. ASSUME 1 = Len(y) PROVE q = Nil
    <3>1. ~(Len(q) > 0)
      BY <1>1, <2>3
    <3> QED BY <3>1, Empties DEF Nil
  <2> QED BY <2>2, <2>3
<1> QED BY <1>4, <1>5

LEMMA ShapeRepeat ==
  ASSUME NEW n \in Nat, NEW x, Simple(x), NEW q, Shape(q)
  PROVE  Shape(Repeat(n, x) ++ q)
<1> DEFINE p == Repeat(n, x)
           y == p \o q
<1>1. p \in Seq({x}) /\ Len(p) = n /\ \A i \in 1 .. n : p[i] = x
  BY DEF Repeat
<1> HIDE DEF p
<1>2. ASequence(p) /\ ASequence(q)
  BY <1>1 DEF ASequence, Shape
<1>3. ASequence(y) /\ Len(p) \in Nat /\ Len(q) \in Nat /\ Len(y) = Len(p) + Len(q)
      /\ \A i \in 1 .. Len(p) + Len(q) : y[i] = IF i <= Len(p) THEN p[i] ELSE q[i - Len(p)]
  BY <1>2, Concats
<1> HIDE DEF y
<1>4. ASSUME NEW i \in 1 .. Len(y) PROVE Simple(y[i]) \/ (i = Len(y) /\ y[i] = Ready)
  <2>1. CASE i <= n
    <3>1. y[i] = x
      BY <1>1, <1>3, <2>1
    <3> QED BY <3>1
  <2>2. CASE ~(i <= n)
    <3>1. i - n \in 1 .. Len(q) /\ y[i] = q[i - n]
      BY <1>1, <1>3, <2>2
    <3>2. Simple(q[i - n]) \/ (i - n = Len(q) /\ q[i - n] = Ready)
      BY <3>1 DEF Shape
    <3>3. i - n = Len(q) => i = Len(y)
      BY <1>1, <1>3
    <3> QED BY <3>1, <3>2, <3>3
  <2> QED BY <2>1, <2>2
<1>5. Shape(y)
  BY <1>3, <1>4 DEF Shape
<1> QED BY <1>5 DEF y, p, ++

LEMMA ShapeZ == Shape(Z)
<1>1. Shape(Ready & Nil)
  <2> DEFINE y == Ready & Nil
  <2>1. ASequence(y) /\ y[1] = Ready /\ Len(y) = 1
    <3>1. ASequence(Nil) /\ Len(Nil) = 0
      BY EmptySequence DEF Nil
    <3>2. ASequence(y) /\ y[1] = Ready /\ Len(y) = Len(Nil) + 1
      BY <3>1, ConsFacts
    <3> QED BY <3>1, <3>2
  <2> HIDE DEF y
  <2>2. Shape(y)
    BY <2>1 DEF Shape
  <2> QED BY <2>2 DEF y
<1> QED BY <1>1, InitScript, ShapeCons, SimpleSteps

(* The scripts. *)
LEMMA ShapeScripts ==
  ASSUME NEW q, Shape(q)
  PROVE  /\ Shape(ReadReason ++ q) /\ Shape(rfbHandleAuthResult ++ q) /\ Shape(HandleVncAuth ++ q)
         /\ Shape(HandleUltraMSLogonIIAuth ++ q) /\ Shape(HandleMSLogonAuth ++ q)
         /\ Shape(HandleARDAuth ++ q) /\ Shape(HandlePlainAuth ++ q) /\ Shape(HandleSASLAuth ++ q)
         /\ Shape(SaslEnd ++ q) /\ Shape(HandleVeNCryptAuth ++ q) /\ Shape(VeNCryptAgreed ++ q)
         /\ Shape((HandleAnonTLSAuth \o <<R("count")>>) ++ q)
         /\ Shape(<<GiveUp("unknown")>> ++ q) /\ Shape(<<>> ++ q)
<1>0. ASequence(q)
  BY DEF Shape
<1>1. Shape(ReadReason ++ q)
  BY <1>0, ReasonScript, ShapeCons, SimpleSteps
<1>2. ASequence(Nil) /\ rfbHandleAuthResult ++ q = R("result") & q
  BY <1>0, NilSequence, ResultScript
<1>3. Shape(rfbHandleAuthResult ++ q) /\ Shape(R("result") & q)
  BY <1>2, ShapeCons, SimpleSteps
<1>4. Shape(HandleVncAuth ++ q)
  BY <1>0, <1>3, VncScript, ShapeCons, SimpleSteps
<1>5. Shape(HandleUltraMSLogonIIAuth ++ q)
  BY <1>0, <1>3, MSLogonIIScript, ShapeCons, SimpleSteps
<1>6. Shape(HandleMSLogonAuth ++ q)
  BY <1>0, <1>3, MSLogonScript, ShapeCons, SimpleSteps
<1>7. Shape(HandleARDAuth ++ q)
  BY <1>0, <1>3, ARDScript, ShapeCons, SimpleSteps
<1>8. /\ Shape(HandlePlainAuth ++ q) /\ Shape(HandleSASLAuth ++ q)
      /\ Shape(SaslEnd ++ q) /\ Shape(HandleVeNCryptAuth ++ q) /\ Shape(VeNCryptAgreed ++ q)
  BY <1>0, ShortScripts, ShapeCons, SimpleSteps
<1>9. Shape((HandleAnonTLSAuth \o <<R("count")>>) ++ q)
  BY <1>0, TLSScript, ShapeCons, SimpleSteps
<1>10. Shape(<<GiveUp("unknown")>> ++ q) /\ Shape(<<>> ++ q)
  BY <1>0, GiveUpScript, ShapeCons, SimpleSteps
<1> QED BY <1>1, <1>3, <1>4, <1>5, <1>6, <1>7, <1>8, <1>9, <1>10

LEMMA ShapeHandle ==
  ASSUME NEW q, Shape(q)
  PROVE  \A type : Shape(Handle(type) ++ q)
<1> TAKE type
<1> DEFINE up == <<GiveUp("unknown")>>
           tlsUp == HandleAnonTLSAuth \o <<R("count")>>
           nothing == <<>>
<1>1. /\ Shape(ReadReason ++ q) /\ Shape(rfbHandleAuthResult ++ q) /\ Shape(HandleVncAuth ++ q)
      /\ Shape(HandleUltraMSLogonIIAuth ++ q) /\ Shape(HandleMSLogonAuth ++ q)
      /\ Shape(HandleARDAuth ++ q) /\ Shape(HandleSASLAuth ++ q)
      /\ Shape(HandleVeNCryptAuth ++ q)
      /\ Shape(tlsUp ++ q) /\ Shape(up ++ q) /\ Shape(nothing ++ q)
  BY ShapeScripts
<1>2. Handler(type) \in {ReadReason, rfbHandleAuthResult, HandleVncAuth, HandleUltraMSLogonIIAuth,
                         HandleMSLogonAuth, HandleARDAuth, HandleSASLAuth, HandleVeNCryptAuth,
                         tlsUp, up, nothing}
  <2>1. CASE type \in {"Invalid", "None", "VNC"}
    BY <2>1 DEF Handler
  <2>2. CASE type \in {"SASL", "MSLogonII", "MSLogon"}
    BY <2>2 DEF Handler
  <2>3. CASE type \in {"ARD", "TLS", "VeNCrypt"}
    BY <2>3 DEF Handler
  <2>4. CASE type \notin {"Invalid", "None", "VNC", "SASL", "MSLogonII", "MSLogon", "ARD", "TLS", "VeNCrypt"}
    BY <2>4 DEF Handler
  <2> QED BY <2>1, <2>2, <2>3, <2>4
<1>3. Handle(type) = Handler(type) \/ Handle(type) = up
  BY DEF Handle, SubHandler
<1> HIDE DEF up, tlsUp, nothing
<1> QED BY <1>1, <1>2, <1>3

LEMMA ShapeRest ==
  ASSUME ShapeInv, ASequence(todo), todo # Nil
  PROVE  /\ Shape(Tail(todo)) /\ ASequence(Tail(todo))
         /\ todo = todo[1] & Tail(todo)
         /\ todo[1].op = "read" => todo = R(todo[1].what) & Tail(todo)
         /\ todo[1].op = "local" => todo = L(todo[1].what) & Tail(todo)
         /\ todo[1].op = "write" => todo = W(todo[1].what, todo[1].val) & Tail(todo)
         /\ todo[1].op = "tls" => todo = F & Tail(todo)
         /\ todo[1].op = "ready" => todo = Ready & Nil
<1> DEFINE a == todo[1]
           q == Tail(todo)
<1>1. todo = a & q /\ ASequence(q)
  BY Decompose DEF Nil
<1> HIDE DEF a, q
<1>2. CASE Shape(todo)
  <2>1. Shape(a & q)
    BY <1>1, <1>2
  <2>2. Shape(q) /\ (Simple(a) \/ (a = Ready /\ q = Nil))
    BY <1>1, <2>1, ShapeParts
  <2>3. F.op = "tls" /\ Ready.op = "ready"
    BY Lasts
  <2>4. CASE Simple(a)
    <3>1. /\ a.op = "read" => a = R(a.what)
          /\ a.op = "local" => a = L(a.what)
          /\ a.op = "write" => a = W(a.what, a.val)
          /\ a.op \notin {"ready", "tls"}
      BY <2>4, SimpleSteps
    <3> QED BY <1>1, <2>2, <3>1 DEF a, q
  <2>5. CASE a = Ready /\ q = Nil
    BY <1>1, <2>2, <2>3, <2>5 DEF a, q
  <2> QED BY <2>2, <2>4, <2>5
<1>3. CASE \E t : Shape(t) /\ todo = F & t
  <2>1. PICK t : Shape(t) /\ todo = F & t
    BY <1>3
  <2>2. ASequence(t)
    BY <2>1 DEF Shape
  <2>3. a = F /\ q = t
    BY <1>1, <2>1, <2>2, ConsEqual
  <2>4. a.op = "tls"
    BY <2>3, Lasts
  <2> QED BY <1>1, <2>1, <2>3, <2>4 DEF a, q
<1> QED BY <1>2, <1>3 DEF ShapeInv

LEMMA ShapeNext ==
  ASSUME ShapeInv, ASequence(todo), todo # Nil, tls' \in BOOLEAN,
         NEW next, todo' = next \o Tail(todo),
         \A q : Shape(q) => Shape(next ++ q)
  PROVE  Shape(todo') /\ ShapeInv'
<1> DEFINE q == Tail(todo)
<1>1. Shape(q)
  BY ShapeRest
<1>2. todo' = next ++ q
  BY DEF ++
<1> HIDE DEF q
<1>3. Shape(next ++ q)
  BY <1>1
<1>4. Shape(todo')
  BY <1>2, <1>3
<1> QED BY <1>4 DEF ShapeInv, Shape

LEMMA ShapeAll ==
  ASSUME Shape(todo'), tls' \in BOOLEAN
  PROVE  ShapeInv'
  BY DEF ShapeInv, Shape

LEMMA ShapeFails ==
  ASSUME NEW why, Fail(why), tls' \in BOOLEAN
  PROVE  Shape(todo') /\ ShapeInv'
<1>1. todo' = Nil
  BY DEF Fail, Nil
<1> QED BY <1>1, ShapeNil, ShapeAll

LEMMA ShapeSteps ==
  /\ \A q : Shape(q) => Shape(<<>> ++ q)
  /\ \A a, q : Simple(a) /\ Shape(q) => Shape(<<a>> ++ q)
  /\ \A a, b, q : Simple(a) /\ Simple(b) /\ Shape(q) => Shape(<<a, b>> ++ q)
<1>1. \A q : Shape(q) => ASequence(q)
  BY DEF Shape
<1> QED BY <1>1, ShapeScripts, Tuple1, Tuple2, ShapeCons

LEMMA ShapeOthers ==
  /\ \A m, q : Shape(q) => Shape(SaslExchange(m) ++ q)
  /\ \A m, q : Shape(q) => Shape((<<W("mechanism", m)>> \o SaslExchange(1)) ++ q)
  /\ \A u, p \in 0 .. 1 : \A q : Shape(q) => Shape(PlainMessage(u, p) ++ q)
  /\ \A n \in Nat : \A q : Shape(q) => Shape((Repeat(n, R("type")) \o <<L("switch")>>) ++ q)
  /\ \A n \in Nat : \A q : Shape(q) => Shape((Repeat(n, R("veType")) \o <<L("veSwitch")>>) ++ q)
<1>0. \A q : Shape(q) => ASequence(q)
  BY DEF Shape
<1>1. \A m, q : Shape(q) => Shape(SaslExchange(m) ++ q)
  BY <1>0, ExchangeScript, ShapeCons, SimpleSteps
<1>2. ASSUME NEW m, NEW q, Shape(q) PROVE Shape((<<W("mechanism", m)>> \o SaslExchange(1)) ++ q)
  <2> DEFINE a == <<W("mechanism", m)>>
             e == SaslExchange(1)
  <2>1. ASequence(a) /\ ASequence(e) /\ ASequence(q)
    <3>1. ASequence(a)
      BY OneSequence
    <3>2. ASequence(e)
      BY SaslExchanges DEF Undeciding
    <3> QED BY <3>1, <3>2, <1>0, <1>2
  <2>2. (a ++ e) ++ q = a ++ (e ++ q)
    <3> HIDE DEF a, e
    <3> QED BY <2>1, JoinAssoc
  <2>3. Shape(e ++ q) /\ ASequence(e ++ q)
    BY <1>0, <1>1, <1>2
  <2>4. Shape(a ++ (e ++ q))
    <3> HIDE DEF e
    <3> QED BY <2>3, ShapeSteps, SimpleSteps
  <2>5. a \o e = a ++ e
    BY DEF ++
  <2> HIDE DEF a, e
  <2>6. Shape((a \o e) ++ q)
    <3> DEFINE y == a \o e
    <3>1. y = a ++ e
      BY <2>5
    <3> HIDE DEF y
    <3>2. Shape(y ++ q)
      BY <2>2, <2>4, <3>1
    <3> QED BY <3>2 DEF y
  <2> QED BY <2>6 DEF a, e
<1>3. ASSUME NEW u \in 0 .. 1, NEW p \in 0 .. 1, NEW q, Shape(q) PROVE Shape(PlainMessage(u, p) ++ q)
  <2>1. Shape(R("result") & q)
    BY <1>3, ShapeCons, SimpleSteps
  <2>2. Shape(Repeat(p, W("password", 0)) ++ (R("result") & q))
    BY <2>1, ShapeRepeat, SimpleSteps
  <2>3. Shape(Repeat(u, W("user", 0)) ++ (Repeat(p, W("password", 0)) ++ (R("result") & q)))
    BY <2>2, ShapeRepeat, SimpleSteps
  <2>4. \A v : Shape(W("lengths", v) & (Repeat(u, W("user", 0)) ++ (Repeat(p, W("password", 0)) ++ (R("result") & q))))
    BY <2>3, ShapeCons, SimpleSteps
  <2> QED BY <1>0, <1>3, <2>4, PlainScript
<1>4. ASSUME NEW n \in Nat, NEW a, NEW l, Simple(a), Simple(l), NEW q, Shape(q)
      PROVE  Shape((Repeat(n, a) \o <<l>>) ++ q)
  <2> DEFINE r == Repeat(n, a)
             o == <<l>>
  <2>1. ASequence(r) /\ ASequence(o) /\ ASequence(q)
    <3>1. r \in Seq({a})
      BY DEF Repeat
    <3>2. ASequence(r)
      BY <3>1 DEF ASequence
    <3> QED BY <3>2, OneSequence, <1>0, <1>4
  <2>2. Shape(o ++ q)
    BY <1>4, ShapeSteps
  <2>3. Shape(r ++ (o ++ q))
    <3> HIDE DEF o
    <3> QED BY <1>4, <2>2, ShapeRepeat
  <2>4. r \o o = r ++ o
    BY DEF ++
  <2> HIDE DEF r, o
  <2>5. (r ++ o) ++ q = r ++ (o ++ q)
    BY <2>1, JoinAssoc
  <2> DEFINE y == r \o o
  <2>6. y = r ++ o
    BY <2>4
  <2> HIDE DEF y
  <2>7. Shape(y ++ q)
    BY <2>3, <2>5, <2>6
  <2> QED BY <2>7 DEF y, r, o
<1>5. /\ \A n \in Nat : \A q : Shape(q) => Shape((Repeat(n, R("type")) \o <<L("switch")>>) ++ q)
      /\ \A n \in Nat : \A q : Shape(q) => Shape((Repeat(n, R("veType")) \o <<L("veSwitch")>>) ++ q)
  BY <1>4, SimpleSteps
<1> QED BY <1>1, <1>2, <1>3, <1>5

(* What the client goes on with once its VeNCrypt type is accepted. *)
LEMMA VeScripts ==
  ASSUME NEW t \in VeNCryptTypes
  PROVE  \/ VeNCryptHandler(t) = rfbHandleAuthResult \/ VeNCryptHandler(t) = HandleVncAuth
         \/ VeNCryptHandler(t) = HandlePlainAuth \/ VeNCryptHandler(t) = HandleSASLAuth
<1>1. CASE t \in NoneTypes
  BY <1>1 DEF VeNCryptHandler
<1>2. CASE t \in VNCTypes
  BY <1>2 DEF VeNCryptHandler, NoneTypes, VNCTypes
<1>3. CASE t \in PlainTypes
  BY <1>3 DEF VeNCryptHandler, NoneTypes, VNCTypes, PlainTypes
<1>4. CASE t \in SASLTypes
  BY <1>4 DEF VeNCryptHandler, NoneTypes, VNCTypes, PlainTypes, SASLTypes
<1> QED BY <1>1, <1>2, <1>3, <1>4 DEF VeNCryptTypes

LEMMA VeSequence ==
  ASSUME NEW t \in VeNCryptTypes
  PROVE  ASequence(VeNCryptHandler(t))
<1>1. Undeciding(VeNCryptHandler(t))
  BY VeNCryptHandlers, BareUndeciding
<1> QED BY <1>1 DEF Undeciding

Certified(t) == IF t \in X509Types THEN <<L("certificate")>> ELSE <<>>

LEMMA AcceptedScript ==
  ASSUME NEW t, NEW h, ASequence(h), NEW q, ASequence(q)
  PROVE  LET y == (Certified(t) \o <<L("tls")>> \o h) ++ q
         IN \/ t \in X509Types /\ y = L("certificate") & (L("tls") & (h ++ q))
            \/ t \notin X509Types /\ y = L("tls") & (h ++ q)
<1> DEFINE l == <<L("tls")>>
           c == <<L("certificate")>>
<1>1. ASequence(l) /\ ASequence(c) /\ ASequence(h ++ q)
  BY OneSequence, JoinSequence
<1>2. l ++ (h ++ q) = L("tls") & (h ++ q) /\ ASequence(l ++ (h ++ q)) /\ ASequence(l ++ h)
  BY <1>1, Tuple1, JoinSequence
<1>3. (l ++ h) ++ q = L("tls") & (h ++ q)
  <2> HIDE DEF l
  <2> QED BY <1>1, <1>2, JoinAssoc
<1>4. c ++ (L("tls") & (h ++ q)) = L("certificate") & (L("tls") & (h ++ q))
  <2>1. ASequence(L("tls") & (h ++ q))
    BY <1>1, ConsSequence
  <2> QED BY <2>1, Tuple1
<1>5. ((c ++ l) ++ h) ++ q = L("certificate") & (L("tls") & (h ++ q))
  <2> HIDE DEF l, c
  <2>1. (c ++ l) ++ h = c ++ (l ++ h)
    BY <1>1, JoinAssoc
  <2>2. (c ++ (l ++ h)) ++ q = c ++ ((l ++ h) ++ q)
    BY <1>1, <1>2, JoinAssoc
  <2> QED BY <2>1, <2>2, <1>3, <1>4
<1>6. ((Nil ++ l) ++ h) ++ q = L("tls") & (h ++ q)
  <2>1. Nil ++ l = l
    <3> HIDE DEF l
    <3> QED BY <1>1, JoinNil
  <2> HIDE DEF l
  <2> QED BY <2>1, <1>3
<1>7. CASE t \in X509Types
  <2>1. Certified(t) = c
    BY <1>7 DEF Certified
  <2> HIDE DEF l, c
  <2>2. (Certified(t) \o l \o h) ++ q = ((c ++ l) ++ h) ++ q
    BY <2>1 DEF ++
  <2> QED BY <1>5, <1>7, <2>2 DEF l
<1>8. CASE t \notin X509Types
  <2>1. Certified(t) = Nil
    BY <1>8 DEF Certified, Nil
  <2> HIDE DEF l, c
  <2>2. (Certified(t) \o l \o h) ++ q = ((Nil ++ l) ++ h) ++ q
    BY <2>1 DEF ++
  <2> QED BY <1>6, <1>8, <2>2 DEF l
<1> QED BY <1>7, <1>8

LEMMA ShapeKeeps ==
  ASSUME ShapeInv, TodoInv, WireInv, ClientNext
  PROVE  ShapeInv' /\ (Shape(todo') \/ Fill \/ InitializeTLSSession)
<1> DEFINE Good(next) == \A q : Shape(q) => Shape(next ++ q)
<1>0. ASequence(todo) /\ tls \in BOOLEAN
  BY DEF TodoInv, ShapeInv
<1>b. ASSUME NEW op, Doing(op) PROVE todo # Nil /\ todo[1].op = op
  BY <1>b DEF Doing, Nil
<1>c. ASSUME NEW op, NEW what, At(op, what)
      PROVE  todo # Nil /\ todo[1].op = op /\ todo[1].what = what
  BY <1>c DEF At, Nil
<1>f. ASSUME NEW why, Fail(why), tls' = tls PROVE Shape(todo') /\ ShapeInv'
  BY <1>0, <1>f, ShapeFails
<1>g. ASSUME NEW next, Continue(next), Good(next), todo # Nil, tls' = tls PROVE Shape(todo') /\ ShapeInv'
  BY <1>0, <1>g, ShapeNext DEF Continue
<1>h. Good(<<>>)
  BY ShapeSteps
<1>1. CASE Fill
  BY <1>1 DEF Fill, client, ShapeInv
<1>2. CASE ReadFails \/ WriteFails \/ HandshakeTLSFails
  BY <1>2, <1>f DEF ReadFails, WriteFails, HandshakeTLSFails
<1>3. CASE Write
  BY <1>3, <1>b, <1>g, <1>h DEF Write
<1>5. CASE ReadData
  <2>1. PICK what \in Data \cup Lengths :
          /\ Take(what)
          /\ \/ Continue(<<>>)
             \/ Fail("refused")
             \/ Fail("long")
          /\ tls' = tls
    BY <1>5 DEF ReadData
  <2> QED BY <2>1, <1>c, <1>f, <1>g, <1>h DEF Take
<1>6. CASE Stop
  BY <1>6, <1>f DEF Stop
<1>7. CASE ReadVersion
  <2>1. Take("version") /\ tls' = tls
    BY <1>7 DEF ReadVersion
  <2>2. todo # Nil
    BY <2>1, <1>c DEF Take
  <2>3. CASE Fail("unknown")
    BY <2>1, <2>3, <1>f
  <2>4. CASE Continue(<<W("version", version'), R(IF Listed(version') THEN "count" ELSE "word")>>)
    <3> DEFINE w == W("version", version')
               r == R(IF Listed(version') THEN "count" ELSE "word")
    <3>1. Simple(w) /\ Simple(r)
      BY SimpleSteps
    <3> HIDE DEF w, r
    <3>2. Good(<<w, r>>)
      BY <3>1, ShapeSteps
    <3>3. Continue(<<w, r>>)
      BY <2>4 DEF w, r
    <3> QED BY <3>2, <3>3, <2>1, <2>2, <1>g
  <2> QED BY <1>7, <2>3, <2>4 DEF ReadVersion
<1>8. CASE ReadWord
  <2>1. Take("word") /\ tls' = tls /\ Continue(<<L("switch")>>)
    BY <1>8 DEF ReadWord
  <2>2. Good(<<L("switch")>>)
    BY ShapeSteps, SimpleSteps
  <2> QED BY <2>1, <2>2, <1>c, <1>g DEF Take
<1>9. CASE ReadCount
  <2>1. Take("count") /\ tls' = tls
    BY <1>9 DEF ReadCount
  <2>2. todo # Nil
    BY <2>1, <1>c DEF Take
  <2>3. CASE todo' = ReadReason
    <3>1. Shape(ReadReason ++ Nil)
      BY ShapeScripts, ShapeNil
    <3>2. ReadReason ++ Nil = ReadReason
      BY ReasonScript, NilSequence
    <3>3. Shape(todo')
      BY <2>3, <3>1, <3>2
    <3> QED BY <1>0, <2>1, <3>3, ShapeAll
  <2>4. CASE Continue(Repeat(Front, R("type")) \o <<L("switch")>>)
    <3>1. Front \in Nat
      BY <2>1, Taken DEF Counts
    <3>2. Good(Repeat(Front, R("type")) \o <<L("switch")>>)
      BY <3>1, ShapeOthers
    <3> QED BY <2>1, <2>2, <2>4, <3>2, <1>g
  <2> QED BY <1>9, <2>3, <2>4 DEF ReadCount
<1>10. CASE ReadType
  <2>1. At("read", "type") /\ (Continue(<<>>) \/ Fail("lost")) /\ tls' = tls
    BY <1>10 DEF ReadType
  <2> QED BY <2>1, <1>c, <1>f, <1>g, <1>h
<1>11. CASE Switch
  <2>1. At("local", "switch") /\ tls' = tls
    BY <1>11 DEF Switch
  <2>2. todo' = (IF SubAuth THEN SubHandler(picked) ELSE Handler(picked)) \o Tail(todo)
    BY <1>11 DEF Switch, Continue
  <2>3. todo' = Handle(picked) \o Tail(todo)
    BY <2>2 DEF Handle
  <2>4. Good(Handle(picked))
    BY ShapeHandle
  <2>5. todo # Nil
    BY <2>1, <1>c
  <2> QED BY <2>1, <2>3, <2>4, <2>5, <1>0, ShapeNext
<1>12. CASE AuthResult
  <2>1. Take("result") /\ tls' = tls
    BY <1>12 DEF AuthResult
  <2>2. Continue(<<>>) \/ todo' = ReadReason \/ Fail("refused")
    BY <1>12 DEF AuthResult
  <2>3. todo # Nil
    BY <2>1, <1>c DEF Take
  <2>4. CASE todo' = ReadReason
    <3>1. Shape(ReadReason ++ Nil)
      BY ShapeScripts, ShapeNil
    <3>2. ReadReason ++ Nil = ReadReason
      BY ReasonScript, NilSequence
    <3>3. Shape(todo')
      BY <2>4, <3>1, <3>2
    <3> QED BY <1>0, <2>1, <3>3, ShapeAll
  <2> QED BY <2>1, <2>2, <2>3, <2>4, <1>f, <1>g, <1>h
<1>13. CASE Local \/ GetPassword \/ GetCredential \/ SaslStrength
  <2>1. /\ \E what : At("local", what)
        /\ Continue(<<>>) \/ Fail("local") \/ Fail("crashed") \/ Fail("weak")
        /\ tls' = tls
    BY <1>13 DEF Local, GetPassword, GetCredential, SaslStrength
  <2> QED BY <2>1, <1>c, <1>f, <1>g, <1>h
<1>14. CASE GetPlainCredential
  <2>1. At("local", "plainCredential") /\ tls' = tls
    BY <1>14 DEF GetPlainCredential
  <2>2. CASE Fail("local")
    BY <2>1, <2>2, <1>f
  <2>3. CASE \E u, p \in 0 .. 1 : Continue(PlainMessage(u, p))
    <3>1. PICK u \in 0 .. 1, p \in 0 .. 1 : Continue(PlainMessage(u, p))
      BY <2>3
    <3>2. Good(PlainMessage(u, p))
      BY ShapeOthers
    <3> QED BY <2>1, <3>1, <3>2, <1>c, <1>g
  <2> QED BY <1>14, <2>2, <2>3 DEF GetPlainCredential
<1>15. CASE InitializeTLSSession
  <2>1. At("local", "tls") /\ tls' = tls
    BY <1>15 DEF InitializeTLSSession
  <2>2. CASE Fail("local")
    BY <2>1, <2>2, <1>f
  <2>3. CASE todo' = <<[op |-> "tls", what |-> "finished"]>> \o Tail(todo)
    <3> DEFINE t == Tail(todo)
    <3>1. todo' = F & t
      BY <2>3 DEF F, &
    <3>2. Shape(t)
      BY <2>1, <1>0, <1>c, ShapeRest
    <3> HIDE DEF t
    <3>3. ShapeInv'
      BY <1>0, <2>1, <3>1, <3>2 DEF ShapeInv, Shape
    <3> QED BY <1>15, <3>3
  <2> QED BY <1>15, <2>2, <2>3 DEF InitializeTLSSession
<1>16. CASE HandshakeTLS
  <2>1. Doing("tls") /\ tls' = TRUE /\ Continue(<<>>)
    BY <1>16 DEF HandshakeTLS
  <2> QED BY <2>1, <1>0, <1>b, <1>h, ShapeNext DEF Continue
<1>17. CASE ReadVeNCryptVersion
  <2>1. /\ Take("veVersion") /\ tls' = tls
        /\ Fail("unknown") \/ Continue(VeNCryptAgreed)
    BY <1>17 DEF ReadVeNCryptVersion
  <2>2. Good(VeNCryptAgreed)
    BY ShapeScripts
  <2> QED BY <2>1, <2>2, <1>c, <1>f, <1>g DEF Take
<1>18. CASE ReadVeNCryptStatus
  <2>1. Take("veStatus") /\ tls' = tls /\ (Fail("refused") \/ Continue(<<>>))
    BY <1>18 DEF ReadVeNCryptStatus
  <2> QED BY <2>1, <1>c, <1>f, <1>g, <1>h DEF Take
<1>19. CASE ReadVeNCryptCount
  <2>1. Take("veCount") /\ tls' = tls
    BY <1>19 DEF ReadVeNCryptCount
  <2>2. Fail("refused") \/ Continue(Repeat(Front, R("veType")) \o <<L("veSwitch")>>)
    BY <1>19 DEF ReadVeNCryptCount
  <2>3. Front \in Nat
    BY <2>1, Taken DEF Counts
  <2>4. Good(Repeat(Front, R("veType")) \o <<L("veSwitch")>>)
    BY <2>3, ShapeOthers
  <2> QED BY <2>1, <2>2, <2>4, <1>c, <1>f, <1>g DEF Take
<1>20. CASE ReadVeNCryptType
  <2>1. At("read", "veType") /\ (Continue(<<>>) \/ Fail("lost")) /\ tls' = tls
    BY <1>20 DEF ReadVeNCryptType
  <2> QED BY <2>1, <1>c, <1>f, <1>g, <1>h
<1>21. CASE VeNCryptChosen
  <2>1. At("local", "veSwitch") /\ (Fail("unknown") \/ Continue(<<R("veAccepted")>>)) /\ tls' = tls
    BY <1>21 DEF VeNCryptChosen
  <2>2. Good(<<R("veAccepted")>>)
    BY ShapeSteps, SimpleSteps
  <2> QED BY <2>1, <2>2, <1>c, <1>f, <1>g
<1>23. CASE SaslStart
  <2>1. At("local", "saslStart") /\ tls' = tls
    BY <1>23 DEF SaslStart
  <2>2. \/ Continue(<<W("mechanism", mech')>> \o SaslExchange(1))
        \/ Fail("local") \/ Fail("crashed")
    BY <1>23 DEF SaslStart
  <2>3. Good(<<W("mechanism", mech')>> \o SaslExchange(1))
    BY ShapeOthers
  <2> QED BY <2>1, <2>2, <2>3, <1>c, <1>f, <1>g
<1>24. CASE ReadSaslData
  <2>1. Take("saslData") /\ tls' = tls /\ (Fail("long") \/ Continue(<<>>))
    BY <1>24 DEF ReadSaslData
  <2> QED BY <2>1, <1>c, <1>f, <1>g, <1>h DEF Take
<1>25. CASE ReadSaslComplete
  <2>1. Take("saslComplete") /\ tls' = tls /\ (Continue(SaslEnd) \/ Continue(<<L("saslStep")>>))
    BY <1>25 DEF ReadSaslComplete
  <2>2. Good(SaslEnd)
    BY ShapeScripts
  <2>3. Good(<<L("saslStep")>>)
    BY ShapeSteps, SimpleSteps
  <2> QED BY <2>1, <2>2, <2>3, <1>c, <1>g DEF Take
<1>26. CASE SaslStep
  <2>1. At("local", "saslStep") /\ tls' = tls
    BY <1>26 DEF SaslStep
  <2>2. \/ Continue(SaslEnd) \/ \E m : Continue(SaslExchange(m))
        \/ Fail("local") \/ Fail("crashed")
    BY <1>26 DEF SaslStep
  <2>3. Good(SaslEnd)
    BY ShapeScripts
  <2>4. \A m : Good(SaslExchange(m))
    BY ShapeOthers
  <2> QED BY <2>1, <2>2, <2>3, <2>4, <1>c, <1>f, <1>g
<1>27. CASE ReadSaslResult
  <2>1. Take("saslResult") /\ tls' = tls /\ (Fail("refused") \/ Continue(<<>>))
    BY <1>27 DEF ReadSaslResult
  <2> QED BY <2>1, <1>c, <1>f, <1>g, <1>h DEF Take
<1>28. CASE SetUpDone
  <2>1. todo' = Nil /\ tls' = tls
    BY <1>28 DEF SetUpDone, Nil
  <2> QED BY <2>1, <1>0, ShapeNil, ShapeAll
<1>22. CASE ReadVeNCryptAccepted
  <2>1. /\ Take("veAccepted") /\ tls' = tls
        /\ Fail("refused") \/ Continue(Certified(picked) \o <<L("tls")>> \o VeNCryptHandler(picked))
    BY <1>22 DEF ReadVeNCryptAccepted, Certified
  <2>2. todo # Nil /\ Decides(todo[1]) /\ todo[1].what = "veAccepted"
    <3>1. todo # Nil /\ todo[1].op = "read" /\ todo[1].what = "veAccepted"
      BY <2>1, <1>c DEF Take
    <3> QED BY <3>1 DEF Decides, Deciding
  <2>3. picked \in VeNCryptTypes
    BY <2>2, FirstFits DEF Fits, Nil
  <2> DEFINE h == VeNCryptHandler(picked)
             next == Certified(picked) \o <<L("tls")>> \o h
  <2>4. ASequence(h)
    BY <2>3, VeSequence
  <2>5. \A q : Shape(q) => Shape(h ++ q)
    BY <2>3, VeScripts, ShapeScripts
  <2> HIDE DEF h
  <2>6. ASSUME NEW q, Shape(q) PROVE Shape(next ++ q)
    <3>1. ASequence(q) /\ Shape(h ++ q)
      BY <2>5, <2>6 DEF Shape
    <3>2. Shape(L("tls") & (h ++ q))
      BY <3>1, ShapeCons, SimpleSteps
    <3>3. Shape(L("certificate") & (L("tls") & (h ++ q)))
      BY <3>2, ShapeCons, SimpleSteps
    <3>4. \/ next ++ q = L("certificate") & (L("tls") & (h ++ q))
          \/ next ++ q = L("tls") & (h ++ q)
      BY <2>4, <3>1, AcceptedScript
    <3> HIDE DEF next
    <3> QED BY <3>2, <3>3, <3>4
  <2>7. Fail("refused") \/ Continue(next)
    BY <2>1 DEF h
  <2> HIDE DEF next
  <2> QED BY <2>1, <2>2, <2>6, <2>7, <1>f, <1>g
<1> QED BY <1>1, <1>2, <1>3, <1>5, <1>6, <1>7, <1>8, <1>9, <1>10, <1>11, <1>12, <1>13, <1>14,
          <1>15, <1>16, <1>17, <1>18, <1>19, <1>20, <1>21, <1>22, <1>23, <1>24, <1>25, <1>26,
          <1>27, <1>28 DEF ClientNext

-------------------------------------------------------------------------------
(* The conversation does not depend on where its messages are.              *)
Idle ==
  UNCHANGED <<choice, tls, saslconn, saslState, reply, taken, serverLayer, exchanges, verdict>>

LEMMA IdleFacts ==
  ASSUME Idle
  PROVE  /\ Firm /\ UNCHANGED verdict /\ UNCHANGED <<choice, reply, taken>>
         /\ version' = version /\ scheme' = scheme /\ sub' = sub /\ picked' = picked
         /\ Fresh' <=> Fresh
         /\ Calm' <=> Calm
         /\ SubAuth' <=> SubAuth
         /\ Quiet' <=> Quiet
         /\ Agreed' <=> Agreed
         /\ Choosing' <=> Choosing
         /\ VeChoosing' <=> VeChoosing
         /\ Before' = Before /\ Both' = Both /\ Type' = Type /\ Minor' = Minor
         /\ \A w : Handle(w)' = Handle(w)
         /\ \A w : ServerHandler(w)' = ServerHandler(w)
<1>1. /\ Firm /\ UNCHANGED verdict /\ UNCHANGED <<choice, reply, taken>>
      /\ version' = version /\ scheme' = scheme /\ sub' = sub /\ picked' = picked
  BY DEF Idle, Firm, choice, saslState
<1>2. /\ Fresh' <=> Fresh
      /\ Calm' <=> Calm
      /\ Minor' = Minor
  BY <1>1, FirmFacts
<1>3. /\ \A w : Handle(w)' = Handle(w)
      /\ SubAuth' <=> SubAuth
  BY <1>1, HandleStays
<1>4. Quiet' <=> Quiet
  BY <1>2, <1>3 DEF Quiet
<1>5. /\ Agreed' <=> Agreed
      /\ Choosing' <=> Choosing
      /\ VeChoosing' <=> VeChoosing
  BY <1>1, <1>2, <1>3 DEF Agreed, Choosing, VeChoosing
<1>6. Before' = Before /\ Both' = Both /\ Type' = Type
  BY <1>1 DEF Before, Both, Type
<1>7. \A w : ServerHandler(w)' = ServerHandler(w)
  BY <1>2 DEF ServerHandler
<1> QED BY <1>1, <1>2, <1>3, <1>4, <1>5, <1>6, <1>7

LEMMA WordStays ==
  ASSUME Idle, NEW w, NEW s, WordServed(w, s)
  PROVE  WordServed(w, s)'
<1>0. Firm /\ verdict' = verdict
  BY IdleFacts
<1> PICK tk : tk = One(w)
  OBVIOUS
<1> PICK c : c = Handle(w) ++ Z
  OBVIOUS
<1>1. \/ Fresh /\ taken = Nil /\ s = Chosen(w) & Nil
      \/ taken = tk /\ Talk(tk, c, s)
  BY DEF WordServed
<1>2. c = Handle(w)' ++ Z /\ taken' = taken
  BY IdleFacts
<1>3. Talk(tk, c, s) => Talk(tk, c, s)'
  BY <1>0, TalkStays
<1>4. Fresh' <=> Fresh
  BY IdleFacts
<1> QED BY <1>1, <1>2, <1>3, <1>4 DEF WordServed

LEMMA ListingStays ==
  ASSUME Idle, NEW c, NEW s, Listing(c, s)
  PROVE  Listing(c, s)'
<1>1. /\ Choosing' /\ picked' = picked /\ taken' = taken /\ Before' = Before
      /\ Quiet' <=> Quiet
      /\ SubAuth' <=> SubAuth
      /\ \A w : Handle(w)' = Handle(w)
  BY IdleFacts DEF Listing
<1>2. CASE Unpicked(c, s)
  BY <1>1, <1>2 DEF Listing, Unpicked
<1>3. CASE Picked(c, s)
  BY <1>1, <1>3 DEF Listing, Picked, Selectable
<1>4. CASE Heard(c, s)
  <2>0. Firm /\ verdict' = verdict
    BY IdleFacts
  <2> PICK h : h = Handle(picked) ++ Z
    OBVIOUS
  <2>1. PICK B : Types(B, c, s) /\ Talk(taken, h, B)
    BY <1>4 DEF Heard
  <2>2. PICK tk : tk = taken
    OBVIOUS
  <2>3. h = Handle(picked)' ++ Z
    BY <1>1
  <2>4. Talk(tk, h, B)'
    BY <2>0, <2>1, <2>2, TalkStays
  <2>5. taken' = tk
    BY <1>1, <2>2
  <2>6. Selectable(picked, SubAuth)' /\ (taken = Added(Before, picked))'
    BY <1>1, <1>4 DEF Heard, Selectable
  <2> QED BY <1>1, <2>1, <2>3, <2>4, <2>5, <2>6 DEF Listing, Heard
<1> QED BY <1>2, <1>3, <1>4 DEF Listing

LEMMA VeListingStays ==
  ASSUME Idle, NEW c, NEW s, VeListing(c, s)
  PROVE  VeListing(c, s)'
<1>1. VeChoosing' /\ picked' = picked /\ taken' = taken
  BY IdleFacts DEF VeListing
<1>2. \A B : VeTypes(B, c, s) => VeTypes(B, c, s)'
  BY <1>1 DEF VeTypes
<1>3. \A B : \A c1 : VeTypes(B, c1, s) => VeTypes(B, c1, s)'
  BY <1>1 DEF VeTypes
<1>4. \A B : Accepts(picked, B) => Accepts(picked, B)'
  BY <1>1 DEF Accepts
<1>5. VeUnpicked(c, s) => VeUnpicked(c, s)'
  BY <1>1, <1>2 DEF VeUnpicked
<1>6. VePicked(c, s) => VePicked(c, s)'
  BY <1>1, <1>3 DEF VePicked
<1>7. VeHeard(c, s) => VeHeard(c, s)'
  BY <1>1, <1>2, <1>4 DEF VeHeard
<1> QED BY <1>1, <1>5, <1>6, <1>7 DEF VeListing

LEMMA PendingStays ==
  ASSUME Idle, NEW c, NEW s, Pending(c, s)
  PROVE  Pending(c, s)'
<1>0. Firm /\ verdict' = verdict
  BY IdleFacts
<1> PICK h : h = ServerHandler(Type)
  OBVIOUS
<1>1. /\ scheme' = scheme /\ sub' = sub /\ taken' = taken /\ Type' = Type /\ Both' = Both
      /\ Calm' <=> Calm
      /\ Fresh' <=> Fresh
      /\ SubAuth' <=> SubAuth
      /\ h = ServerHandler(Type)'
  BY IdleFacts
<1>2. PICK tk : tk = Both
  OBVIOUS
<1>3. \A c1 : Early(tk, c1, h) => Early(tk, c1, h)'
  BY <1>0, EarlyStays
<1>4. \A c1 : Early(Both, c1, h) => Early(tk, c1, h)'
  BY <1>2, <1>3
<1>5. tk = Both'
  BY <1>1, <1>2
<1>6. /\ scheme # NoType /\ Calm
      /\ IF sub = NoType THEN Fresh /\ taken = Nil ELSE SubAuth /\ taken = OnlyTLS
      /\ \/ /\ s = G("choice") & Nil
            /\ \E c1 : c = W("choice", Type) & c1 /\ Early(Both, c1, h)
         \/ /\ s = Chosen(Type) & Nil /\ Type \in Words /\ sub = NoType
            /\ Early(Both, c, h)
  BY DEF Pending
<1>7. /\ scheme' # NoType /\ Calm'
      /\ IF sub' = NoType THEN Fresh' /\ taken' = Nil ELSE SubAuth' /\ taken' = OnlyTLS
  BY <1>1, <1>6
<1>8. \/ /\ s = G("choice") & Nil
         /\ \E c1 : c = W("choice", Type') & c1 /\ Early(tk, c1, h)'
      \/ /\ s = Chosen(Type') & Nil /\ Type' \in Words /\ sub' = NoType
         /\ Early(tk, c, h)'
  BY <1>1, <1>4, <1>6
<1> QED BY <1>1, <1>5, <1>7, <1>8 DEF Pending

LEMMA StraightStays ==
  ASSUME Idle, NEW c, NEW s, Straight(c, s)
  PROVE  Straight(c, s)'
<1>1. PICK tk : tk = Both
  OBVIOUS
<1>2. taken' = tk /\ Both' = tk
  BY <1>1, IdleFacts DEF Straight
<1>3. Talk(tk, c, s)'
  BY <1>1, IdleFacts, TalkStays DEF Straight
<1> QED BY <1>2, <1>3 DEF Straight

LEMMA TalkingStays ==
  ASSUME Idle, NEW c, NEW s, Talking(c, s)
  PROVE  Talking(c, s)'
<1>1. CASE Greeting(c, s)
  <2>1. Greeting(c, s)'
    BY <1>1, IdleFacts DEF Greeting
  <2> QED BY <2>1 DEF Talking
<1>2. CASE Agreed /\ WordTalk(c, s)
  <2>1. \A w : \A s1 : WordServed(w, s1) => WordServed(w, s1)'
    BY WordStays
  <2>2. WordTalk(c, s)' /\ Agreed'
    BY <1>2, <2>1, IdleFacts DEF WordTalk
  <2> QED BY <2>2 DEF Talking
<1>3. CASE Agreed /\ (Listing(c, s) \/ VeListing(c, s) \/ Pending(c, s) \/ Straight(c, s))
  BY <1>3, IdleFacts, ListingStays, VeListingStays, PendingStays, StraightStays DEF Talking
<1>4. CASE Ends(c)
  BY <1>4 DEF Talking
<1> QED BY <1>1, <1>2, <1>3, <1>4 DEF Talking

-------------------------------------------------------------------------------
(* The conversation of a session.  What is written and not got yet comes    *)
(* before what the client still has to do, what is sent and not read yet    *)
(* before what the server has to do.  Of a connection that is lost, what    *)
(* would still have come is remembered: the client may go on for a while.   *)
Side(p) == p ++ Remaining
Other(d) == (Sent(inbox) ++ Sent(toClient)) ++ d
Ghost(p, d) ==
  /\ AllOp(p, "write") /\ ASequence(d)
  /\ ~closed => p = Written(toServer) /\ d = steps
Conv ==
  outcome \in {"going", "ready"} => \E p, d : Ghost(p, d) /\ Talking(Side(p), Other(d))

LEMMA Sequences ==
  ASSUME ChoiceInv
  PROVE  /\ ASequence(inbox) /\ ASequence(toClient) /\ ASequence(toServer)
         /\ ASequence(steps) /\ ASequence(todo)
<1>1. ASequence(todo)
  BY DEF ChoiceInv, TodoInv
<1>2. Counted(inbox) /\ Counted(toClient) /\ Answers(toServer) /\ Serves(steps)
  BY DEF ChoiceInv, WireInv
<1>3. ASequence(inbox) /\ ASequence(toClient)
  BY <1>2 DEF Counted, ASequence
<1>4. ASequence(toServer) /\ ASequence(steps)
  BY <1>2 DEF Answers, Serves, ASequence
<1> QED BY <1>1, <1>3, <1>4

LEMMA ConvThere ==
  ASSUME NEW p, NEW d, Ghost(p, d)', NEW c, c = Side(p)', NEW s, s = Other(d)', Talking(c, s)'
  PROVE  Conv'
<1>1. Talking(Side(p), Other(d))'
  OBVIOUS
<1> QED BY <1>1 DEF Conv

LEMMA ConvOver ==
  ASSUME outcome' \notin {"going", "ready"}
  PROVE  Conv'
BY DEF Conv

LEMMA GhostStays ==
  ASSUME UNCHANGED <<closed, toServer, steps>>, NEW p, NEW d, Ghost(p, d)
  PROVE  Ghost(p, d)'
BY DEF Ghost

(* Something is written, whether it arrives or not. *)
LEMMA GhostPuts ==
  ASSUME ASequence(toServer), UNCHANGED <<closed, steps>>, NEW p, NEW d, Ghost(p, d),
         NEW what, NEW val, Put(what, val)
  PROVE  Ghost(p ++ (W(what, val) & Nil), d)' /\ AllOp(p ++ (W(what, val) & Nil), "write")
<1> DEFINE w == W(what, val)
           m == [what |-> what, val |-> val, layer |-> layer]
<1>1. AllOp(p, "write") /\ ASequence(d)
  BY DEF Ghost
<1>2. AllOp(w & Nil, "write")
  BY Kinds, AllOpNil, AllOpCons
<1>3. AllOp(p ++ (w & Nil), "write")
  <2> HIDE DEF w
  <2> QED BY <1>1, <1>2, AllOpJoin
<1>4. PICK q : q = p ++ (w & Nil)
  OBVIOUS
<1>5. CASE closed
  <2>1. Ghost(q, d)'
    BY <1>1, <1>3, <1>4, <1>5 DEF Ghost
  <2> QED BY <2>1, <1>3, <1>4
<1>6. CASE ~closed
  <2>1. p = Written(toServer) /\ d = steps
    BY <1>6 DEF Ghost
  <2>2. toServer' = Append(toServer, m)
    BY <1>6 DEF Put
  <2>3. W(m.what, m.val) = w
    BY DEF m, w
  <2> HIDE DEF m, w
  <2>4. Written(Append(toServer, m)) = Written(toServer) ++ (W(m.what, m.val) & Nil)
    BY WrittenEnds
  <2>5. Written(toServer)' = Written(toServer')
    BY DEF Written
  <2>6. q = Written(toServer)'
    BY <1>4, <2>1, <2>2, <2>3, <2>4, <2>5
  <2>7. Ghost(q, d)'
    BY <1>1, <1>3, <1>4, <2>1, <2>6 DEF Ghost
  <2> QED BY <2>7, <1>3, <1>4 DEF w
<1> QED BY <1>5, <1>6

(* What the client reads next, and what comes after it. *)
Later(d) == (Sent(Tail(inbox)) ++ Sent(toClient)) ++ d
Next1 == S(inbox[1].what, inbox[1].val)

LEMMA OtherFacts ==
  ASSUME ASequence(inbox), ASequence(toClient), NEW d, ASequence(d)
  PROVE  /\ ASequence(Other(d))
         /\ inbox # Nil => Other(d) = Next1 & Later(d) /\ ASequence(Later(d))
         /\ inbox = Nil => Other(d) = Sent(toClient) ++ d
         /\ AllOp(Sent(inbox) ++ Sent(toClient), "send")
<1>1. /\ ASequence(Sent(inbox)) /\ ASequence(Sent(toClient))
      /\ AllOp(Sent(inbox), "send") /\ AllOp(Sent(toClient), "send")
  BY SentFacts
<1>2. AllOp(Sent(inbox) ++ Sent(toClient), "send")
  BY <1>1, AllOpJoin
<1>3. ASequence(Other(d))
  BY <1>1, JoinSequence DEF Other
<1>4. ASSUME inbox # Nil
      PROVE  Other(d) = Next1 & Later(d) /\ ASequence(Later(d))
  <2> DEFINE i == Tail(inbox)
  <2>1. Sent(inbox) = Next1 & Sent(i)
    BY <1>4, SentEnds DEF Next1
  <2>2. ASequence(i)
    BY <1>4, Decompose DEF Nil
  <2>3. ASequence(Sent(i))
    BY <2>2, SentFacts
  <2> DEFINE a == Sent(i)
             b == Sent(toClient)
  <2>4. ASequence(a) /\ ASequence(b) /\ Sent(inbox) = Next1 & a /\ Later(d) = (a ++ b) ++ d
        /\ Other(d) = (Sent(inbox) ++ b) ++ d
    BY <1>1, <2>1, <2>3 DEF Later, Other
  <2> HIDE DEF a, b
  <2>5. (Next1 & a) ++ b = Next1 & (a ++ b) /\ ASequence(a ++ b)
    BY <2>4, JoinCons, JoinSequence
  <2>6. (Next1 & (a ++ b)) ++ d = Next1 & ((a ++ b) ++ d) /\ ASequence((a ++ b) ++ d)
    BY <2>5, JoinCons, JoinSequence
  <2> QED BY <2>4, <2>5, <2>6
<1>5. ASSUME inbox = Nil
      PROVE  Other(d) = Sent(toClient) ++ d
  <2>1. Sent(inbox) = Nil
    BY <1>5, SentEnds
  <2>2. Nil ++ Sent(toClient) = Sent(toClient)
    BY <1>1, JoinNil
  <2> QED BY <2>1, <2>2 DEF Other
<1> QED BY <1>2, <1>3, <1>4, <1>5

(* The client reads. *)
LEMMA ConvReads ==
  ASSUME Conv, ShapeInv, ChoiceInv, outcome = "going", todo # Nil, todo[1].op = "read", inbox # Nil
  PROVE  \E p, d : /\ Ghost(p, d) /\ AllOp(p, "write") /\ ASequence(Later(d)) /\ Next1.op = "send"
                   /\ Next1.what = inbox[1].what /\ Next1.val = Front
                   /\ Talking(p ++ (R(todo[1].what) & Tail(todo)), Next1 & Later(d))
<1>1. PICK p, d : Ghost(p, d) /\ Talking(Side(p), Other(d))
  BY DEF Conv
<1>2. Other(d) = Next1 & Later(d) /\ ASequence(Later(d))
  BY <1>1, Sequences, OtherFacts DEF Ghost
<1>3. Side(p) = p ++ (R(todo[1].what) & Tail(todo))
  BY Sequences, ShapeRest DEF Side, Remaining
<1>4. Next1.op = "send" /\ Next1.what = inbox[1].what /\ Next1.val = Front
  BY Kinds DEF Next1, Front
<1>5. AllOp(p, "write")
  BY <1>1 DEF Ghost
<1> QED BY <1>1, <1>2, <1>3, <1>4, <1>5

(* ... and has done so. *)
LEMMA ReadThere ==
  ASSUME NEW p, NEW d, Ghost(p, d), outcome' = "going", inbox' = Tail(inbox),
         UNCHANGED <<toClient, toServer, closed, steps>>,
         NEW c, c = p ++ todo', NEW s, s = Later(d), Talking(c, s)'
  PROVE  Conv'
<1>1. Ghost(p, d)'
  BY GhostStays
<1>2. c = Side(p)'
  BY DEF Side, Remaining
<1>3. Sent(inbox)' = Sent(Tail(inbox)) /\ Sent(toClient)' = Sent(toClient)
  BY DEF Sent
<1>4. s = Other(d)'
  BY <1>3 DEF Later, Other
<1> QED BY <1>1, <1>2, <1>4, ConvThere

(* The client does something by itself. *)
LEMMA ConvLocals ==
  ASSUME Conv, ShapeInv, ChoiceInv, NEW what, At("local", what)
  PROVE  \E p, d : /\ Ghost(p, d) /\ AllOp(p, "write") /\ ASequence(d) /\ ASequence(Other(d))
                   /\ ASequence(Tail(todo)) /\ Talking(p ++ (L(what) & Tail(todo)), Other(d))
<1>0. outcome = "going" /\ todo # Nil /\ todo[1].op = "local" /\ todo[1].what = what
  BY DEF At, Nil
<1>1. PICK p, d : Ghost(p, d) /\ Talking(Side(p), Other(d))
  BY <1>0 DEF Conv
<1>2. ASequence(Other(d)) /\ ASequence(d) /\ AllOp(p, "write")
  BY <1>1, Sequences, OtherFacts DEF Ghost
<1>3. todo = L(what) & Tail(todo) /\ ASequence(Tail(todo))
  BY <1>0, Sequences, ShapeRest
<1>4. Remaining = todo
  BY <1>0 DEF Remaining
<1>5. Talking(p ++ (L(what) & Tail(todo)), Other(d))
  BY <1>1, <1>3, <1>4 DEF Side
<1> QED BY <1>1, <1>2, <1>3, <1>5

LEMMA LocalThere ==
  ASSUME NEW p, NEW d, Ghost(p, d), outcome' = "going", UNCHANGED <<wire, closed, steps>>,
         NEW c, c = p ++ todo', NEW s, s = Other(d), Talking(c, s)'
  PROVE  Conv'
<1>0. inbox' = inbox /\ toClient' = toClient /\ toServer' = toServer
  BY DEF wire
<1>1. Ghost(p, d)'
  BY <1>0, GhostStays
<1>2. c = Side(p)'
  BY DEF Side, Remaining
<1>3. Sent(inbox)' = Sent(inbox) /\ Sent(toClient)' = Sent(toClient)
  BY <1>0 DEF Sent
<1>4. s = Other(d)'
  BY <1>3 DEF Other
<1> QED BY <1>1, <1>2, <1>4, ConvThere
(* The server gets what the client has written, ... *)
Under == Sent(inbox) ++ Sent(toClient)

LEMMA RemainingFacts ==
  ASSUME ChoiceInv
  PROVE  ASequence(Remaining) /\ AllOp(Under, "send") /\ ASequence(Under)
<1>1. ASequence(Remaining)
  BY Sequences, ConsSequence, NilSequence DEF Remaining
<1>2. AllOp(Under, "send")
  <2>1. ASequence(inbox) /\ ASequence(toClient)
    BY Sequences
  <2> QED BY <2>1, SentFacts, AllOpJoin DEF Under
<1> QED BY <1>1, <1>2, AllOpSequence

Rest1 == Written(Tail(toServer)) ++ Remaining
First1 == W(toServer[1].what, toServer[1].val)

LEMMA ConvGets ==
  ASSUME Conv, ChoiceInv, outcome \in {"going", "ready"}, ~closed, toServer # Nil,
         steps # Nil
  PROVE  /\ First1.op = "write" /\ First1.what = toServer[1].what /\ First1.val = Got
         /\ ASequence(Rest1)
         /\ AllOp(Under, "send") /\ ASequence(Tail(steps))
         /\ AllOp(Written(Tail(toServer)), "write")
         /\ Talking(First1 & Rest1, Under ++ (steps[1] & Tail(steps)))
<1>1. PICK p, d : Ghost(p, d) /\ Talking(Side(p), Other(d))
  BY DEF Conv
<1>2. p = Written(toServer) /\ d = steps
  BY <1>1 DEF Ghost
<1> DEFINE v == Tail(toServer)
<1>3. ASequence(v) /\ Written(toServer) = First1 & Written(v)
  <2>1. ASequence(toServer)
    BY Sequences
  <2>2. ASequence(v)
    BY <2>1, Decompose DEF Nil
  <2>3. Written(toServer) = First1 & Written(v)
    BY <2>1, WrittenEnds DEF First1
  <2> QED BY <2>2, <2>3
<1>4. ASequence(Remaining) /\ AllOp(Under, "send")
  BY RemainingFacts
<1> DEFINE y == Written(v)
<1>5. ASequence(y) /\ AllOp(y, "write") /\ p = First1 & y /\ Rest1 = y ++ Remaining
  BY <1>2, <1>3, WrittenFacts DEF Rest1
<1> HIDE DEF v, y
<1>6. Side(p) = First1 & Rest1 /\ ASequence(Rest1)
  <2>1. (First1 & y) ++ Remaining = First1 & (y ++ Remaining) /\ ASequence(y ++ Remaining)
    BY <1>4, <1>5, JoinCons, JoinSequence
  <2> QED BY <1>5, <2>1 DEF Side
<1>7. d = steps[1] & Tail(steps) /\ ASequence(Tail(steps))
  BY <1>2, Sequences, Decompose DEF Nil
<1>8. Other(d) = Under ++ (steps[1] & Tail(steps))
  BY <1>7 DEF Other, Under
<1>9. Talking(First1 & Rest1, Under ++ (steps[1] & Tail(steps)))
  BY <1>1, <1>6, <1>8
<1>10. First1.op = "write" /\ First1.what = toServer[1].what /\ First1.val = Got
  BY Kinds DEF First1, Got
<1> QED BY <1>4, <1>5, <1>6, <1>7, <1>9, <1>10 DEF y, v

LEMMA GetThere ==
  ASSUME AllOp(Written(Tail(toServer)), "write"), toServer' = Tail(toServer),
         UNCHANGED <<client, inbox, toClient, closed>>, ~closed, NEW e, ASequence(e), steps' = e,
         NEW c, c = Rest1, NEW r, r = Under, Talking(c, r ++ e)'
  PROVE  Conv'
<1>1. PICK p : p = Written(Tail(toServer))
  OBVIOUS
<1>2. Written(toServer)' = p
  BY <1>1 DEF Written
<1>3. Ghost(p, e)'
  BY <1>1, <1>2 DEF Ghost
<1>4. Remaining' = Remaining
  BY DEF Remaining, client
<1>5. c = Side(p)'
  BY <1>1, <1>4 DEF Rest1, Side
<1>6. Under' = Under
  BY DEF Under, Sent
<1>7. PICK s : s = r ++ e
  OBVIOUS
<1>8. s = Other(e)'
  BY <1>6, <1>7 DEF Under, Other
<1>9. Talking(c, s)'
  BY <1>7
<1> QED BY <1>3, <1>5, <1>8, <1>9, ConvThere

(* ... and decides. *)
LEMMA ConvDecides ==
  ASSUME Conv, ChoiceInv, outcome \in {"going", "ready"}, ~closed, steps # Nil
  PROVE  \E p : /\ p = Written(toServer) /\ AllOp(p, "write") /\ AllOp(Under, "send")
                /\ ASequence(Tail(steps))
                /\ Talking(Side(p), Under ++ (steps[1] & Tail(steps)))
<1>1. PICK p, d : Ghost(p, d) /\ Talking(Side(p), Other(d))
  BY DEF Conv
<1>2. p = Written(toServer) /\ d = steps /\ AllOp(p, "write")
  BY <1>1 DEF Ghost
<1>3. d = steps[1] & Tail(steps) /\ ASequence(Tail(steps))
  BY <1>2, Sequences, Decompose DEF Nil
<1>4. Talking(Side(p), Under ++ (steps[1] & Tail(steps)))
  BY <1>1, <1>3 DEF Other, Under
<1> QED BY <1>2, <1>3, <1>4, RemainingFacts

LEMMA DecideThere ==
  ASSUME NEW p, p = Written(toServer), AllOp(p, "write"),
         UNCHANGED <<client, wire, closed>>, ~closed, NEW e, ASequence(e), steps' = e,
         NEW c, c = Side(p), NEW r, r = Under, Talking(c, r ++ e)'
  PROVE  Conv'
<1>0. toServer' = toServer /\ inbox' = inbox /\ toClient' = toClient
  BY DEF wire
<1>2. Written(toServer)' = p
  BY <1>0 DEF Written
<1>3. Ghost(p, e)'
  BY <1>2 DEF Ghost
<1>4. Remaining' = Remaining
  BY DEF Remaining, client
<1>5. c = Side(p)'
  BY <1>4 DEF Side
<1>6. Under' = Under
  BY <1>0 DEF Under, Sent
<1>7. PICK s : s = r ++ e
  OBVIOUS
<1>8. s = Other(e)'
  BY <1>6, <1>7 DEF Under, Other
<1>9. Talking(c, s)'
  BY <1>7
<1> QED BY <1>3, <1>5, <1>8, <1>9, ConvThere

-------------------------------------------------------------------------------
(* Messages that move along.                                                *)
LEMMA ConvMoves ==
  ASSUME Conv, Idle, outcome' \in {"going", "ready"} => outcome \in {"going", "ready"},
         \A p, d : Ghost(p, d) => \E p1, d1 : Ghost(p1, d1)' /\ Side(p1)' = Side(p) /\ Other(d1)' = Other(d)
  PROVE  Conv'
<1> SUFFICES ASSUME outcome' \in {"going", "ready"} PROVE Conv'
  BY ConvOver
<1>1. PICK p, d : Ghost(p, d) /\ Talking(Side(p), Other(d))
  BY DEF Conv
<1>2. PICK p1, d1 : Ghost(p1, d1)' /\ Side(p1)' = Side(p) /\ Other(d1)' = Other(d)
  BY <1>1
<1> PICK c : c = Side(p)
  OBVIOUS
<1> PICK s : s = Other(d)
  OBVIOUS
<1>3. Talking(c, s)'
  BY <1>1, TalkingStays
<1> QED BY <1>2, <1>3, ConvThere

LEMMA SendMoves ==
  ASSUME Conv, ChoiceInv, ServerSend
  PROVE  Conv'
<1>1. /\ ~closed /\ steps # Nil /\ steps[1].op = "send" /\ steps' = <<>> \o Tail(steps)
      /\ toClient' = Append(toClient, [what |-> steps[1].what, val |-> steps[1].val, layer |-> serverLayer])
      /\ Idle /\ outcome' = outcome /\ todo' = todo /\ inbox' = inbox /\ toServer' = toServer /\ closed' = closed
  BY DEF ServerSend, Nil, Then, Idle, client, choice, saslState
<1> PICK d1 : d1 = Tail(steps)
  OBVIOUS
<1> DEFINE m == [what |-> steps[1].what, val |-> steps[1].val, layer |-> serverLayer]
<1>2. steps = steps[1] & d1 /\ ASequence(d1)
  BY <1>1, Sequences, Decompose DEF Nil
<1>3. steps' = d1
  BY <1>1, <1>2, Empties
<1>4. S(m.what, m.val) = steps[1]
  <2>1. Serves(steps)
    BY DEF ChoiceInv, WireInv
  <2>2. Serving(steps[1])
    BY <1>1, <2>1, ServesRest DEF Nil
  <2> QED BY <1>1, <2>2 DEF Serving
<1>5. Remaining' = Remaining /\ Written(toServer)' = Written(toServer)
  BY <1>1 DEF Remaining, Written
<1> HIDE DEF m
<1>6. Sent(toClient') = Sent(toClient) ++ (steps[1] & Nil)
  <2>1. ASequence(toClient)
    BY Sequences
  <2>2. Sent(Append(toClient, m)) = Sent(toClient) ++ (S(m.what, m.val) & Nil)
    BY <2>1, SentEnds
  <2>3. toClient' = Append(toClient, m)
    BY <1>1 DEF m
  <2> QED BY <1>4, <2>2, <2>3
<1>7. Sent(toClient)' = Sent(toClient') /\ Sent(inbox)' = Sent(inbox)
  BY <1>1 DEF Sent
<1>8. Other(d1)' = Other(steps)
  <2> PICK i : i = Sent(inbox)
    OBVIOUS
  <2> PICK k : k = Sent(toClient)
    OBVIOUS
  <2> PICK x : x = steps[1]
    OBVIOUS
  <2>1. ASequence(i) /\ ASequence(k) /\ ASequence(x & Nil)
    BY Sequences, SentFacts, ConsSequence, NilSequence
  <2>2. (x & Nil) ++ d1 = x & d1
    BY <1>2, JoinCons, JoinNil, NilSequence
  <2>3. (i ++ (k ++ (x & Nil))) ++ d1 = ((i ++ k) ++ (x & Nil)) ++ d1
    BY <2>1, JoinAssoc
  <2>4. ((i ++ k) ++ (x & Nil)) ++ d1 = (i ++ k) ++ ((x & Nil) ++ d1)
    BY <1>2, <2>1, JoinSequence, JoinAssoc, SMTT(30)
  <2>5. PICK e : e = d1
    OBVIOUS
  <2>6. Other(e)' = (i ++ (k ++ (x & Nil))) ++ e
    BY <1>6, <1>7 DEF Other
  <2>7. Other(steps) = (i ++ k) ++ (x & d1)
    BY <1>2 DEF Other
  <2> QED BY <2>2, <2>3, <2>4, <2>5, <2>6, <2>7
<1>9. ASSUME NEW p, NEW d, Ghost(p, d)
      PROVE  \E p1, d2 : Ghost(p1, d2)' /\ Side(p1)' = Side(p) /\ Other(d2)' = Other(d)
  <2>1. p = Written(toServer) /\ d = steps /\ AllOp(p, "write")
    BY <1>1, <1>9 DEF Ghost
  <2>2. PICK e : e = d1
    OBVIOUS
  <2>3. Ghost(p, e)'
    BY <1>1, <1>2, <1>3, <1>5, <2>1, <2>2 DEF Ghost
  <2>4. Side(p)' = Side(p)
    BY <1>5 DEF Side
  <2>5. Other(e)' = Other(d)
    BY <1>8, <2>1, <2>2
  <2> QED BY <2>3, <2>4, <2>5
<1> QED BY <1>1, <1>9, ConvMoves

LEMMA WriteMoves ==
  ASSUME Conv, ChoiceInv, ShapeInv, Write
  PROVE  Conv'
<1>1. /\ outcome = "going" /\ todo # Nil /\ todo[1].op = "write" /\ todo' = <<>> \o Tail(todo)
      /\ outcome' = outcome /\ Put(todo[1].what, todo[1].val) /\ Idle
      /\ inbox' = inbox /\ toClient' = toClient /\ closed' = closed /\ steps' = steps
  BY DEF Write, Doing, Continue, Nil, Idle, server
<1> PICK w : w = W(todo[1].what, todo[1].val)
  OBVIOUS
<1> PICK t : t = Tail(todo)
  OBVIOUS
<1>2. todo = w & t /\ ASequence(t)
  BY <1>1, Sequences, ShapeRest
<1>3. todo' = t
  BY <1>1, <1>2, Empties
<1>4. ASSUME NEW p, NEW d, Ghost(p, d)
      PROVE  \E p1, d1 : Ghost(p1, d1)' /\ Side(p1)' = Side(p) /\ Other(d1)' = Other(d)
  <2>1. Ghost(p ++ (w & Nil), d)' /\ ASequence(p)
    <3>1. UNCHANGED <<closed, steps>> /\ ASequence(toServer)
      BY <1>1, Sequences
    <3> QED BY <1>1, <1>4, <3>1, GhostPuts, AllOpSequence DEF Ghost
  <2> PICK q : q = p ++ (w & Nil)
    OBVIOUS
  <2>2. q ++ t = p ++ (w & t)
    <3>1. ASequence(w & Nil) /\ (w & Nil) ++ t = w & t
      BY <1>2, ConsSequence, NilSequence, JoinCons, JoinNil
    <3>3. ASequence(p)
      BY <2>1
    <3>4. \E y : y = w & Nil
      BY ONLY NilSequence
    <3> PICK y : y = w & Nil
      BY ONLY <3>4
    <3>5. ASequence(y) /\ ASequence(t)
      BY <1>2, <3>1
    <3>2. (p ++ y) ++ t = p ++ (y ++ t)
      BY ONLY <3>3, <3>5, JoinAssoc
    <3> QED BY <3>1, <3>2
  <2>3. Side(p) = p ++ (w & t)
    BY <1>1, <1>2 DEF Side, Remaining
  <2>4. Side(q)' = q ++ t
    BY <1>1, <1>3 DEF Side, Remaining
  <2>5. Other(d)' = Other(d)
    BY <1>1 DEF Other, Sent
  <2> QED BY <2>1, <2>2, <2>3, <2>4, <2>5
<1> QED BY <1>1, <1>4, ConvMoves

LEMMA FillMoves ==
  ASSUME Conv, ChoiceInv, Fill, \A i \in 1 .. Len(toClient) : toClient[i].layer = layer
  PROVE  Conv'
<1>1. /\ inbox = Nil /\ todo' = todo /\ outcome' = outcome /\ Idle
      /\ UNCHANGED <<toServer, closed, steps>>
  BY DEF Fill, Nil, Idle, client, server, choice, saslState
<1>2. PICK n \in 1 .. Len(toClient) :
             /\ inbox' = [i \in 1 .. n |-> IF toClient[i].layer = layer
                                             THEN toClient[i]
                                             ELSE [toClient[i] EXCEPT !.what = "garbage"]]
             /\ toClient' = SubSeq(toClient, n + 1, Len(toClient))
  BY DEF Fill
<1>3. ASequence(toClient) /\ Len(toClient) \in Nat /\ n \in Nat
  BY Sequences, LenProperties DEF ASequence
<1>4. inbox' = [i \in 1 .. n |-> toClient[i]]
  BY <1>2, <1>3
<1> PICK u : u = inbox'
  OBVIOUS
<1> PICK v : v = toClient'
  OBVIOUS
<1>5. /\ ASequence(u) /\ Len(u) = n
      /\ \A i \in 1 .. n : u[i] = toClient[i]
  <2>1. PICK E : toClient \in Seq(E)
    BY <1>3 DEF ASequence
  <2>4. \A i \in 1 .. n : toClient[i] \in E
    BY <1>2, <1>3, <2>1, ElementOfSeq
  <2>5. u \in [1 .. n -> E]
    BY <1>4, <2>4
  <2>2. u \in Seq(E) /\ Len(u) = n
    BY <1>3, <2>5
  <2>3. \A i \in 1 .. n : u[i] = toClient[i]
    BY <1>4
  <2> QED BY <1>4, <2>2, <2>3 DEF ASequence
<1>6. /\ ASequence(v) /\ Len(v) = Len(toClient) - n
      /\ \A i \in 1 .. Len(toClient) - n : v[i] = toClient[i + n]
  <2>1. PICK E : toClient \in Seq(E)
    BY <1>3 DEF ASequence
  <2>2. v \in Seq(E) /\ Len(v) = Len(toClient) - n
    BY <1>2, <1>3, <2>1, SubSeqProperties, SMTT(30)
  <2>3. \A i \in 1 .. Len(toClient) - n : v[i] = toClient[i + n]
    BY <1>2, <1>3, <2>1, SubSeqProperties, SMTT(30)
  <2> QED BY <2>2, <2>3 DEF ASequence
<1>7. Sent(toClient) = Sent(u) ++ Sent(v)
  <2>1. n \in 0 .. Len(toClient)
    BY <1>3
  <2>2. \A i \in 1 .. n : u[i].what = toClient[i].what /\ u[i].val = toClient[i].val
    BY <1>5
  <2>3. /\ ASequence(toClient) /\ n \in 0 .. Len(toClient) /\ ASequence(u) /\ ASequence(v)
        /\ Len(u) = n /\ Len(v) = Len(toClient) - n
        /\ \A i \in 1 .. Len(toClient) - n : v[i] = toClient[i + n]
    BY <1>3, <1>5, <1>6, <2>1
  <2> QED BY ONLY <2>2, <2>3, SentParts, SMTT(30)
<1>8. Sent(inbox)' = Sent(u) /\ Sent(toClient)' = Sent(v)
  BY DEF Sent
<1>9. ASSUME NEW p, NEW d, Ghost(p, d)
      PROVE  \E p1, d1 : Ghost(p1, d1)' /\ Side(p1)' = Side(p) /\ Other(d1)' = Other(d)
  <2>1. Ghost(p, d)'
    BY <1>1, <1>9, GhostStays
  <2>2. Side(p)' = Side(p)
    BY <1>1 DEF Side, Remaining
  <2>3. Other(d) = Sent(toClient) ++ d
    BY <1>1, <1>9, Sequences, OtherFacts DEF Ghost
  <2>4. Other(d)' = (Sent(u) ++ Sent(v)) ++ d
    BY <1>8 DEF Other
  <2> QED BY <1>7, <2>1, <2>2, <2>3, <2>4
<1> QED BY <1>1, <1>9, ConvMoves

LEMMA CloseMoves ==
  ASSUME Conv, ServerClose
  PROVE  Conv'
<1>1. closed' /\ Idle /\ outcome' = outcome /\ todo' = todo /\ inbox' = inbox /\ toClient' = toClient
  BY DEF ServerClose, Idle, client, wire, choice, saslState
<1>2. ASSUME NEW p, NEW d, Ghost(p, d)
      PROVE  \E p1, d1 : Ghost(p1, d1)' /\ Side(p1)' = Side(p) /\ Other(d1)' = Other(d)
  <2>1. Ghost(p, d)'
    BY <1>1, <1>2 DEF Ghost
  <2>2. Side(p)' = Side(p)
    BY <1>1 DEF Side, Remaining
  <2>3. Other(d)' = Other(d)
    BY <1>1 DEF Other, Sent
  <2> QED BY <2>1, <2>2, <2>3
<1> QED BY <1>1, <1>2, ConvMoves

LEMMA LossMoves ==
  ASSUME Conv, ChoiceInv, ConnectionLost
  PROVE  Conv'
<1>1. closed' /\ Idle /\ outcome' = outcome /\ todo' = todo /\ inbox' = inbox
  BY DEF ConnectionLost, Idle, client, server, choice, saslState
<1>2. PICK n \in 0 .. Len(toClient) : toClient' = SubSeq(toClient, 1, n)
  BY DEF ConnectionLost
<1>3. ASequence(toClient) /\ Len(toClient) \in Nat /\ n \in Nat
  BY Sequences, LenProperties DEF ASequence
<1> PICK u : u = toClient'
  OBVIOUS
<1> PICK v : v = SubSeq(toClient, n + 1, Len(toClient))
  OBVIOUS
<1>4. PICK E : toClient \in Seq(E)
  BY <1>3 DEF ASequence
<1>5. /\ ASequence(u) /\ Len(u) = n
      /\ \A i \in 1 .. n : u[i] = toClient[i]
  BY <1>2, <1>3, <1>4, SubSeqProperties DEF ASequence
<1>6. /\ ASequence(v) /\ Len(v) = Len(toClient) - n
      /\ \A i \in 1 .. Len(toClient) - n : v[i] = toClient[i + n]
  <2>2. v \in Seq(E) /\ Len(v) = Len(toClient) - n
    BY <1>2, <1>3, <1>4, SubSeqProperties
  <2>3. \A i \in 1 .. Len(toClient) - n : v[i] = toClient[i + n]
    BY <1>2, <1>3, <1>4, SubSeqProperties
  <2> QED BY <2>2, <2>3 DEF ASequence
<1>7. Sent(toClient) = Sent(u) ++ Sent(v)
  <2>1. n \in 0 .. Len(toClient)
    BY <1>3
  <2>2. \A i \in 1 .. n : u[i].what = toClient[i].what /\ u[i].val = toClient[i].val
    BY <1>5
  <2>3. ASequence(u) /\ Len(u) = n
    BY <1>5
  <2>4. ASequence(v) /\ Len(v) = Len(toClient) - n
    BY <1>6
  <2>5. \A i \in 1 .. Len(toClient) - n : v[i] = toClient[i + n]
    BY <1>6
  <2> QED BY ONLY <1>3, <2>1, <2>2, <2>3, <2>4, <2>5, SentParts, SMTT(30)
<1>8. Sent(inbox)' = Sent(inbox) /\ Sent(toClient)' = Sent(u)
  BY <1>1 DEF Sent
<1>9. ASSUME NEW p, NEW d, Ghost(p, d)
      PROVE  \E p1, d1 : Ghost(p1, d1)' /\ Side(p1)' = Side(p) /\ Other(d1)' = Other(d)
  <2>0. ASequence(d) /\ ASequence(Sent(v)) /\ ASequence(Sent(u)) /\ ASequence(Sent(inbox))
    BY <1>5, <1>6, <1>9, Sequences, SentFacts DEF Ghost
  <2> PICK k : k = Sent(v)
    OBVIOUS
  <2> PICK l : l = Sent(u)
    OBVIOUS
  <2> PICK i : i = Sent(inbox)
    OBVIOUS
  <2> PICK e : e = k ++ d
    OBVIOUS
  <2>1. ASequence(e)
    BY <2>0, JoinSequence
  <2>2. Ghost(p, e)'
    BY <1>1, <1>9, <2>1 DEF Ghost
  <2>3. Side(p)' = Side(p)
    BY <1>1 DEF Side, Remaining
  <2>4. Other(d) = (i ++ (l ++ k)) ++ d
    BY <1>7 DEF Other
  <2>5. Other(e)' = (i ++ l) ++ e
    BY <1>8 DEF Other
  <2>6. (i ++ (l ++ k)) ++ d = ((i ++ l) ++ k) ++ d
    BY <2>0, JoinAssoc
  <2>7. ((i ++ l) ++ k) ++ d = (i ++ l) ++ (k ++ d)
    BY <2>0, JoinSequence, JoinAssoc
  <2> QED BY <2>2, <2>3, <2>4, <2>5, <2>6, <2>7
<1> QED BY <1>1, <1>9, ConvMoves

LEMMA DoneMoves ==
  ASSUME Conv, ChoiceInv, ShapeInv, SetUpDone
  PROVE  Conv'
<1>1. /\ outcome = "going" /\ todo # Nil /\ todo[1].op = "ready" /\ outcome' = "ready" /\ Idle
      /\ UNCHANGED <<inbox, toClient, toServer, closed, steps>>
  BY DEF SetUpDone, At, Nil, Idle, wire, server
<1>2. todo = Ready & Nil
  BY <1>1, Sequences, ShapeRest
<1>3. Remaining' = Remaining
  BY <1>1, <1>2 DEF Remaining
<1>4. ASSUME NEW p, NEW d, Ghost(p, d)
      PROVE  \E p1, d1 : Ghost(p1, d1)' /\ Side(p1)' = Side(p) /\ Other(d1)' = Other(d)
  <2>1. Ghost(p, d)'
    BY <1>1, <1>4, GhostStays
  <2>2. Side(p)' = Side(p) /\ Other(d)' = Other(d)
    BY <1>1, <1>3 DEF Side, Other, Sent
  <2> QED BY <2>1, <2>2
<1> QED BY <1>1, <1>4, ConvMoves

LEMMA ConvRests ==
  ASSUME Conv, UNCHANGED vars
  PROVE  Conv'
<1>1. /\ Idle /\ outcome' = outcome /\ todo' = todo
      /\ UNCHANGED <<inbox, toClient, toServer, closed, steps>>
  BY DEF vars, Idle, client, wire, server, choice, saslState
<1>4. ASSUME NEW p, NEW d, Ghost(p, d)
      PROVE  \E p1, d1 : Ghost(p1, d1)' /\ Side(p1)' = Side(p) /\ Other(d1)' = Other(d)
  <2>1. Ghost(p, d)'
    BY <1>1, <1>4, GhostStays
  <2>2. Side(p)' = Side(p) /\ Other(d)' = Other(d)
    BY <1>1 DEF Side, Other, Sent, Remaining
  <2> QED BY <2>1, <2>2
<1> QED BY <1>1, <1>4, ConvMoves

-------------------------------------------------------------------------------
(* The client goes on by itself, ...                                        *)
LEMMA StraightThere ==
  ASSUME Agreed, UNCHANGED <<version, scheme, sub, reply, taken>>, taken = Both,
         NEW tk, tk = Both, NEW c, NEW s, Talk(tk, c, s)'
  PROVE  Talking(c, s)'
<1>1. Agreed'
  BY DEF Agreed
<1>2. Both' = tk /\ taken' = tk
  BY DEF Both
<1>3. Straight(c, s)'
  BY <1>2 DEF Straight
<1> QED BY <1>1, <1>3 DEF Talking

LEMMA PendingThere ==
  ASSUME Agreed, UNCHANGED <<version, scheme, sub, reply, taken, tls, saslconn, serverLayer>>,
         NEW p, NEW s, NEW h, Inner(p, s, h), NEW tk, tk = Both, NEW c, ASequence(c), Early(tk, c, h)'
  PROVE  Talking(p ++ c, s)'
<1>1. Agreed' /\ Both' = tk /\ Type' = Type
  BY DEF Agreed, Both, Type
<1>2. /\ Calm' <=> Calm
      /\ Fresh' <=> Fresh
      /\ SubAuth' <=> SubAuth
  BY DEF Calm, Fresh, layer, SubAuth
<1>3. \A w : ServerHandler(w)' = ServerHandler(w)
  <2>1. Minor' = Minor
    BY DEF Minor
  <2> QED BY <2>1 DEF ServerHandler
<1>4. h = ServerHandler(Type)'
  BY <1>1, <1>3 DEF Inner
<1> PICK q : q = p ++ c
  OBVIOUS
<1>5. /\ scheme' # NoType /\ Calm'
      /\ IF sub' = NoType THEN Fresh' /\ taken' = Nil ELSE SubAuth' /\ taken' = OnlyTLS
  BY <1>2 DEF Inner
<1>6. CASE p = W("choice", Type) & Nil /\ s = G("choice") & Nil
  <2> PICK w : w = W("choice", Type)
    OBVIOUS
  <2>1. q = w & c
    <3>1. (w & Nil) ++ c = w & (Nil ++ c) /\ Nil ++ c = c
      BY NilSequence, JoinCons, JoinNil
    <3> QED BY <1>6, <3>1
  <2>2. q = W("choice", Type') & c
    BY <1>1, <2>1
  <2>3. Pending(q, s)'
    BY <1>1, <1>4, <1>5, <1>6, <2>2 DEF Pending
  <2>4. Talking(q, s)'
    BY <1>1, <2>3 DEF Talking
  <2> QED BY <2>4
<1>7. CASE p = Nil /\ s = Chosen(Type) & Nil /\ Type \in Words /\ sub = NoType
  <2>1. q = c
    BY <1>7, JoinNil
  <2>2. s = Chosen(Type') & Nil /\ Type' \in Words /\ sub' = NoType
    BY <1>1, <1>7
  <2>3. Pending(q, s)'
    BY <1>1, <1>4, <1>5, <2>1, <2>2 DEF Pending
  <2>4. Talking(q, s)'
    BY <1>1, <2>3 DEF Talking
  <2> QED BY <2>4
<1> QED BY <1>6, <1>7 DEF Inner

(* A step of the client that only it knows of.                              *)
Steadily ==
  UNCHANGED <<choice, tls, saslconn, reply, taken, serverLayer, exchanges, verdict,
              wire, closed, steps>>

LEMMA StraightGoes ==
  ASSUME Agreed, Steadily, outcome' = "going", NEW p, NEW d, Ghost(p, d), p = Nil, taken = Both,
         NEW c, ASequence(c), todo' = c, NEW tk, tk = Both, NEW s, s = Other(d), Talk(tk, c, s)'
  PROVE  Conv'
<1>1. UNCHANGED <<version, scheme, sub, reply, taken>> /\ UNCHANGED <<wire, closed, steps>>
  BY DEF Steadily, choice
<1>2. Talking(c, s)'
  BY <1>1, StraightThere
<1>3. c = p ++ todo'
  BY JoinNil
<1> QED BY <1>1, <1>2, <1>3, LocalThere

LEMMA InnerGoes ==
  ASSUME Agreed, Steadily, outcome' = "going", NEW p, NEW d, Ghost(p, d),
         NEW c, ASequence(c), todo' = c, NEW tk, tk = Both, NEW s, s = Other(d),
         NEW h, Inner(p, s, h), Early(tk, c, h)'
  PROVE  Conv'
<1>1. /\ UNCHANGED <<version, scheme, sub, reply, taken, tls, saslconn, serverLayer>>
      /\ UNCHANGED <<wire, closed, steps>>
  BY DEF Steadily, choice
<1> PICK q : q = p ++ c
  OBVIOUS
<1>2. Talking(q, s)'
  <2>1. Talking(p ++ c, s)'
    BY <1>1, PendingThere
  <2> QED BY <2>1
<1>3. q = p ++ todo'
  OBVIOUS
<1> QED BY <1>1, <1>2, <1>3, LocalThere
TalkLocal(tk, w, t, s) ==
  \/ w \in Locals /\ Talk(tk, t, s)
  \/ w = "plainCredential" /\ tk # Nil /\ t = Z /\ Calm /\ s = G("lengths") & Nil
  \/ w = "plainCredential" /\ tk # Nil /\ t = Z /\ Behind(tk, G("lengths") & Nil, s)
  \/ w = "saslStart" /\ tk # Nil /\ t = Z /\ Calm /\ s = Mechanism
  \/ w = "saslStart" /\ tk # Nil /\ t = Z /\ Behind(tk, Mechanism, s)
  \/ w = "tls" /\ tk # Nil /\ Calm /\ Hail(tk, L(w) & t, s)
  \/ w = "saslStep" /\ tk # Nil /\ SaslAsks(L(w) & t, s) /\ t = Z
  \/ w = "saslStrength" /\ tk # Nil /\ SaslClosing(L(w) & t, s) /\ SaslClosing(t, s)
EarlyLocal(tk, w, t, s) ==
  /\ Calm
  /\ \/ w \in Locals /\ Early(tk, t, s)
     \/ w = "plainCredential" /\ tk # Nil /\ t = Z /\ s = G("lengths") & Nil
     \/ w = "saslStart" /\ tk # Nil /\ t = Z /\ s = Mechanism
     \/ w = "tls" /\ tk # Nil /\ Hail(tk, L(w) & t, s)

LEMMA TalkNow ==
  ASSUME NEW tk, NEW w, NEW t, ASequence(t), NEW s, Talk(tk, L(w) & t, s)
  PROVE  TalkLocal(tk, w, t, s)
<1> PICK c : c = L(w) & t
  OBVIOUS
<1>1. Nil ++ c = c
  BY ConsSequence, JoinNil
<1>2. AllOp(Nil, "write") /\ Talk(tk, Nil ++ (L(w) & t), s)
  BY <1>1, AllOpNil
<1>3. PICK p : p = Nil
  OBVIOUS
<1>4. AllOp(p, "write") /\ Talk(tk, p ++ (L(w) & t), s)
  BY <1>2, <1>3
<1> QED BY <1>4, TalkLocals DEF TalkLocal

LEMMA EarlyNow ==
  ASSUME NEW tk, NEW w, NEW t, ASequence(t), NEW s, Early(tk, L(w) & t, s)
  PROVE  EarlyLocal(tk, w, t, s)
<1> PICK c : c = L(w) & t
  OBVIOUS
<1>1. Nil ++ c = c
  BY ConsSequence, JoinNil
<1>2. AllOp(Nil, "write") /\ Early(tk, Nil ++ (L(w) & t), s)
  BY <1>1, AllOpNil
<1>3. PICK p : p = Nil
  OBVIOUS
<1>4. AllOp(p, "write") /\ Early(tk, p ++ (L(w) & t), s)
  BY <1>2, <1>3
<1> QED BY <1>4, EarlyLocals DEF EarlyLocal

(* Steps of the client's own, in an authentication. *)
LEMMA LocalsKeep ==
  ASSUME Conv, ShapeInv, ChoiceInv, NEW what \in Locals, At("local", what),
         Continue(<<>>), UNCHANGED <<choice, tls, saslconn, saslState, wire, closed, server>>
  PROVE  Conv'
<1>0. Idle /\ Steadily /\ outcome' = "going"
  BY DEF Idle, Steadily, server, At, Continue
<1>00. Firm /\ verdict' = verdict
  BY <1>0, IdleFacts
<1> PICK t : t = Tail(todo)
  OBVIOUS
<1>1. PICK p, d : /\ Ghost(p, d) /\ AllOp(p, "write") /\ ASequence(d) /\ ASequence(Other(d))
                  /\ ASequence(t) /\ Talking(p ++ (L(what) & t), Other(d))
  BY ConvLocals
<1> PICK s : s = Other(d)
  OBVIOUS
<1>2. todo' = t
  BY <1>1, Empties DEF Continue
<1> PICK tk : tk = Both
  OBVIOUS
<1>3. what \notin {"switch", "veSwitch", "plainCredential", "saslStart", "tls", "saslStep", "saslStrength"}
  BY DEF Locals
<1>4. /\ Agreed
      /\ \/ p = Nil /\ taken = Both /\ Talk(Both, L(what) & t, s)
         \/ Inner(p, s, ServerHandler(Type)) /\ Early(Both, L(what) & t, ServerHandler(Type))
  <2>1. Talking(p ++ (L(what) & t), s)
    BY <1>1
  <2> HIDE DEF Agreed
  <2> QED BY <1>1, <1>3, <2>1, TalkingLocals
<1>6. CASE p = Nil /\ taken = Both /\ Talk(Both, L(what) & t, s)
  <2>1. Talk(tk, L(what) & t, s)
    BY <1>6
  <2>2. Talk(tk, t, s)
    BY <1>1, <1>3, <2>1, TalkNow DEF TalkLocal
  <2>3. Talk(tk, t, s)'
    BY <1>00, <2>2, TalkStays
  <2> QED BY <1>0, <1>1, <1>2, <1>4, <1>6, <2>3, StraightGoes
<1>7. CASE Inner(p, s, ServerHandler(Type)) /\ Early(Both, L(what) & t, ServerHandler(Type))
  <2> PICK h : h = ServerHandler(Type)
    OBVIOUS
  <2>1. Early(tk, L(what) & t, h)
    BY <1>7
  <2>2. Early(tk, t, h)
    BY <1>1, <1>3, <2>1, EarlyNow DEF EarlyLocal
  <2>3. Early(tk, t, h)'
    BY <1>00, <2>2, EarlyStays
  <2>4. Inner(p, s, h)
    BY <1>7
  <2> QED BY <1>0, <1>1, <1>2, <1>4, <2>3, <2>4, InnerGoes
<1> QED BY <1>4, <1>6, <1>7

LEMMA PlainKeeps ==
  ASSUME Conv, ShapeInv, ChoiceInv, At("local", "plainCredential"), NEW u \in 0 .. 1, NEW v \in 0 .. 1,
         Continue(PlainMessage(u, v)), UNCHANGED <<choice, tls, saslconn, saslState, wire, closed, server>>
  PROVE  Conv'
<1>0. Idle /\ Steadily /\ outcome' = "going" /\ UNCHANGED <<tls, saslconn, serverLayer>>
  BY DEF Idle, Steadily, server, At, Continue
<1> PICK t : t = Tail(todo)
  OBVIOUS
<1> PICK w : w = "plainCredential"
  OBVIOUS
<1>1. PICK p, d : /\ Ghost(p, d) /\ AllOp(p, "write") /\ ASequence(d) /\ ASequence(Other(d))
                  /\ ASequence(t) /\ Talking(p ++ (L(w) & t), Other(d))
  BY ConvLocals
<1> PICK s : s = Other(d)
  OBVIOUS
<1> PICK tk : tk = Both
  OBVIOUS
<1> PICK c : c = PlainMessage(u, v) ++ Z
  OBVIOUS
<1>2. todo' = PlainMessage(u, v) ++ t
  BY DEF Continue, ++
<1>3. w \notin Locals /\ w # "switch" /\ w # "veSwitch" /\ w # "saslStart" /\ w # "tls" /\ w # "saslStep" /\ w # "saslStrength"
  BY DEF Locals
<1>4. /\ Agreed
      /\ \/ p = Nil /\ taken = Both /\ Talk(Both, L(w) & t, s)
         \/ Inner(p, s, ServerHandler(Type)) /\ Early(Both, L(w) & t, ServerHandler(Type))
  <2>1. Talking(p ++ (L(w) & t), s)
    BY <1>1
  <2> QED BY <1>1, <1>3, <2>1, TalkingLocals
<1>c. ASequence(c)
  BY PlainFacts
<1>6. CASE p = Nil /\ taken = Both /\ Talk(Both, L(w) & t, s)
  <2>1. Talk(tk, L(w) & t, s)
    BY <1>6
  <2>0. TalkLocal(tk, w, t, s)
    BY <1>1, <2>1, TalkNow
  <2>2. tk # Nil /\ t = Z /\ ((Calm /\ s = G("lengths") & Nil) \/ Behind(tk, G("lengths") & Nil, s))
    BY <1>3, <2>0 DEF TalkLocal
  <2>3. Talk(tk, c, s)'
    BY <1>0, <2>2, AfterPlain
  <2>4. todo' = c
    BY <1>2, <2>2
  <2> QED BY <1>0, <1>1, <1>4, <1>6, <1>c, <2>3, <2>4, StraightGoes
<1>7. CASE Inner(p, s, ServerHandler(Type)) /\ Early(Both, L(w) & t, ServerHandler(Type))
  <2> PICK h : h = ServerHandler(Type)
    OBVIOUS
  <2>1. Early(tk, L(w) & t, h)
    BY <1>7
  <2>0. EarlyLocal(tk, w, t, h)
    BY <1>1, <2>1, EarlyNow
  <2>2. tk # Nil /\ t = Z /\ Calm /\ h = G("lengths") & Nil
    BY <1>3, <2>0 DEF EarlyLocal
  <2>3. Calm'
    BY <1>0, <2>2 DEF Calm, layer
  <2>4. OpenGoal(c, h)'
    BY <2>2 DEF OpenGoal
  <2>5. Early(tk, c, h)'
    BY <2>2, <2>3, <2>4, OpenStarts
  <2>6. Inner(p, s, h) /\ todo' = c
    BY <1>2, <1>7, <2>2
  <2> QED BY <1>0, <1>1, <1>4, <1>c, <2>5, <2>6, InnerGoes
<1> QED BY <1>4, <1>6, <1>7

LEMMA StartKeeps ==
  ASSUME Conv, ShapeInv, ChoiceInv, At("local", "saslStart"), NEW m \in 1 .. MaxSasl,
         mech' = m, sasl' = [calls |-> 0, given |-> 0, ok |-> FALSE], serverin' = 0,
         Continue(<<W("mechanism", m)>> \o SaslExchange(1)),
         UNCHANGED <<choice, tls, saslconn, wire, closed, server>>
  PROVE  Conv'
<1>0. Steadily /\ outcome' = "going" /\ UNCHANGED <<tls, saslconn, serverLayer>>
  BY DEF Steadily, server, At, Continue
<1> PICK t : t = Tail(todo)
  OBVIOUS
<1> PICK w : w = "saslStart"
  OBVIOUS
<1>1. PICK p, d : /\ Ghost(p, d) /\ AllOp(p, "write") /\ ASequence(d) /\ ASequence(Other(d))
                  /\ ASequence(t) /\ Talking(p ++ (L(w) & t), Other(d))
  BY ConvLocals
<1> PICK s : s = Other(d)
  OBVIOUS
<1> PICK tk : tk = Both
  OBVIOUS
<1> PICK c : c = W("mechanism", m) & (SaslExchange(1) ++ Z)
  OBVIOUS
<1>2. todo' = (<<W("mechanism", m)>> ++ SaslExchange(1)) ++ t
  BY DEF Continue, ++
<1>3. w \notin Locals /\ w # "switch" /\ w # "veSwitch" /\ w # "plainCredential" /\ w # "tls" /\ w # "saslStep" /\ w # "saslStrength"
  BY DEF Locals
<1>4. /\ Agreed
      /\ \/ p = Nil /\ taken = Both /\ Talk(Both, L(w) & t, s)
         \/ Inner(p, s, ServerHandler(Type)) /\ Early(Both, L(w) & t, ServerHandler(Type))
  <2>1. Talking(p ++ (L(w) & t), s)
    BY <1>1
  <2> QED BY <1>1, <1>3, <2>1, TalkingLocals
<1>c. ASequence(c) /\ (t = Z => todo' = c)
  <2>1. ASequence(c)
    BY ExchangeFacts, ConsSequence
  <2>2. t = Z => todo' = c
    BY <1>2, MechanismScript
  <2> QED BY <2>1, <2>2
<1>6. CASE p = Nil /\ taken = Both /\ Talk(Both, L(w) & t, s)
  <2>1. Talk(tk, L(w) & t, s)
    BY <1>6
  <2>0. TalkLocal(tk, w, t, s)
    BY <1>1, <2>1, TalkNow
  <2>2. tk # Nil /\ t = Z /\ ((Calm /\ s = Mechanism) \/ Behind(tk, Mechanism, s))
    BY <1>3, <2>0 DEF TalkLocal
  <2>3. Talk(tk, c, s)'
    BY <1>0, <2>2, AfterStart
  <2> QED BY <1>0, <1>1, <1>4, <1>6, <1>c, <2>2, <2>3, StraightGoes
<1>7. CASE Inner(p, s, ServerHandler(Type)) /\ Early(Both, L(w) & t, ServerHandler(Type))
  <2> PICK h : h = ServerHandler(Type)
    OBVIOUS
  <2>1. Early(tk, L(w) & t, h)
    BY <1>7
  <2>0. EarlyLocal(tk, w, t, h)
    BY <1>1, <2>1, EarlyNow
  <2>2. tk # Nil /\ t = Z /\ Calm /\ h = Mechanism
    BY <1>3, <2>0 DEF EarlyLocal
  <2>3. Calm'
    BY <1>0, <2>2 DEF Calm, layer
  <2>4. OpenGoal(c, h)'
    <3> PICK e : e = Mechanism
      OBVIOUS
    <3>1. OpenGoal(c, Mechanism)'
      BY StartGoal
    <3>2. Mechanism' = Mechanism
      BY DEF Mechanism
    <3> QED BY <2>2, <3>1, <3>2
  <2>5. Early(tk, c, h)'
    BY <2>2, <2>3, <2>4, OpenStarts
  <2>6. Inner(p, s, h)
    BY <1>7
  <2> QED BY <1>0, <1>1, <1>4, <1>c, <2>2, <2>5, <2>6, InnerGoes
<1> QED BY <1>4, <1>6, <1>7

LEMMA LocalCases ==
  ASSUME Conv, ShapeInv, ChoiceInv, NEW w, w # "switch", w # "veSwitch", At("local", w),
         NEW t, t = Tail(todo)
  PROVE  /\ ASequence(t) /\ Agreed
         /\ \E p, d : /\ Ghost(p, d) /\ AllOp(p, "write") /\ ASequence(d) /\ ASequence(Other(d))
                      /\ \/ p = Nil /\ taken = Both /\ TalkLocal(Both, w, t, Other(d))
                         \/ Inner(p, Other(d), ServerHandler(Type)) /\ EarlyLocal(Both, w, t, ServerHandler(Type))
<1>1. PICK p, d : /\ Ghost(p, d) /\ AllOp(p, "write") /\ ASequence(d) /\ ASequence(Other(d))
                  /\ ASequence(t) /\ Talking(p ++ (L(w) & t), Other(d))
  BY ConvLocals
<1> PICK s : s = Other(d)
  OBVIOUS
<1> PICK tk : tk = Both
  OBVIOUS
<1> PICK h : h = ServerHandler(Type)
  OBVIOUS
<1>4. /\ Agreed
      /\ \/ p = Nil /\ taken = Both /\ Talk(tk, L(w) & t, s)
         \/ Inner(p, s, h) /\ Early(tk, L(w) & t, h)
  <2>1. Talking(p ++ (L(w) & t), s)
    BY <1>1
  <2> HIDE DEF Agreed
  <2> QED BY <1>1, <2>1, TalkingLocals
<1>5. Talk(tk, L(w) & t, s) => TalkLocal(tk, w, t, s)
  BY <1>1, TalkNow
<1>6. Early(tk, L(w) & t, h) => EarlyLocal(tk, w, t, h)
  BY <1>1, EarlyNow
<1> QED BY <1>1, <1>4, <1>5, <1>6

(* The client's library takes what the server has sent.                     *)
LEMMA StepKeeps ==
  ASSUME Conv, ShapeInv, ChoiceInv, At("local", "saslStep"),
         NEW calls, calls = sasl.calls + 1, NEW next, next = 2 * calls + 1,
         sasl' = [calls |-> calls, given |-> IF serverin = 0 THEN sasl.given ELSE serverin, ok |-> next >= mech],
         serverin' = 0,
         Continue(IF complete /\ sasl'.ok THEN SaslEnd ELSE SaslExchange(IF next <= mech THEN next ELSE 0)),
         UNCHANGED <<choice, tls, saslconn, mech, complete, wire, closed, server>>
  PROVE  Conv'
<1>0. Steadily /\ outcome' = "going"
  BY DEF Steadily, server, At, Continue
<1>u. UNCHANGED <<version, tls, saslconn, mech, complete, reply, serverLayer, exchanges, verdict>>
  BY DEF choice, server
<1> PICK t : t = Tail(todo)
  OBVIOUS
<1> PICK w : w = "saslStep"
  OBVIOUS
<1> PICK tk : tk = Both
  OBVIOUS
<1>1. w \notin Locals /\ w # "switch" /\ w # "veSwitch" /\ w # "plainCredential" /\ w # "saslStart"
      /\ w # "tls" /\ w # "saslStrength"
  BY DEF Locals
<1>2. At("local", w)
  OBVIOUS
<1>3. Agreed /\ ASequence(t)
  <2> HIDE DEF Agreed
  <2> QED BY <1>1, <1>2, LocalCases
<1>4. PICK p, d : /\ Ghost(p, d) /\ AllOp(p, "write") /\ ASequence(d) /\ ASequence(Other(d))
                  /\ \/ p = Nil /\ taken = Both /\ TalkLocal(Both, w, t, Other(d))
                     \/ Inner(p, Other(d), ServerHandler(Type)) /\ EarlyLocal(Both, w, t, ServerHandler(Type))
  BY <1>1, <1>2, LocalCases
<1> PICK s : s = Other(d)
  OBVIOUS
<1>5. p = Nil /\ taken = Both /\ tk # Nil /\ SaslAsks(L("saslStep") & Z, s) /\ t = Z
  BY <1>1, <1>4 DEF TalkLocal, EarlyLocal
<1>6. /\ sasl'.calls = calls /\ sasl'.ok = (next >= mech)
      /\ sasl'.given = (IF serverin = 0 THEN sasl.given ELSE serverin)
  OBVIOUS
<1>7. /\ (complete /\ sasl'.ok) => Talk(tk, L("saslStrength") & (R("saslResult") & Z), s)'
      /\ ~(complete /\ sasl'.ok) => \A m \in 0 .. MaxSasl : Talk(tk, SaslExchange(m) ++ Z, s)'
  BY <1>5, <1>6, <1>u, AfterStep
<1> PICK n : n = IF next <= mech THEN next ELSE 0
  OBVIOUS
<1>8. n \in 0 .. MaxSasl
  <2>1. Exchanged
    BY <1>5 DEF SaslAsks, Answered
  <2>2. mech \in 1 .. MaxSasl /\ sasl.calls \in Nat /\ MaxSasl \in Nat
    BY <2>1, HandshakeAssumption DEF Exchanged
  <2> QED BY <2>2
<1>c. todo' = (IF complete /\ sasl'.ok THEN SaslEnd ELSE SaslExchange(n)) ++ Z
  BY <1>5 DEF Continue, ++
<1>9. CASE complete /\ sasl'.ok
  <2> PICK c : c = L("saslStrength") & (R("saslResult") & Z)
    OBVIOUS
  <2>1. todo' = SaslEnd ++ Z
    BY <1>c, <1>9
  <2>2. SaslEnd ++ Z = c /\ ASequence(c)
    BY ShortScripts, ZFacts, ConsSequence
  <2>3. Talk(tk, c, s)'
    BY <1>7, <1>9
  <2>4. todo' = c
    BY <2>1, <2>2
  <2> QED BY <1>0, <1>3, <1>4, <1>5, <2>2, <2>3, <2>4, StraightGoes
<1>10. CASE ~(complete /\ sasl'.ok)
  <2> PICK c : c = SaslExchange(n) ++ Z
    OBVIOUS
  <2>1. todo' = c
    BY <1>c, <1>10
  <2>2. ASequence(c)
    BY ExchangeFacts
  <2>3. Talk(tk, c, s)'
    BY <1>7, <1>8, <1>10
  <2> QED BY <1>0, <1>3, <1>4, <1>5, <2>1, <2>2, <2>3, StraightGoes
<1> QED BY <1>9, <1>10

LEMMA StrengthKeeps ==
  ASSUME Conv, ShapeInv, ChoiceInv, At("local", "saslStrength"), Continue(<<>>),
         UNCHANGED <<choice, tls, saslconn, saslState, wire, closed, server>>
  PROVE  Conv'
<1>0. Idle /\ Steadily /\ outcome' = "going"
  BY DEF Idle, Steadily, server, At, Continue
<1>00. Firm /\ verdict' = verdict
  BY <1>0, IdleFacts
<1> PICK t : t = Tail(todo)
  OBVIOUS
<1> PICK w : w = "saslStrength"
  OBVIOUS
<1> PICK tk : tk = Both
  OBVIOUS
<1>1. w \notin Locals /\ w # "switch" /\ w # "veSwitch" /\ w # "plainCredential" /\ w # "saslStart"
      /\ w # "tls" /\ w # "saslStep"
  BY DEF Locals
<1>2. At("local", w)
  OBVIOUS
<1>3. Agreed /\ ASequence(t)
  <2> HIDE DEF Agreed
  <2> QED BY <1>1, <1>2, LocalCases
<1>4. PICK p, d : /\ Ghost(p, d) /\ AllOp(p, "write") /\ ASequence(d) /\ ASequence(Other(d))
                  /\ \/ p = Nil /\ taken = Both /\ TalkLocal(Both, w, t, Other(d))
                     \/ Inner(p, Other(d), ServerHandler(Type)) /\ EarlyLocal(Both, w, t, ServerHandler(Type))
  BY <1>1, <1>2, LocalCases
<1> PICK s : s = Other(d)
  OBVIOUS
<1>5. p = Nil /\ taken = Both /\ tk # Nil /\ SaslClosing(t, s)
  BY <1>1, <1>4 DEF TalkLocal, EarlyLocal
<1>6. Talk(tk, t, s)
  BY <1>5 DEF Talk, SaslTalk
<1>7. Talk(tk, t, s)'
  BY <1>00, <1>6, TalkStays
<1>8. todo' = t
  BY <1>3, Empties DEF Continue
<1> QED BY <1>0, <1>3, <1>4, <1>5, <1>7, <1>8, StraightGoes

(* The client starts TLS. *)
LEMMA HelloKeeps ==
  ASSUME Conv, ShapeInv, ChoiceInv, At("local", "tls"), Put("hello", 0),
         todo' = <<[op |-> "tls", what |-> "finished"]>> \o Tail(todo),
         UNCHANGED <<outcome, choice, tls, saslconn, saslState, inbox, toClient, closed, server>>
  PROVE  Conv'
<1>0. Idle /\ outcome' = "going" /\ UNCHANGED <<closed, steps, inbox, toClient>>
  BY DEF Idle, server, At
<1>00. Firm /\ verdict' = verdict
  BY <1>0, IdleFacts
<1>u. UNCHANGED <<version, scheme, sub, reply, taken, tls, saslconn, serverLayer>>
  BY DEF choice, server
<1> PICK t : t = Tail(todo)
  OBVIOUS
<1> PICK w : w = "tls"
  OBVIOUS
<1> PICK tk : tk = Both
  OBVIOUS
<1>1. w \notin Locals /\ w # "switch" /\ w # "veSwitch" /\ w # "plainCredential" /\ w # "saslStart"
      /\ w # "saslStrength" /\ w # "saslStep"
  BY DEF Locals
<1>2. At("local", w)
  OBVIOUS
<1>3. Agreed /\ ASequence(t)
  <2> HIDE DEF Agreed
  <2> QED BY <1>1, <1>2, LocalCases
<1>4. PICK p, d : /\ Ghost(p, d) /\ AllOp(p, "write") /\ ASequence(d) /\ ASequence(Other(d))
                  /\ \/ p = Nil /\ taken = Both /\ TalkLocal(Both, w, t, Other(d))
                     \/ Inner(p, Other(d), ServerHandler(Type)) /\ EarlyLocal(Both, w, t, ServerHandler(Type))
  BY <1>1, <1>2, LocalCases
<1> PICK s : s = Other(d)
  OBVIOUS
<1> PICK h : h = ServerHandler(Type)
  OBVIOUS
<1> PICK v : v = W("hello", 0)
  OBVIOUS
<1> PICK z : z = F & t
  OBVIOUS
<1> PICK c : c = v & z
  OBVIOUS
<1> PICK p1 : p1 = p ++ (v & Nil)
  OBVIOUS
<1>5. ASequence(z) /\ ASequence(c) /\ ASequence(p)
  BY <1>3, <1>4, ConsSequence, AllOpSequence
<1>6. todo' = z
  <2>1. todo' = <<F>> \o t
    BY DEF F
  <2>2. <<F>> \o t = F & t
    BY DEF &
  <2> QED BY <2>1, <2>2
<1>7. Ghost(p1, d)'
  <2>1. ASequence(toServer)
    BY Sequences
  <2> QED BY <1>0, <1>4, <2>1, GhostPuts
<1>8. Other(d)' = s
  BY <1>0 DEF Other, Sent
<1>9. Remaining' = z
  BY <1>0, <1>6 DEF Remaining
<1>10. p1 ++ z = p ++ c
  <2>1. ASequence(v & Nil) /\ (v & Nil) ++ z = v & (Nil ++ z) /\ Nil ++ z = z
    BY <1>5, NilSequence, ConsSequence, JoinCons, JoinNil
  <2>2. p1 ++ z = p ++ ((v & Nil) ++ z)
    BY <1>5, <2>1, JoinAssoc
  <2> QED BY <2>1, <2>2
<1>11. Side(p1)' = p ++ c
  <2>1. Side(p1)' = p1 ++ Remaining'
    BY DEF Side
  <2> QED BY <1>9, <1>10, <2>1
<1>12. ASSUME NEW k, Hail(tk, L(w) & t, k), tk # Nil
       PROVE  Early(tk, c, k)'
  <2>1. Shake(tk, W("hello", 0) & (F & t), k)
    BY <1>3, <1>12, HailFacts
  <2>2. Early(tk, c, k)
    BY <1>12, <2>1 DEF Early
  <2> QED BY <1>00, <2>2, EarlyStays
<1>13. CASE p = Nil /\ taken = Both /\ TalkLocal(Both, w, t, Other(d))
  <2>1. tk # Nil /\ Hail(tk, L(w) & t, s)
    BY <1>1, <1>13 DEF TalkLocal
  <2>2. Talk(tk, c, s)'
    <3>1. Early(tk, c, s)'
      BY <2>1, <1>12
    <3> QED BY <3>1 DEF Talk
  <2>3. Talking(c, s)'
    <3> HIDE DEF Agreed
    <3> QED BY <1>3, <1>u, <1>13, <2>2, StraightThere
  <2>4. p ++ c = c
    BY <1>5, <1>13, JoinNil
  <2> QED BY <1>7, <1>8, <1>11, <2>3, <2>4, ConvThere
<1>14. CASE Inner(p, Other(d), ServerHandler(Type)) /\ EarlyLocal(Both, w, t, ServerHandler(Type))
  <2>1. tk # Nil /\ Hail(tk, L(w) & t, h)
    BY <1>1, <1>14 DEF EarlyLocal
  <2>2. Early(tk, c, h)'
    BY <2>1, <1>12
  <2>3. Inner(p, s, h)
    BY <1>14
  <2> PICK y : y = p ++ c
    OBVIOUS
  <2>4. Talking(p ++ c, s)'
    <3> HIDE DEF Agreed
    <3> QED BY <1>3, <1>u, <1>5, <2>2, <2>3, PendingThere
  <2>5. Talking(y, s)'
    BY <2>4
  <2> QED BY <1>7, <1>8, <1>11, <2>5, ConvThere
<1> QED BY <1>4, <1>13, <1>14
(* The client switches on its security type. *)
Switched ==
  /\ IF SubAuth THEN sub' = picked /\ UNCHANGED scheme ELSE scheme' = picked /\ UNCHANGED sub
  /\ UNCHANGED <<version, picked, tls, saslconn, saslState, wire, closed, server>>

LEMMA SwitchFacts ==
  ASSUME Switched
  PROVE  /\ Firm /\ verdict' = verdict /\ reply' = reply /\ taken' = taken /\ version' = version
         /\ tls' = tls /\ saslconn' = saslconn /\ serverLayer' = serverLayer /\ picked' = picked
         /\ UNCHANGED <<wire, closed, steps, toClient, toServer, inbox>>
         /\ Calm' <=> Calm
         /\ Fresh' <=> Fresh
<1>1. Firm
  BY DEF Switched, Firm, saslState, server
<1>2. /\ verdict' = verdict /\ reply' = reply /\ taken' = taken /\ version' = version
      /\ tls' = tls /\ saslconn' = saslconn /\ serverLayer' = serverLayer /\ picked' = picked
      /\ UNCHANGED <<wire, closed, steps, toClient, toServer, inbox>>
  BY DEF Switched, server, wire
<1>3. (Calm' <=> Calm) /\ (Fresh' <=> Fresh)
  BY <1>1, FirmFacts
<1> QED BY <1>1, <1>2, <1>3

LEMMA SwitchTo ==
  ASSUME Switched, sub = NoType, picked # NoType, scheme = NoType \/ SubAuth
  PROVE  /\ Both' = Added(Before, picked) /\ Type' = picked /\ scheme' # NoType
         /\ scheme = NoType => sub' = NoType /\ Both' = One(picked) /\ ~SubAuth
         /\ SubAuth => SubAuth' /\ sub' = picked /\ Both' = Two("TLS", picked) /\ Before = OnlyTLS
         /\ Added(Before, picked) # Nil
<1>1. NoType # "TLS"
  BY DEF NoType
<1>2. CASE scheme = NoType
  <2>1. ~SubAuth
    BY <1>1, <1>2 DEF SubAuth
  <2>2. scheme' = picked /\ sub' = NoType
    BY <2>1 DEF Switched
  <2>3. Before = Nil
    BY <1>2 DEF Before
  <2>4. Added(Before, picked) = One(picked)
    BY <2>3 DEF Added
  <2>5. Both' = One(picked) /\ Type' = picked
    BY <2>2 DEF Both, Type
  <2> QED BY <1>2, <2>1, <2>2, <2>4, <2>5, Ones
<1>3. CASE SubAuth
  <2>1. scheme = "TLS" /\ scheme' = "TLS" /\ sub' = picked
    BY <1>3 DEF SubAuth, Switched
  <2>2. Before = OnlyTLS /\ OnlyTLS # Nil /\ OnlyTLS[1] = "TLS"
    BY <1>1, <2>1, Ones DEF Before, OnlyTLS
  <2>3. Added(Before, picked) = Two("TLS", picked)
    BY <2>2 DEF Added
  <2>4. Both' = Two("TLS", picked) /\ Type' = picked /\ SubAuth'
    BY <1>1, <2>1 DEF Both, Type, SubAuth
  <2> QED BY <1>1, <2>1, <2>2, <2>3, <2>4, Ones
<1> QED BY <1>2, <1>3

LEMMA HandlesNothing ==
  ASSUME NEW q, ASequence(q)
  PROVE  Ends(Handle(NoType) ++ q)
<1>1. Handle(NoType) = <<GiveUp("unknown")>>
  BY DEF Handle, SubHandler, Handler, NoType
<1>2. Handle(NoType) ++ q = GiveUp("unknown") & q
  BY <1>1, GiveUpScript
<1> QED BY <1>2 DEF Ends

(* The server does not know of the type yet, ...                            *)
LEMMA SwitchPends ==
  ASSUME Switched, sub = NoType, picked # NoType, Agreed, NEW tk, tk = Added(Before, picked),
         Calm, scheme = NoType \/ SubAuth,
         IF scheme = NoType THEN Fresh /\ taken = Nil ELSE taken = OnlyTLS,
         NEW c, NEW h, h = ServerHandler(picked), Early(tk, c, h),
         NEW p, NEW s,
         \/ p = W("choice", picked) & Nil /\ s = G("choice") & Nil
         \/ p = Nil /\ s = Chosen(picked) & Nil /\ picked \in Words /\ scheme = NoType
  PROVE  Talking(p ++ c, s)'
<1>1. /\ Both' = tk /\ Type' = picked /\ scheme' # NoType
      /\ scheme = NoType => sub' = NoType /\ ~SubAuth
      /\ SubAuth => SubAuth' /\ sub' = picked
  BY SwitchTo
<1>2. Early(tk, c, h)'
  BY SwitchFacts, EarlyStays
<1>3. h = ServerHandler(picked)'
  BY SwitchFacts DEF ServerHandler, Minor
<1>4. Calm' /\ (IF sub' = NoType THEN Fresh' /\ taken' = Nil ELSE SubAuth' /\ taken' = OnlyTLS)
  BY <1>1, SwitchFacts
<1> PICK k : k = picked
  OBVIOUS
<1>5. Type' = k /\ h = ServerHandler(k)'
  BY <1>1, <1>3, SwitchFacts
<1>6. ServerHandler(Type)' = h
  BY <1>5
<1>7. ASequence(c)
  BY <1>2, EarlyFacts, <1>2 , SwitchFacts
<1>8. CASE p = W("choice", picked) & Nil /\ s = G("choice") & Nil
  <2> PICK c1 : c1 = W("choice", k) & c
    OBVIOUS
  <2>1. p ++ c = c1
    <3>1. Nil ++ c = c
      BY <1>7, JoinNil
    <3> QED BY <1>7, <1>8, <3>1, NilSequence, JoinCons
  <2>2. Early(Both, c, ServerHandler(Type))'
    BY <1>1, <1>2, <1>6
  <2>3. c1 = W("choice", Type') & c
    BY <1>5
  <2>4. Pending(c1, s)'
    <3>1. \E c2 : c1 = W("choice", Type') & c2 /\ Early(Both, c2, ServerHandler(Type))'
      BY <2>2, <2>3
    <3> QED BY <1>1, <1>4, <1>8, <3>1 DEF Pending
  <2>5. Agreed'
    BY <1>1, SwitchFacts DEF Agreed
  <2>6. Talking(c1, s)'
    <3> HIDE DEF Agreed
    <3> QED BY <2>4, <2>5 DEF Talking
  <2> QED BY <2>1, <2>6
<1>9. CASE p = Nil /\ s = Chosen(picked) & Nil /\ picked \in Words /\ scheme = NoType
  <2>1. p ++ c = c
    BY <1>7, <1>9, JoinNil
  <2>2. Early(Both, c, ServerHandler(Type))'
    BY <1>1, <1>2, <1>6
  <2>3. s = Chosen(Type') & Nil /\ Type' \in Words /\ sub' = NoType
    BY <1>1, <1>9
  <2>4. Pending(c, s)'
    BY <1>1, <1>4, <2>2, <2>3 DEF Pending
  <2>5. Agreed'
    BY <1>1, SwitchFacts DEF Agreed
  <2>6. Talking(c, s)'
    <3> HIDE DEF Agreed
    <3> QED BY <2>4, <2>5 DEF Talking
  <2> QED BY <2>1, <2>6
<1> QED BY <1>8, <1>9

(* ... or it does.                                                          *)
LEMMA SwitchServed ==
  ASSUME Switched, sub = NoType, picked # NoType, Agreed, NEW tk, tk = Added(Before, picked),
         scheme = NoType \/ SubAuth, taken = tk, NEW c, NEW s, Talk(tk, c, s)
  PROVE  Talking(c, s)'
<1>1. Both' = tk /\ scheme' # NoType
  BY SwitchTo
<1>2. Talk(tk, c, s)'
  BY SwitchFacts, TalkStays
<1>3. taken' = Both'
  BY <1>1, SwitchFacts
<1>4. Straight(c, s)'
  BY <1>1, <1>2, <1>3 DEF Straight
<1>5. Agreed'
  BY <1>1, SwitchFacts DEF Agreed
<1> HIDE DEF Agreed
<1> QED BY <1>4, <1>5 DEF Talking

LEMMA HandleSequence ==
  ASSUME NEW t
  PROVE  ASequence(Handle(t) ++ Z)
BY ShapeZ, ShapeHandle DEF Shape

(* The two agree on what explains itself.                                   *)
LEMMA Explaining ==
  ASSUME Agreed
  PROVE  (Explains(version) <=> Minor = 8) /\ (Listed(version) <=> Minor > 3)
<1>1. PICK v \in Versions : v # Nil /\ version = ClientVersion(v)
  BY DEF Agreed
<1>2. reply = version
  BY DEF Agreed
<1> QED BY <1>1, <1>2, Versioned

LEMMA SwitchTalks ==
  ASSUME Switched, NEW p, AllOp(p, "write"), NEW s, Talking(p ++ (L("switch") & Z), s),
         NEW c, c = Handle(picked) ++ Z
  PROVE  Talking(p ++ c, s)'
<1> PICK w : w = "switch"
  OBVIOUS
<1>1. /\ Agreed
      /\ \/ p = Nil /\ scheme = NoType /\ ~Listed(version) /\ picked \in Words /\ WordServed(picked, s)
         \/ Listing(p ++ (L(w) & Z), s)
  <2>1. Talking(p ++ (L(w) & Z), s)
    OBVIOUS
  <2>2. ASequence(Z) /\ w # "veSwitch"
    BY ZFacts
  <2> HIDE DEF Agreed
  <2> QED BY <2>1, <2>2, TalkingLocals
<1>c. ASequence(c)
  BY HandleSequence
<1>2. CASE picked = NoType /\ p = Nil
  <2>1. Ends(c)
    BY <1>2, ZFacts, HandlesNothing
  <2>2. p ++ c = c
    BY <1>2, <1>c, JoinNil
  <2>3. Talking(c, s)'
    BY <2>1 DEF Talking, Ends
  <2> QED BY <2>2, <2>3
<1>3. CASE picked # NoType /\ p = Nil /\ scheme = NoType /\ ~Listed(version) /\ picked \in Words /\ WordServed(picked, s)
  <2> PICK tk : tk = Added(Before, picked)
    OBVIOUS
  <2>0. tk = One(picked)
    <3>1. Before = Nil
      BY <1>3 DEF Before
    <3> QED BY <3>1 DEF Added
  <2>1. sub = NoType /\ ~SubAuth
    BY <1>1, <1>3 DEF Agreed, SubAuth, NoType
  <2>2. CASE taken = One(picked) /\ Talk(One(picked), Handle(picked) ++ Z, s)
    <3>1. Talk(tk, c, s) /\ taken = tk
      BY <2>0, <2>2
    <3>2. Talking(c, s)'
      <4> HIDE DEF Agreed
      <4> QED BY <1>1, <1>3, <2>1, <3>1, SwitchServed
    <3>3. p ++ c = c
      BY <1>3, <1>c, JoinNil
    <3> QED BY <3>2, <3>3
  <2>3. CASE Fresh /\ taken = Nil /\ s = Chosen(picked) & Nil
    <3> PICK h : h = ServerHandler(picked)
      OBVIOUS
    <3>1. Calm
      BY <2>3 DEF Calm, Fresh, layer
    <3>2. tk # Nil /\ (picked = "TLS" => tk = OnlyTLS) /\ (picked = "VeNCrypt" => tk = OnlyVe)
      BY <2>0, Ones DEF OnlyTLS, OnlyVe
    <3>3. Early(tk, c, h)
      <4>1. Explains(version) <=> Minor = 8
        BY <1>1, Explaining
      <4> QED BY <2>1, <2>3, <3>1, <3>2, <4>1, Opens
    <3> HIDE DEF Agreed
    <3> QED BY <1>1, <1>3, <2>1, <2>3, <3>1, <3>3, SwitchPends
  <2> QED BY <1>3, <2>2, <2>3 DEF WordServed
<1>4. CASE picked # NoType /\ Listing(p ++ (L(w) & Z), s)
  <2> PICK tk : tk = Added(Before, picked)
    OBVIOUS
  <2>1. /\ Choosing
        /\ \/ /\ p = W("choice", picked) & Nil /\ s = G("choice") & Nil
              /\ Selectable(picked, SubAuth) /\ Quiet /\ taken = Before
           \/ /\ p = Nil /\ Selectable(picked, SubAuth) /\ taken = Added(Before, picked)
              /\ Talk(taken, Handle(picked) ++ Z, s)
    <3> PICK a : a = L(w)
      OBVIOUS
    <3>1. a.op \notin {"read", "write"}
      BY Kinds
    <3>2. Listing(p ++ (a & Z), s)
      BY <1>4
    <3>3. /\ Choosing
          /\ \/ p = Nil /\ picked = NoType
             \/ /\ p = W("choice", picked) & Nil /\ s = G("choice") & Nil
                /\ Selectable(picked, SubAuth) /\ Quiet /\ taken = Before
             \/ /\ p = Nil /\ Selectable(picked, SubAuth) /\ taken = Added(Before, picked)
                /\ Talk(taken, Handle(picked) ++ Z, s)
      <4> HIDE DEF Choosing, Selectable, Quiet
      <4> QED BY <3>1, <3>2, ZFacts, ListingDone
    <3> QED BY <1>4, <3>3
  <2>2. sub = NoType /\ (scheme = NoType \/ SubAuth)
    BY <2>1 DEF Choosing
  <2>3. CASE /\ p = Nil /\ Selectable(picked, SubAuth) /\ taken = Added(Before, picked)
             /\ Talk(taken, Handle(picked) ++ Z, s)
    <3>1. Talk(tk, c, s) /\ taken = tk
      BY <2>3
    <3>2. Talking(c, s)'
      <4> HIDE DEF Agreed
      <4> QED BY <1>1, <1>4, <2>2, <3>1, SwitchServed
    <3>3. p ++ c = c
      BY <1>c, <2>3, JoinNil
    <3> QED BY <3>2, <3>3
  <2>4. CASE /\ p = W("choice", picked) & Nil /\ s = G("choice") & Nil
             /\ Selectable(picked, SubAuth) /\ Quiet /\ taken = Before
    <3> PICK h : h = ServerHandler(picked)
      OBVIOUS
    <3>1. Calm /\ (SubAuth \/ Fresh)
      BY <2>4 DEF Quiet
    <3>2. NoType # "TLS" /\ (picked \in {"TLS", "VeNCrypt"} => ~SubAuth)
      BY <2>4 DEF NoType, Selectable
    <3>3. /\ IF scheme = NoType THEN Fresh /\ taken = Nil ELSE taken = OnlyTLS
          /\ tk # Nil
          /\ ~SubAuth => tk = One(picked)
      <4>1. CASE scheme = NoType
        <5>1. Before = Nil /\ ~SubAuth
          BY <3>2, <4>1 DEF Before, SubAuth
        <5>2. tk = One(picked)
          BY <5>1 DEF Added
        <5> QED BY <2>4, <3>1, <4>1, <5>1, <5>2, Ones
      <4>2. CASE scheme # NoType
        <5>1. SubAuth /\ scheme = "TLS"
          BY <2>2, <4>2 DEF SubAuth
        <5>2. Before = OnlyTLS /\ OnlyTLS # Nil
          BY <4>2, <5>1, Ones DEF Before, OnlyTLS
        <5>3. tk # Nil
          BY <5>2, Ones DEF Added
        <5> QED BY <2>4, <4>2, <5>1, <5>2, <5>3
      <4> QED BY <4>1, <4>2
    <3>4. /\ picked = "TLS" => ~SubAuth /\ tk = OnlyTLS /\ Fresh
          /\ picked = "VeNCrypt" => ~SubAuth /\ tk = OnlyVe /\ Fresh
      BY <3>1, <3>2, <3>3 DEF OnlyTLS, OnlyVe
    <3>5. Early(tk, c, h)
      <4>1. Explains(version) <=> Minor = 8
        BY <1>1, Explaining
      <4> QED BY <3>1, <3>3, <3>4, <4>1, Opens
    <3> HIDE DEF Agreed
    <3> QED BY <1>1, <1>4, <2>2, <2>4, <3>1, <3>3, <3>5, SwitchPends
  <2> QED BY <2>1, <2>3, <2>4
<1>5. picked = NoType => p = Nil
  <2> SUFFICES ASSUME picked = NoType, Listing(p ++ (L(w) & Z), s)
               PROVE  p = Nil
    BY <1>1
  <2> PICK a : a = L(w)
    OBVIOUS
  <2>1. a.op \notin {"read", "write"}
    BY Kinds
  <2>2. Listing(p ++ (a & Z), s)
    OBVIOUS
  <2>3. ~Selectable(picked, SubAuth)
    BY NoTypeNot
  <2> HIDE DEF Selectable
  <2> QED BY <2>1, <2>2, <2>3, ZFacts, ListingDone
<1> QED BY <1>1, <1>2, <1>3, <1>4, <1>5

LEMMA SwitchLast ==
  ASSUME NEW p, AllOp(p, "write"), NEW t, ASequence(t), NEW s, Talking(p ++ (L("switch") & t), s)
  PROVE  t = Z
<1> PICK w : w = "switch"
  OBVIOUS
<1> PICK a : a = L(w)
  OBVIOUS
<1>1. a.op \notin {"read", "write"} /\ w # "veSwitch"
  BY Kinds
<1>2. t = Z \/ Listing(p ++ (L(w) & t), s)
  <2>1. Talking(p ++ (L(w) & t), s)
    OBVIOUS
  <2> QED BY <1>1, <2>1, TalkingLocals
<1>3. ASSUME Listing(p ++ (a & t), s)
      PROVE  t = Z
  <2> HIDE DEF Selectable, Choosing, Quiet
  <2> QED BY <1>1, <1>3, ListingDone
<1> QED BY <1>2, <1>3

LEMMA SwitchGoes ==
  ASSUME Conv, ShapeInv, ChoiceInv, Switch
  PROVE  Conv'
<1>0. Switched /\ outcome' = "going" /\ At("local", "switch") /\ UNCHANGED <<wire, closed, steps>>
      /\ todo' = Handle(picked) \o Tail(todo)
  BY DEF Switch, Switched, At, server, Continue, Handle
<1> PICK t : t = Tail(todo)
  OBVIOUS
<1> PICK w : w = "switch"
  OBVIOUS
<1>1. PICK p, d : /\ Ghost(p, d) /\ AllOp(p, "write") /\ ASequence(d) /\ ASequence(Other(d))
                  /\ ASequence(t) /\ Talking(p ++ (L(w) & t), Other(d))
  BY <1>0, ConvLocals
<1> PICK s : s = Other(d)
  OBVIOUS
<1>2. t = Z
  <2>1. Talking(p ++ (L("switch") & t), s)
    BY <1>1
  <2> QED BY <1>1, <2>1, SwitchLast
<1> PICK c : c = Handle(picked) ++ Z
  OBVIOUS
<1>3. todo' = c
  BY <1>0, <1>2 DEF ++
<1>4. Talking(p ++ c, s)'
  BY <1>0, <1>1, <1>2, SwitchTalks
<1> PICK y : y = p ++ c
  OBVIOUS
<1>5. Talking(y, s)' /\ y = p ++ todo'
  BY <1>3, <1>4
<1> QED BY <1>0, <1>1, <1>5, LocalThere

(* The client has read the list of VeNCrypt types.                          *)
LEMMA VeSwitchTalks ==
  ASSUME picked # NoType, NEW p, AllOp(p, "write"), NEW t, ASequence(t), NEW s, ASequence(s),
         Talking(p ++ (L("veSwitch") & t), s)
  PROVE  t = Z /\ Talking(p ++ (R("veAccepted") & Z), s)
<1> PICK w : w = "veSwitch"
  OBVIOUS
<1> PICK a : a = L(w)
  OBVIOUS
<1> PICK c : c = R("veAccepted") & Z
  OBVIOUS
<1>1. a.op \notin {"read", "write"} /\ w # "switch"
  BY Kinds
<1>c. ASequence(c) /\ ASequence(Z)
  BY ZFacts, ConsSequence
<1>2. Agreed /\ VeListing(p ++ (a & t), s)
  <2>1. Talking(p ++ (L(w) & t), s)
    OBVIOUS
  <2> HIDE DEF Agreed
  <2> QED BY <1>1, <2>1, TalkingLocals
<1>3. /\ t = Z /\ VeChoosing
      /\ \/ p = Nil /\ picked = NoType
         \/ /\ p = W("veChoice", picked) & Nil /\ s = G("veChoice") & Nil
            /\ picked \in VeNCryptTypes /\ taken = OnlyVe
         \/ /\ p = Nil /\ picked \in VeNCryptTypes /\ taken = Two("VeNCrypt", picked)
            /\ Accepts(picked, s)
  <2> HIDE DEF VeChoosing, VeNCryptTypes, Agreed
  <2> QED BY <1>1, <1>2, VeListingDone
<1>4. CASE /\ p = W("veChoice", picked) & Nil /\ s = G("veChoice") & Nil
           /\ picked \in VeNCryptTypes /\ taken = OnlyVe
  <2> PICK B : B = G("veChoice") & Nil
    OBVIOUS
  <2>1. VeTypes(B, c, s)
    BY <1>4 DEF VeTypes
  <2>2. p ++ c = W("veChoice", picked) & c
    <3>1. Nil ++ c = c
      BY <1>c, JoinNil
    <3> QED BY <1>4, <1>c, <3>1, NilSequence, JoinCons
  <2>3. VePicked(p ++ c, s)
    BY <1>4, <2>1, <2>2 DEF VePicked
  <2>4. VeListing(p ++ c, s)
    BY <1>3, <2>3 DEF VeListing
  <2> HIDE DEF Agreed
  <2> QED BY <1>2, <1>3, <2>4 DEF Talking
<1>5. CASE /\ p = Nil /\ picked \in VeNCryptTypes /\ taken = Two("VeNCrypt", picked)
           /\ Accepts(picked, s)
  <2>1. VeTypes(s, c, s)
    BY <1>5 DEF VeTypes
  <2>2. p ++ c = c
    BY <1>5, <1>c, JoinNil
  <2>3. VeHeard(p ++ c, s)
    BY <1>5, <2>1, <2>2 DEF VeHeard
  <2>4. VeListing(p ++ c, s)
    BY <1>3, <2>3 DEF VeListing
  <2> HIDE DEF Agreed
  <2> QED BY <1>2, <1>3, <2>4 DEF Talking
<1> QED BY <1>3, <1>4, <1>5

LEMMA VeSwitchGoes ==
  ASSUME Conv, ShapeInv, ChoiceInv, VeNCryptChosen
  PROVE  Conv'
<1>1. CASE picked = NoType
  <2>1. outcome' = "unknown"
    BY <1>1 DEF VeNCryptChosen, Fail
  <2> QED BY <2>1, ConvOver
<1>2. CASE picked # NoType
  <2>0. /\ Idle /\ outcome' = "going" /\ At("local", "veSwitch") /\ UNCHANGED <<wire, closed, steps>>
        /\ todo' = <<R("veAccepted")>> \o Tail(todo)
    BY <1>2 DEF VeNCryptChosen, Idle, At, server, Continue
  <2> PICK t : t = Tail(todo)
    OBVIOUS
  <2>1. PICK p, d : /\ Ghost(p, d) /\ AllOp(p, "write") /\ ASequence(d) /\ ASequence(Other(d))
                    /\ ASequence(t) /\ Talking(p ++ (L("veSwitch") & t), Other(d))
    BY <2>0, ConvLocals
  <2> PICK s : s = Other(d)
    OBVIOUS
  <2>2. t = Z /\ Talking(p ++ (R("veAccepted") & Z), s)
    BY <1>2, <2>1, VeSwitchTalks
  <2>3. todo' = R("veAccepted") & Z
    BY <2>0, <2>2 DEF &
  <2> PICK y : y = p ++ (R("veAccepted") & Z)
    OBVIOUS
  <2>4. Talking(y, s)'
    BY <2>0, <2>2, TalkingStays
  <2>5. y = p ++ todo'
    BY <2>3
  <2> QED BY <2>0, <2>1, <2>4, <2>5, LocalThere
<1> QED BY <1>1, <1>2

-------------------------------------------------------------------------------
(* The client reads, in an authentication.                                  *)
TalkRead(tk, w, t, b, s) ==
  \/ w \in Data \cup Lengths /\ Talk(tk, t, s)
  \/ w = "result" /\ tk # Nil /\ Calm /\ t = Z /\ ResultOf(b & s)
  \/ w \in {"veVersion", "veStatus", "veCount"} /\ tk = OnlyVe /\ Fresh /\ Calm /\ VeCase(R(w) & t, b & s)
  \/ /\ w = "count" /\ Calm /\ t = Z /\ Offer(b & s)
     /\ tk = OnlyTLS \/ (tk = Nil /\ Fresh /\ Listed(version))
  \/ w = "saslData" /\ tk # Nil /\ SaslReplied(R(w) & t, b & s)
  \/ w = "saslComplete" /\ tk # Nil /\ SaslHalf(R(w) & t, b & s)
  \/ w = "saslResult" /\ tk # Nil /\ SaslClosing(R(w) & t, b & s) /\ t = Z

LEMMA ReadNow ==
  ASSUME NEW tk, NEW w, NEW t, ASequence(t), NEW b, b.op = "send", NEW s, ASequence(s),
         Talk(tk, R(w) & t, b & s)
  PROVE  TalkRead(tk, w, t, b, s)
<1> PICK c : c = R(w) & t
  OBVIOUS
<1>1. Nil ++ c = c
  BY ConsSequence, JoinNil
<1>2. AllOp(Nil, "write") /\ Talk(tk, Nil ++ (R(w) & t), b & s)
  BY <1>1, AllOpNil
<1>3. PICK p : p = Nil
  OBVIOUS
<1>4. AllOp(p, "write") /\ Talk(tk, p ++ (R(w) & t), b & s)
  BY <1>2, <1>3
<1> HIDE DEF VeCase
<1> QED BY <1>4, TalkReads DEF TalkRead

Elsewhere == {"version", "word", "type", "veType", "veAccepted"}

LEMMA ReadCases ==
  ASSUME Conv, ShapeInv, ChoiceInv, NEW w, w \notin Elsewhere, At("read", w), inbox # Nil,
         NEW t, t = Tail(todo), NEW b, b = Next1
  PROVE  /\ ASequence(t) /\ Agreed /\ taken = Both /\ b.op = "send" /\ b.val = Front
         /\ \E d : Ghost(Nil, d) /\ ASequence(Later(d)) /\ TalkRead(Both, w, t, b, Later(d))
<1>0. outcome = "going" /\ todo # Nil /\ todo[1].op = "read" /\ todo[1].what = w
  BY DEF At, Nil
<1>1. PICK p, d : /\ Ghost(p, d) /\ AllOp(p, "write") /\ ASequence(Later(d)) /\ b.op = "send"
                  /\ b.val = Front /\ Talking(p ++ (R(w) & t), b & Later(d))
  BY <1>0, ConvReads
<1>t. ASequence(t)
  BY <1>0, Sequences, Decompose DEF Nil
<1> PICK s : s = Later(d)
  OBVIOUS
<1> PICK tk : tk = Both
  OBVIOUS
<1>2. Agreed /\ p = Nil /\ taken = Both /\ Talk(tk, R(w) & t, b & s)
  <2>1. Talking(p ++ (R(w) & t), b & s) /\ ASequence(s)
    BY <1>1
  <2>2. w # "version" /\ w # "word" /\ w # "type" /\ w \notin {"veType", "veAccepted"}
    BY DEF Elsewhere
  <2> HIDE DEF Agreed
  <2> QED BY <1>1, <1>t, <2>1, <2>2, TalkingReads
<1>3. TalkRead(tk, w, t, b, s)
  BY <1>1, <1>2, <1>t, ReadNow
<1>4. Ghost(Nil, d)
  BY <1>1, <1>2
<1> HIDE DEF Agreed
<1> QED BY <1>1, <1>2, <1>3, <1>4, <1>t

(* ... and goes on with what is left to do.                                 *)
LEMMA ReadGoes ==
  ASSUME Agreed, UNCHANGED <<version, scheme, sub, reply, taken>>, taken = Both,
         NEW d, Ghost(Nil, d), outcome' = "going", inbox' = Tail(inbox),
         UNCHANGED <<toClient, toServer, closed, steps>>,
         NEW c, ASequence(c), todo' = c, NEW tk, tk = Both, NEW s, s = Later(d), Talk(tk, c, s)'
  PROVE  Conv'
<1>1. Talking(c, s)'
  <2> HIDE DEF Agreed
  <2> QED BY StraightThere
<1>2. Nil ++ c = c
  BY JoinNil
<1>3. PICK p : p = Nil
  OBVIOUS
<1>4. Ghost(p, d) /\ c = p ++ todo'
  BY <1>2, <1>3
<1> QED BY <1>1, <1>4, ReadThere

LEMMA DataKeeps ==
  ASSUME Conv, ShapeInv, ChoiceInv, ReadData
  PROVE  Conv'
<1>1. PICK w \in Data \cup Lengths :
        /\ Take(w)
        /\ IF w \in Lengths /\ Front = "long"
             THEN Fail(IF w = "reasonLength" THEN "refused" ELSE "long")
             ELSE Continue(<<>>)
        /\ UNCHANGED <<choice, tls, saslconn, saslState>>
  BY DEF ReadData
<1>2. CASE w \in Lengths /\ Front = "long"
  <2>1. outcome' \notin {"going", "ready"}
    BY <1>1, <1>2 DEF Fail
  <2> QED BY <2>1, ConvOver
<1>3. CASE ~(w \in Lengths /\ Front = "long")
  <2>0. /\ Idle /\ outcome' = "going" /\ At("read", w) /\ inbox # Nil /\ inbox' = Tail(inbox)
        /\ UNCHANGED <<toClient, toServer, closed, steps>> /\ todo' = <<>> \o Tail(todo)
    BY <1>1, <1>3 DEF Take, Idle, At, server, Continue, Nil
  <2>00. Firm /\ verdict' = verdict /\ UNCHANGED <<version, scheme, sub, reply, taken>>
    BY <2>0, IdleFacts
  <2> PICK t : t = Tail(todo)
    OBVIOUS
  <2> PICK b : b = Next1
    OBVIOUS
  <2> PICK tk : tk = Both
    OBVIOUS
  <2>1. w \notin Elsewhere \cup {"result", "veVersion", "veStatus", "veCount", "count", "saslData", "saslComplete", "saslResult"}
    BY DEF Data, Lengths, Elsewhere
  <2>2. ASequence(t) /\ Agreed /\ taken = Both
    <3> HIDE DEF Agreed
    <3> QED BY <2>0, <2>1, ReadCases
  <2>3. PICK d : Ghost(Nil, d) /\ ASequence(Later(d)) /\ TalkRead(Both, w, t, b, Later(d))
    BY <2>0, <2>1, ReadCases
  <2> PICK s : s = Later(d)
    OBVIOUS
  <2>4. Talk(tk, t, s)
    BY <2>1, <2>3 DEF TalkRead
  <2>5. Talk(tk, t, s)'
    BY <2>00, <2>4, TalkStays
  <2>6. todo' = t
    BY <2>0, <2>2, Empties
  <2> HIDE DEF Agreed
  <2> QED BY <2>0, <2>00, <2>2, <2>3, <2>5, <2>6, ReadGoes
<1> QED BY <1>2, <1>3

LEMMA ReasonAlone ==
  ASequence(ReadReason)
<1>1. ReadReason = R("reasonLength") & (R("reason") & (GiveUp("refused") & Nil))
  BY NilSequence, ReasonScript
<1> QED BY <1>1, NilSequence, ConsSequence

LEMMA ResultKeeps ==
  ASSUME Conv, ShapeInv, ChoiceInv, AuthResult
  PROVE  Conv'
<1>1. CASE Front = "ok" \/ (Front = "failed" /\ Explains(version))
  <2>0. /\ Idle /\ outcome' = "going" /\ At("read", "result") /\ inbox # Nil /\ inbox' = Tail(inbox)
        /\ UNCHANGED <<toClient, toServer, closed, steps>>
        /\ Front = "ok" => todo' = <<>> \o Tail(todo)
        /\ Front = "failed" => todo' = ReadReason
    <3>1. Front = "ok" => Front # "failed"
      OBVIOUS
    <3>2. /\ At("read", "result") /\ inbox # Nil /\ inbox' = Tail(inbox)
          /\ UNCHANGED <<toClient, toServer, closed, server, choice, tls, saslconn, saslState>>
      BY DEF AuthResult, Take, Nil
    <3>3. CASE Front = "ok"
      <4>1. todo' = <<>> \o Tail(todo) /\ outcome' = outcome
        BY <3>3 DEF AuthResult, Continue
      <4> QED BY <3>1, <3>2, <3>3, <4>1 DEF Idle, At, server
    <3>4. CASE Front # "ok"
      <4>1. Front = "failed" /\ Explains(version)
        BY <1>1, <3>4
      <4>2. todo' = ReadReason /\ outcome' = outcome
        BY <3>4, <4>1 DEF AuthResult
      <4> QED BY <3>2, <3>4, <4>2 DEF Idle, At, server
    <3> QED BY <3>3, <3>4
  <2>00. Firm /\ verdict' = verdict /\ UNCHANGED <<version, scheme, sub, reply, taken>>
    BY <2>0, IdleFacts
  <2> PICK w : w = "result"
    OBVIOUS
  <2> PICK t : t = Tail(todo)
    OBVIOUS
  <2> PICK b : b = Next1
    OBVIOUS
  <2> PICK tk : tk = Both
    OBVIOUS
  <2>1. w \notin Elsewhere \cup Data \cup Lengths \cup {"veVersion", "veStatus", "veCount", "count", "saslData", "saslComplete", "saslResult"}
    BY DEF Data, Lengths, Elsewhere
  <2>2. ASequence(t) /\ Agreed /\ taken = Both /\ b.op = "send" /\ b.val = Front
    <3> HIDE DEF Agreed
    <3> QED BY <2>0, <2>1, ReadCases
  <2>3. PICK d : Ghost(Nil, d) /\ ASequence(Later(d)) /\ TalkRead(Both, w, t, b, Later(d))
    BY <2>0, <2>1, ReadCases
  <2> PICK s : s = Later(d)
    OBVIOUS
  <2>4. tk # Nil /\ Calm /\ t = Z /\ ResultOf(b & s)
    BY <2>1, <2>3 DEF TalkRead
  <2>5. /\ b.val = "ok" => Talk(tk, Z, s)
        /\ b.val = "failed" /\ Minor = 8 => Talk(tk, ReadReason, s)
    BY <2>2, <2>3, <2>4, AfterResult
  <2> PICK c : c = IF Front = "ok" THEN Z ELSE ReadReason
    OBVIOUS
  <2>6. Talk(tk, c, s)
    <3>1. Explains(version) <=> Minor = 8
      BY <2>2, Explaining
    <3>2. CASE Front = "ok"
      BY <2>2, <2>5, <3>2
    <3>3. CASE Front # "ok"
      BY <1>1, <2>2, <2>5, <3>1, <3>3
    <3> QED BY <3>2, <3>3
  <2>7. Talk(tk, c, s)'
    BY <2>00, <2>6, TalkStays
  <2>8. todo' = c /\ ASequence(c)
    <3>1. CASE Front = "ok"
      BY <2>0, <2>2, <2>4, <3>1, Empties
    <3>2. CASE Front # "ok"
      BY <1>1, <2>0, <3>2, ReasonAlone
    <3> QED BY <3>1, <3>2
  <2> HIDE DEF Agreed
  <2> QED BY <2>0, <2>00, <2>2, <2>3, <2>7, <2>8, ReadGoes
<1>2. CASE ~(Front = "ok" \/ (Front = "failed" /\ Explains(version)))
  <2>1. outcome' \notin {"going", "ready"}
    BY <1>2 DEF AuthResult, Fail
  <2> QED BY <2>1, ConvOver
<1> QED BY <1>1, <1>2

(* VeNCrypt's version and status. *)
LEMMA VeVersionKeeps ==
  ASSUME Conv, ShapeInv, ChoiceInv, ReadVeNCryptVersion
  PROVE  Conv'
<1>1. CASE Front[1] # 0 /\ Front[2] # 2
  <2>1. outcome' \notin {"going", "ready"}
    BY <1>1 DEF ReadVeNCryptVersion, Fail
  <2> QED BY <2>1, ConvOver
<1>2. CASE ~(Front[1] # 0 /\ Front[2] # 2)
  <2>0. /\ Idle /\ outcome' = "going" /\ At("read", "veVersion") /\ inbox # Nil /\ inbox' = Tail(inbox)
        /\ UNCHANGED <<toClient, toServer, closed, steps>> /\ todo' = VeNCryptAgreed \o Tail(todo)
    BY <1>2 DEF ReadVeNCryptVersion, Take, Idle, At, server, Continue, Nil
  <2>00. Firm /\ verdict' = verdict /\ UNCHANGED <<version, scheme, sub, reply, taken>>
    BY <2>0, IdleFacts
  <2> PICK w : w = "veVersion"
    OBVIOUS
  <2> PICK t : t = Tail(todo)
    OBVIOUS
  <2> PICK b : b = Next1
    OBVIOUS
  <2> PICK tk : tk = Both
    OBVIOUS
  <2>1. w \notin Elsewhere \cup Data \cup Lengths \cup {"result", "count", "saslData", "saslComplete", "saslResult"}
    BY DEF Data, Lengths, Elsewhere
  <2>2. ASequence(t) /\ Agreed /\ taken = Both /\ b.op = "send"
    <3> HIDE DEF Agreed
    <3> QED BY <2>0, <2>1, ReadCases
  <2>3. PICK d : Ghost(Nil, d) /\ ASequence(Later(d)) /\ TalkRead(Both, w, t, b, Later(d))
    BY <2>0, <2>1, ReadCases
  <2> PICK s : s = Later(d)
    OBVIOUS
  <2>4. tk = OnlyVe /\ Fresh /\ Calm /\ VeCase(R("veVersion") & t, b & s)
    BY <2>1, <2>3 DEF TalkRead
  <2> PICK c : c = VeNCryptAgreed ++ t
    OBVIOUS
  <2>5. Talk(tk, c, s)
    BY <2>2, <2>3, <2>4, AfterVeVersion
  <2>6. Talk(tk, c, s)'
    BY <2>00, <2>5, TalkStays
  <2>7. todo' = c
    BY <2>0 DEF ++
  <2>8. ASequence(c)
    BY <2>5, TalkFacts
  <2> HIDE DEF Agreed
  <2> QED BY <2>0, <2>00, <2>2, <2>3, <2>6, <2>7, <2>8, ReadGoes
<1> QED BY <1>1, <1>2

LEMMA VeStatusKeeps ==
  ASSUME Conv, ShapeInv, ChoiceInv, ReadVeNCryptStatus
  PROVE  Conv'
<1>1. CASE Front # 0
  <2>1. outcome' \notin {"going", "ready"}
    BY <1>1 DEF ReadVeNCryptStatus, Fail
  <2> QED BY <2>1, ConvOver
<1>2. CASE Front = 0
  <2>0. /\ Idle /\ outcome' = "going" /\ At("read", "veStatus") /\ inbox # Nil /\ inbox' = Tail(inbox)
        /\ UNCHANGED <<toClient, toServer, closed, steps>> /\ todo' = <<>> \o Tail(todo)
    BY <1>2 DEF ReadVeNCryptStatus, Take, Idle, At, server, Continue, Nil
  <2>00. Firm /\ verdict' = verdict /\ UNCHANGED <<version, scheme, sub, reply, taken>>
    BY <2>0, IdleFacts
  <2> PICK w : w = "veStatus"
    OBVIOUS
  <2> PICK t : t = Tail(todo)
    OBVIOUS
  <2> PICK b : b = Next1
    OBVIOUS
  <2> PICK tk : tk = Both
    OBVIOUS
  <2>1. w \notin Elsewhere \cup Data \cup Lengths \cup {"result", "count", "saslData", "saslComplete", "saslResult"}
    BY DEF Data, Lengths, Elsewhere
  <2>2. ASequence(t) /\ Agreed /\ taken = Both /\ b.op = "send" /\ b.val = Front
    <3> HIDE DEF Agreed
    <3> QED BY <2>0, <2>1, ReadCases
  <2>3. PICK d : Ghost(Nil, d) /\ ASequence(Later(d)) /\ TalkRead(Both, w, t, b, Later(d))
    BY <2>0, <2>1, ReadCases
  <2> PICK s : s = Later(d)
    OBVIOUS
  <2>4. tk = OnlyVe /\ Fresh /\ Calm /\ VeCase(R("veStatus") & t, b & s) /\ b.val = 0
    BY <1>2, <2>1, <2>2, <2>3 DEF TalkRead
  <2>5. Talk(tk, t, s)
    BY <2>2, <2>3, <2>4, AfterVeStatus
  <2>6. Talk(tk, t, s)'
    BY <2>00, <2>5, TalkStays
  <2>7. todo' = t
    BY <2>0, <2>2, Empties
  <2> HIDE DEF Agreed
  <2> QED BY <2>0, <2>00, <2>2, <2>3, <2>6, <2>7, ReadGoes
<1> QED BY <1>1, <1>2

(* SASL: the server's data, ... *)
LEMMA SaslDataKeeps ==
  ASSUME Conv, ShapeInv, ChoiceInv, ReadSaslData
  PROVE  Conv'
<1>1. CASE Front = -1
  <2>1. outcome' \notin {"going", "ready"}
    BY <1>1 DEF ReadSaslData, Fail
  <2> QED BY <2>1, ConvOver
<1>2. CASE Front # -1
  <2>0. /\ outcome' = "going" /\ At("read", "saslData") /\ inbox # Nil /\ inbox' = Tail(inbox)
        /\ UNCHANGED <<toClient, toServer, closed, steps>> /\ todo' = <<>> \o Tail(todo)
        /\ serverin' = Front
    BY <1>2 DEF ReadSaslData, Take, At, server, Continue, Nil
  <2>00. /\ UNCHANGED <<version, scheme, sub, reply, taken>>
         /\ UNCHANGED <<version, tls, saslconn, mech, sasl, complete, reply, serverLayer, exchanges, verdict>>
    BY DEF ReadSaslData, Take, choice, server
  <2> PICK w : w = "saslData"
    OBVIOUS
  <2> PICK t : t = Tail(todo)
    OBVIOUS
  <2> PICK b : b = Next1
    OBVIOUS
  <2> PICK tk : tk = Both
    OBVIOUS
  <2>1. w \notin Elsewhere \cup Data \cup Lengths \cup {"result", "count", "veVersion", "veStatus", "veCount", "saslComplete", "saslResult"}
    BY DEF Data, Lengths, Elsewhere
  <2>2. ASequence(t) /\ Agreed /\ taken = Both /\ b.op = "send" /\ b.val = Front
    <3> HIDE DEF Agreed
    <3> QED BY <2>0, <2>1, ReadCases
  <2>3. PICK d : Ghost(Nil, d) /\ ASequence(Later(d)) /\ TalkRead(Both, w, t, b, Later(d))
    BY <2>0, <2>1, ReadCases
  <2> PICK s : s = Later(d)
    OBVIOUS
  <2>4. tk # Nil /\ SaslReplied(R("saslData") & t, b & s)
    BY <2>1, <2>3 DEF TalkRead
  <2>5. b.val # -1 /\ serverin' = b.val
    BY <1>2, <2>0, <2>2
  <2>6. Talk(tk, t, s)'
    BY <2>00, <2>2, <2>3, <2>4, <2>5, AfterData
  <2>7. todo' = t
    BY <2>0, <2>2, Empties
  <2> HIDE DEF Agreed
  <2> QED BY <2>0, <2>00, <2>2, <2>3, <2>6, <2>7, ReadGoes
<1> QED BY <1>1, <1>2

(* ... whether it is done, ... *)
LEMMA SaslCompleteKeeps ==
  ASSUME Conv, ShapeInv, ChoiceInv, ReadSaslComplete
  PROVE  Conv'
<1>0. /\ outcome' = "going" /\ At("read", "saslComplete") /\ inbox # Nil /\ inbox' = Tail(inbox)
      /\ UNCHANGED <<toClient, toServer, closed, steps>> /\ complete' = Front
      /\ todo' = (IF complete' /\ sasl.ok THEN SaslEnd ELSE <<L("saslStep")>>) \o Tail(todo)
  BY DEF ReadSaslComplete, Take, At, server, Continue, Nil, ServerDone
<1>00. /\ UNCHANGED <<version, scheme, sub, reply, taken>>
       /\ UNCHANGED <<version, tls, saslconn, mech, sasl, serverin, reply, serverLayer, exchanges, verdict>>
  BY DEF ReadSaslComplete, Take, choice, server
<1> PICK w : w = "saslComplete"
  OBVIOUS
<1> PICK t : t = Tail(todo)
  OBVIOUS
<1> PICK b : b = Next1
  OBVIOUS
<1> PICK tk : tk = Both
  OBVIOUS
<1>1. w \notin Elsewhere \cup Data \cup Lengths \cup {"result", "count", "veVersion", "veStatus", "veCount", "saslData", "saslResult"}
  BY DEF Data, Lengths, Elsewhere
<1>2. ASequence(t) /\ Agreed /\ taken = Both /\ b.op = "send" /\ b.val = Front
  <2> HIDE DEF Agreed
  <2> QED BY <1>0, <1>1, ReadCases
<1>3. PICK d : Ghost(Nil, d) /\ ASequence(Later(d)) /\ TalkRead(Both, w, t, b, Later(d))
  BY <1>0, <1>1, ReadCases
<1> PICK s : s = Later(d)
  OBVIOUS
<1>4. tk # Nil /\ SaslHalf(R("saslComplete") & t, b & s)
  BY <1>1, <1>3 DEF TalkRead
<1>5. complete' = b.val
  BY <1>0, <1>2
<1>6. /\ t = Z
      /\ complete' /\ sasl.ok => Talk(tk, L("saslStrength") & (R("saslResult") & Z), s)'
      /\ Talk(tk, L("saslStep") & Z, s)'
  <2>1. ASequence(t) /\ ASequence(s)
    BY <1>2, <1>3
  <2> HIDE DEF SaslHalf
  <2> QED BY ONLY <1>00, <1>4, <1>5, <2>1, AfterComplete, Zenon
<1>7. CASE complete' /\ sasl.ok
  <2> PICK c : c = L("saslStrength") & (R("saslResult") & Z)
    OBVIOUS
  <2>1. todo' = SaslEnd ++ Z
    BY <1>0, <1>6, <1>7 DEF ++
  <2>2. SaslEnd ++ Z = c /\ ASequence(c)
    BY ShortScripts, ZFacts, ConsSequence
  <2>3. Talk(tk, c, s)' /\ todo' = c
    BY <1>6, <1>7, <2>1, <2>2
  <2> HIDE DEF Agreed
  <2> QED BY <1>0, <1>00, <1>2, <1>3, <2>2, <2>3, ReadGoes
<1>8. CASE ~(complete' /\ sasl.ok)
  <2> PICK c : c = L("saslStep") & Z
    OBVIOUS
  <2>1. todo' = <<L("saslStep")>> \o Z
    BY <1>0, <1>6, <1>8
  <2>2. todo' = c /\ ASequence(c)
    BY <2>1, ZFacts, ConsSequence DEF &
  <2>3. Talk(tk, c, s)'
    BY <1>6
  <2> HIDE DEF Agreed
  <2> QED BY <1>0, <1>00, <1>2, <1>3, <2>2, <2>3, ReadGoes
<1> QED BY <1>7, <1>8

(* ... and its result. *)
LEMMA SaslResultKeeps ==
  ASSUME Conv, ShapeInv, ChoiceInv, ReadSaslResult
  PROVE  Conv' /\ (saslconn' => saslconn \/ (sasl.ok /\ sasl.given = 2 * Half /\ sasl.calls \in Nat \ {0}))
<1>1. CASE Front # "ok"
  <2>1. outcome' \notin {"going", "ready"} /\ saslconn' = saslconn
    BY <1>1 DEF ReadSaslResult, Fail
  <2> QED BY <2>1, ConvOver
<1>2. CASE Front = "ok"
  <2>0. /\ outcome' = "going" /\ At("read", "saslResult") /\ inbox # Nil /\ inbox' = Tail(inbox)
        /\ UNCHANGED <<toClient, toServer, closed, steps>> /\ todo' = <<>> \o Tail(todo)
        /\ saslconn' = TRUE
    BY <1>2 DEF ReadSaslResult, Take, At, server, Continue, Nil
  <2>00. /\ UNCHANGED <<version, scheme, sub, reply, taken>>
         /\ UNCHANGED <<version, tls, mech, sasl, complete, reply, serverLayer, exchanges, verdict>>
    BY DEF ReadSaslResult, Take, choice, server, saslState
  <2> PICK w : w = "saslResult"
    OBVIOUS
  <2> PICK t : t = Tail(todo)
    OBVIOUS
  <2> PICK b : b = Next1
    OBVIOUS
  <2> PICK tk : tk = Both
    OBVIOUS
  <2>1. w \notin Elsewhere \cup Data \cup Lengths \cup {"result", "count", "veVersion", "veStatus", "veCount", "saslComplete", "saslData"}
    BY DEF Data, Lengths, Elsewhere
  <2>2. ASequence(t) /\ Agreed /\ taken = Both /\ b.op = "send" /\ b.val = Front
    <3> HIDE DEF Agreed
    <3> QED BY <2>0, <2>1, ReadCases
  <2>3. PICK d : Ghost(Nil, d) /\ ASequence(Later(d)) /\ TalkRead(Both, w, t, b, Later(d))
    BY <2>0, <2>1, ReadCases
  <2> PICK s : s = Later(d)
    OBVIOUS
  <2>4. tk # Nil /\ SaslClosing(R("saslResult") & t, b & s) /\ t = Z
    BY <2>1, <2>3 DEF TalkRead
  <2>5. b.val = "ok"
    BY <1>2, <2>2
  <2>6. Talk(tk, t, s)' /\ sasl.ok /\ sasl.given = 2 * Half /\ sasl.calls \in Nat \ {0}
    BY <2>0, <2>00, <2>2, <2>3, <2>4, <2>5, AfterSasl
  <2>7. todo' = t
    BY <2>0, <2>2, Empties
  <2>8. Conv'
    <3> HIDE DEF Agreed
    <3> QED BY <2>0, <2>00, <2>2, <2>3, <2>6, <2>7, ReadGoes
  <2> QED BY <2>6, <2>8
<1> QED BY <1>1, <1>2

(* The client reads the server's version, ...                               *)
LEMMA ReadTalks ==
  ASSUME Conv, ShapeInv, ChoiceInv, NEW w, At("read", w), inbox # Nil,
         NEW t, t = Tail(todo), NEW b, b = Next1
  PROVE  /\ ASequence(t) /\ b.op = "send" /\ b.val = Front
         /\ \E p, d : /\ Ghost(p, d) /\ AllOp(p, "write") /\ ASequence(Later(d))
                      /\ Talking(p ++ (R(w) & t), b & Later(d))
<1>0. outcome = "going" /\ todo # Nil /\ todo[1].op = "read" /\ todo[1].what = w
  BY DEF At, Nil
<1>1. PICK p, d : /\ Ghost(p, d) /\ AllOp(p, "write") /\ ASequence(Later(d)) /\ b.op = "send"
                  /\ b.val = Front /\ Talking(p ++ (R(w) & t), b & Later(d))
  BY <1>0, ConvReads
<1>t. ASequence(t)
  BY <1>0, Sequences, Decompose DEF Nil
<1> QED BY <1>1, <1>t

LEMMA VersionTalks ==
  ASSUME NEW p, AllOp(p, "write"), NEW t, ASequence(t), NEW b, b.op = "send", NEW s, ASequence(s),
         Talking(p ++ (R("version") & t), b & s)
  PROVE  /\ p = Nil /\ t = Z /\ s = G("version") & Nil
         /\ \E v \in Versions : b = S("version", v)
         /\ Fresh /\ scheme = NoType /\ sub = NoType /\ taken = Nil
<1> PICK w : w = "version"
  OBVIOUS
<1>1. Talking(p ++ (R(w) & t), b & s)
  OBVIOUS
<1>2. w = "version" /\ w # "word" /\ w # "type" /\ w \notin {"veType", "veAccepted"}
  OBVIOUS
<1> HIDE DEF Agreed, Fresh
<1> QED BY <1>1, <1>2, TalkingReads

LEMMA VersionKeeps ==
  ASSUME Conv, ShapeInv, ChoiceInv, ReadVersion
  PROVE  Conv'
<1>1. CASE Front = <<>>
  <2>1. outcome' \notin {"going", "ready"}
    BY <1>1 DEF ReadVersion, Fail
  <2> QED BY <2>1, ConvOver
<1>2. CASE Front # <<>>
  <2> PICK list : list = IF Listed(version)' THEN "count" ELSE "word"
    OBVIOUS
  <2>0. /\ outcome' = "going" /\ At("read", "version") /\ inbox # Nil /\ inbox' = Tail(inbox)
        /\ UNCHANGED <<toClient, toServer, closed, steps>>
        /\ version' = ClientVersion(Front)
        /\ todo' = <<W("version", version'), R(list)>> \o Tail(todo)
    BY <1>2 DEF ReadVersion, Take, At, server, Continue, Nil, Listed
  <2>00. UNCHANGED <<scheme, sub, taken, tls, saslconn, serverLayer>>
    BY DEF ReadVersion, Take, server
  <2> PICK t : t = Tail(todo)
    OBVIOUS
  <2> PICK b : b = Next1
    OBVIOUS
  <2>1. ASequence(t) /\ b.op = "send" /\ b.val = Front
    BY <2>0, ReadTalks
  <2>2. PICK p, d : /\ Ghost(p, d) /\ AllOp(p, "write") /\ ASequence(Later(d))
                    /\ Talking(p ++ (R("version") & t), b & Later(d))
    BY <2>0, ReadTalks
  <2> PICK s : s = Later(d)
    OBVIOUS
  <2>3. /\ p = Nil /\ t = Z /\ s = G("version") & Nil
        /\ \E v \in Versions : b = S("version", v)
        /\ Fresh /\ scheme = NoType /\ sub = NoType /\ taken = Nil
    <3>1. AllOp(p, "write") /\ ASequence(s) /\ Talking(p ++ (R("version") & t), b & s)
      BY <2>2
    <3> HIDE DEF Fresh
    <3> QED BY ONLY <2>1, <3>1, VersionTalks
  <2>4. PICK v \in Versions : b = S("version", v)
    BY <2>3
  <2>5. v # Nil /\ version' = ClientVersion(v)
    <3>1. v = Front
      BY <2>1, <2>4, Kinds
    <3> QED BY <1>2, <2>0, <3>1 DEF Nil
  <2> PICK n : n = version'
    OBVIOUS
  <2> PICK c : c = W("version", n) & (R(list) & Z)
    OBVIOUS
  <2>6. todo' = c
    <3>1. todo' = <<W("version", n), R(list)>> ++ Z
      BY <2>0, <2>3 DEF ++
    <3> QED BY <3>1, ZFacts, Tuple2
  <2>7. Fresh'
    BY <2>00, <2>3 DEF Fresh
  <2>8. c = W("version", version') & (R(IF Listed(version)' THEN "count" ELSE "word") & Z)
    OBVIOUS
  <2>9. Greeting(c, s)'
    <3>1. \E v1 \in Versions : v1 # Nil /\ version' = ClientVersion(v1)
      BY <2>5
    <3>2. scheme' = NoType /\ sub' = NoType /\ taken' = Nil
      BY <2>00, <2>3
    <3> HIDE DEF Fresh, Listed
    <3> QED BY <2>3, <2>7, <2>8, <3>1, <3>2 DEF Greeting
  <2>10. Talking(c, s)'
    BY <2>9 DEF Talking
  <2>11. c = p ++ todo'
    <3>1. ASequence(c)
      BY ZFacts, ConsSequence
    <3>2. Nil ++ c = c
      BY <3>1, JoinNil
    <3> QED BY <2>3, <2>6, <3>2
  <2> QED BY <2>0, <2>2, <2>10, <2>11, ReadThere
<1> QED BY <1>1, <1>2

(* ... or the security type that an old one names. *)
LEMMA WordTalks ==
  ASSUME NEW p, AllOp(p, "write"), NEW t, ASequence(t), NEW b, b.op = "send", NEW s, ASequence(s),
         Talking(p ++ (R("word") & t), b & s)
  PROVE  /\ p = Nil /\ t = Z /\ Agreed /\ scheme = NoType /\ ~Listed(version)
         /\ \E v \in Words : b = S("word", v) /\ WordServed(v, s)
<1> PICK w : w = "word"
  OBVIOUS
<1>1. Talking(p ++ (R(w) & t), b & s)
  OBVIOUS
<1>2. w = "word" /\ w # "version" /\ w # "type" /\ w \notin {"veType", "veAccepted"}
  OBVIOUS
<1> HIDE DEF Agreed, WordServed, Listed
<1> QED BY <1>1, <1>2, TalkingReads

LEMMA WordKeeps ==
  ASSUME Conv, ShapeInv, ChoiceInv, ReadWord
  PROVE  Conv'
<1>0. /\ outcome' = "going" /\ At("read", "word") /\ inbox # Nil /\ inbox' = Tail(inbox)
      /\ UNCHANGED <<toClient, toServer, closed, steps>>
      /\ picked' = Front /\ todo' = <<L("switch")>> \o Tail(todo)
  BY DEF ReadWord, Take, At, server, Continue, Nil
<1>00. /\ UNCHANGED <<version, scheme, sub, taken, reply, tls, saslconn, serverLayer, verdict>>
       /\ Firm
  BY DEF ReadWord, Take, server, saslState, Firm
<1> PICK t : t = Tail(todo)
  OBVIOUS
<1> PICK b : b = Next1
  OBVIOUS
<1>1. ASequence(t) /\ b.op = "send" /\ b.val = Front
  BY <1>0, ReadTalks
<1>2. PICK p, d : /\ Ghost(p, d) /\ AllOp(p, "write") /\ ASequence(Later(d))
                  /\ Talking(p ++ (R("word") & t), b & Later(d))
  BY <1>0, ReadTalks
<1> PICK s : s = Later(d)
  OBVIOUS
<1>3. /\ p = Nil /\ t = Z /\ Agreed /\ scheme = NoType /\ ~Listed(version)
      /\ \E v \in Words : b = S("word", v) /\ WordServed(v, s)
  <2>1. AllOp(p, "write") /\ ASequence(s) /\ Talking(p ++ (R("word") & t), b & s)
    BY <1>2
  <2> HIDE DEF Agreed, WordServed, Listed
  <2> QED BY ONLY <1>1, <2>1, WordTalks
<1>4. PICK v \in Words : b = S("word", v) /\ WordServed(v, s)
  BY <1>3
<1>5. picked' = v
  BY <1>0, <1>1, <1>4, Kinds
<1> PICK c : c = L("switch") & Z
  OBVIOUS
<1>6. todo' = c
  BY <1>0, <1>3 DEF &
<1>7. WordServed(v, s)'
  <2>1. CASE Fresh /\ taken = Nil /\ s = Chosen(v) & Nil
    <3>1. Fresh'
      BY <1>00, <2>1 DEF Fresh
    <3> QED BY <1>00, <2>1, <3>1 DEF WordServed
  <2>2. CASE taken = One(v) /\ Talk(One(v), Handle(v) ++ Z, s)
    <3> PICK tk : tk = One(v)
      OBVIOUS
    <3> PICK x : x = Handle(v) ++ Z
      OBVIOUS
    <3> PICK y : y = Handle(v)
      OBVIOUS
    <3>1. Talk(tk, x, s)'
      BY <1>00, <2>2, TalkStays
    <3>2. Handle(v)' = y
      BY <1>00, HandleStays
    <3>3. taken' = tk /\ x = y ++ Z
      BY <1>00, <2>2
    <3> QED BY <3>1, <3>2, <3>3 DEF WordServed
  <2> QED BY <1>4, <2>1, <2>2 DEF WordServed
<1>8. Agreed'
  BY <1>00, <1>3 DEF Agreed
<1>9. Talking(c, s)'
  <2>1. scheme' = NoType /\ ~Listed(version)'
    BY <1>00, <1>3 DEF Listed
  <2>2. WordTalk(c, s)'
    BY <1>5, <1>7, <2>1 DEF WordTalk
  <2> HIDE DEF Agreed
  <2> QED BY <1>8, <2>2 DEF Talking
<1>10. c = p ++ todo'
  <2>1. ASequence(c)
    BY ZFacts, ConsSequence
  <2>2. Nil ++ c = c
    BY <2>1, JoinNil
  <2> QED BY <1>3, <1>6, <2>2
<1> QED BY <1>0, <1>2, <1>9, <1>10, ReadThere
(* The client reads the length of a list. *)
Counting(n, e, a, q) == (Repeat(n, e) \o <<a>>) \o q

LEMMA CountScript ==
  ASSUME NEW n \in Nat, NEW e, NEW a, NEW q, ASequence(q)
  PROVE  Counting(n, e, a, q) = Repeat(n, e) ++ (a & q)
<1>1. ASequence(Repeat(n, e))
  <2>1. Repeat(n, e) \in Seq({e})
    BY IsASeq DEF Repeat
  <2> QED BY <2>1 DEF ASequence
<1>2. ASequence(<<a>>)
  BY OneSequence
<1>3. (Repeat(n, e) \o <<a>>) \o q = Repeat(n, e) \o (<<a>> \o q)
  BY <1>1, <1>2, ConcatAssoc
<1> QED BY <1>3 DEF ++, &, Counting

(* Which list of security types it is. *)
LEMMA ListChoosing ==
  ASSUME Agreed, taken = Both, Calm, Both = OnlyTLS \/ (Both = Nil /\ Fresh /\ Listed(version))
  PROVE  Choosing /\ Quiet /\ taken = Before
<1>0. NoType # "TLS"
  BY DEF NoType
<1>1. CASE Both = OnlyTLS
  <2>1. scheme # NoType
    BY <1>1, Ones DEF Both, OnlyTLS
  <2>2. sub = NoType
    BY <1>1, <2>1, Ones DEF Both, OnlyTLS
  <2>3. scheme = "TLS"
    BY <1>1, <2>1, <2>2, Ones DEF Both, OnlyTLS
  <2>4. SubAuth /\ Before = OnlyTLS
    BY <2>1, <2>3 DEF SubAuth, Before, OnlyTLS
  <2> QED BY <1>1, <2>1, <2>2, <2>4 DEF Choosing, Quiet
<1>2. CASE Both = Nil /\ Fresh /\ Listed(version)
  <2>1. scheme = NoType
    BY <1>2, Ones DEF Both
  <2>2. sub = NoType /\ Before = Nil
    BY <2>1 DEF Agreed, Before
  <2> QED BY <1>2, <2>1, <2>2 DEF Choosing, Quiet
<1> QED BY <1>1, <1>2

LEMMA CountKeeps ==
  ASSUME Conv, ShapeInv, ChoiceInv, ReadCount
  PROVE  Conv'
<1>0. /\ outcome' = "going" /\ At("read", "count") /\ inbox # Nil /\ inbox' = Tail(inbox)
      /\ UNCHANGED <<toClient, toServer, closed, steps>> /\ picked' = NoType
      /\ Front = 0 => todo' = ReadReason
      /\ Front # 0 => todo' = Counting(Front, R("type"), L("switch"), Tail(todo))
  BY DEF Counting, ReadCount, Take, At, server, Continue, Nil
<1>00. /\ UNCHANGED <<version, scheme, sub, reply, taken>> /\ verdict' = verdict
       /\ Firm
  BY DEF ReadCount, Take, server, saslState, Firm
<1> PICK w : w = "count"
  OBVIOUS
<1> PICK t : t = Tail(todo)
  OBVIOUS
<1> PICK b : b = Next1
  OBVIOUS
<1> PICK tk : tk = Both
  OBVIOUS
<1>1. w \notin Elsewhere \cup Data \cup Lengths \cup {"veVersion", "veStatus", "veCount", "result", "saslData", "saslComplete", "saslResult"}
  BY DEF Data, Lengths, Elsewhere
<1>2. ASequence(t) /\ Agreed /\ taken = Both /\ b.op = "send" /\ b.val = Front
  <2> HIDE DEF Agreed
  <2> QED BY <1>0, <1>1, ReadCases
<1>3. PICK d : Ghost(Nil, d) /\ ASequence(Later(d)) /\ TalkRead(Both, w, t, b, Later(d))
  BY <1>0, <1>1, ReadCases
<1> PICK s : s = Later(d)
  OBVIOUS
<1>4. /\ Calm /\ t = Z /\ Offer(b & s)
      /\ Both = OnlyTLS \/ (Both = Nil /\ Fresh /\ Listed(version))
  BY <1>1, <1>3 DEF TalkRead
<1>5. /\ b.val \in Nat
      /\ b.val = 0 => Talk(tk, ReadReason, s)
      /\ b.val # 0 => Types(G("choice") & Nil, Repeat(b.val, R("type")) ++ (L("switch") & Z), s)
  BY <1>2, <1>3, <1>4, AfterCount
<1>6. CASE Front = 0
  <2> PICK c : c = ReadReason
    OBVIOUS
  <2>1. Talk(tk, c, s)
    BY <1>2, <1>5, <1>6
  <2>2. Talk(tk, c, s)'
    BY <1>00, <2>1, TalkStays
  <2>3. todo' = c /\ ASequence(c)
    BY <1>0, <1>6, ReasonAlone
  <2> HIDE DEF Agreed
  <2> QED BY <1>0, <1>00, <1>2, <1>3, <2>2, <2>3, ReadGoes
<1>7. CASE Front # 0
  <2> PICK n : n = Front
    OBVIOUS
  <2> PICK c : c = Repeat(n, R("type")) ++ (L("switch") & Z)
    OBVIOUS
  <2>1. n \in Nat /\ Types(G("choice") & Nil, c, s)
    BY <1>2, <1>5, <1>7
  <2>2. todo' = c
    <3>1. todo' = Counting(n, R("type"), L("switch"), Z)
      BY <1>0, <1>4, <1>7
    <3>2. Counting(n, R("type"), L("switch"), Z) = c
      BY <2>1, ZFacts, CountScript
    <3> QED BY <3>1, <3>2
  <2>3. Choosing /\ Quiet /\ taken = Before
    <3> HIDE DEF Agreed
    <3> QED BY <1>2, <1>4, ListChoosing
  <2>4. Choosing' /\ Quiet' /\ taken' = Before' /\ Agreed'
    <3>1. (Calm' <=> Calm) /\ (Fresh' <=> Fresh)
      BY <1>00, FirmFacts
    <3>2. SubAuth' <=> SubAuth
      BY <1>00 DEF SubAuth
    <3>3. Choosing' /\ Quiet'
      BY <1>00, <2>3, <3>1, <3>2 DEF Choosing, Quiet, Listed
    <3>4. taken' = Before'
      BY <1>00, <2>3 DEF Before
    <3>5. Agreed'
      BY <1>00, <1>2 DEF Agreed
    <3> QED BY <3>3, <3>4, <3>5
  <2>5. Unpicked(c, s)'
    BY <1>0, <2>1, <2>4 DEF Unpicked
  <2>6. Talking(c, s)'
    <3>1. Listing(c, s)'
      BY <2>4, <2>5 DEF Listing
    <3> HIDE DEF Agreed
    <3> QED BY <2>4, <3>1 DEF Talking
  <2>7. ASequence(c)
    BY <2>1, TypesFacts
  <2>8. Nil ++ c = c
    BY <2>7, JoinNil
  <2> PICK p : p = Nil
    OBVIOUS
  <2>9. Ghost(p, d) /\ c = p ++ todo'
    BY <1>3, <2>2, <2>8
  <2> QED BY <1>0, <2>6, <2>9, ReadThere
<1> QED BY <1>6, <1>7

LEMMA VeCountKeeps ==
  ASSUME Conv, ShapeInv, ChoiceInv, ReadVeNCryptCount
  PROVE  Conv'
<1>1. CASE Front = 0
  <2>1. outcome' \notin {"going", "ready"}
    BY <1>1 DEF ReadVeNCryptCount, Fail
  <2> QED BY <2>1, ConvOver
<1>2. CASE Front # 0
  <2>0. /\ outcome' = "going" /\ At("read", "veCount") /\ inbox # Nil /\ inbox' = Tail(inbox)
        /\ UNCHANGED <<toClient, toServer, closed, steps>> /\ picked' = NoType
        /\ todo' = Counting(Front, R("veType"), L("veSwitch"), Tail(todo))
    BY <1>2 DEF Counting, ReadVeNCryptCount, Take, At, server, Continue, Nil
  <2>00. UNCHANGED <<version, scheme, sub, reply, taken, tls, saslconn, serverLayer>>
    BY DEF ReadVeNCryptCount, Take, server
  <2> PICK w : w = "veCount"
    OBVIOUS
  <2> PICK t : t = Tail(todo)
    OBVIOUS
  <2> PICK b : b = Next1
    OBVIOUS
  <2>1. w \notin Elsewhere \cup Data \cup Lengths \cup {"result", "count", "saslData", "saslComplete", "saslResult"}
    BY DEF Data, Lengths, Elsewhere
  <2>2. ASequence(t) /\ Agreed /\ taken = Both /\ b.op = "send" /\ b.val = Front
    <3> HIDE DEF Agreed
    <3> QED BY <2>0, <2>1, ReadCases
  <2>3. PICK d : Ghost(Nil, d) /\ ASequence(Later(d)) /\ TalkRead(Both, w, t, b, Later(d))
    BY <2>0, <2>1, ReadCases
  <2> PICK s : s = Later(d)
    OBVIOUS
  <2>4. Both = OnlyVe /\ Fresh /\ Calm /\ VeCase(R("veCount") & t, b & s)
    BY <2>1, <2>3 DEF TalkRead
  <2>5. t = Z /\ VeOffer(b & s)
    <3> PICK K : K = R("veCount") & t
      OBVIOUS
    <3> PICK B : B = b & s
      OBVIOUS
    <3>1. K[1].what = "veCount"
      BY <2>2, ConsParts, Kinds
    <3>2. VeCase(K, B)
      BY <2>4
    <3>3. K = R("veCount") & Z /\ VeOffer(B)
      BY <3>1, <3>2, Kinds DEF VeCase
    <3>4. t = Z
      <4> PICK a : a = R("veCount")
        OBVIOUS
      <4>1. a & t = a & Z /\ ASequence(t) /\ ASequence(Z)
        BY <2>2, <3>3, ZFacts
      <4> QED BY ONLY <4>1, ConsEqual
    <3> QED BY <3>3, <3>4
  <2> PICK n : n = Front
    OBVIOUS
  <2> PICK c : c = Repeat(n, R("veType")) ++ (L("veSwitch") & Z)
    OBVIOUS
  <2>6. n \in Nat /\ Reading(R("veType"), L("veSwitch") & Z, G("veChoice") & Nil, c, s)
    <3>1. b.val # 0 /\ b.val = n
      BY <1>2, <2>2
    <3> QED BY <2>3, <2>5, <3>1, AfterVeCount
  <2>7. todo' = c
    <3>1. todo' = Counting(n, R("veType"), L("veSwitch"), Z)
      BY <2>0, <2>5
    <3>2. Counting(n, R("veType"), L("veSwitch"), Z) = c
      BY <2>6, ZFacts, CountScript
    <3> QED BY <3>1, <3>2
  <2>8. scheme = "VeNCrypt" /\ sub = NoType
    <3>1. scheme # NoType
      BY <2>4, Ones DEF Both, OnlyVe
    <3>2. sub = NoType
      BY <2>4, <3>1, Ones DEF Both, OnlyVe
    <3> QED BY <2>4, <3>1, <3>2, Ones DEF Both, OnlyVe
  <2>9. VeChoosing' /\ taken' = OnlyVe /\ Agreed'
    <3>1. VeChoosing'
      BY <2>00, <2>4, <2>8 DEF VeChoosing, Fresh
    <3>2. taken' = OnlyVe
      BY <2>00, <2>2, <2>4
    <3>3. Agreed'
      BY <2>00, <2>2 DEF Agreed
    <3> QED BY <3>1, <3>2, <3>3
  <2>10. VeUnpicked(c, s)'
    BY <2>0, <2>6, <2>9 DEF VeUnpicked, VeTypes
  <2>11. Talking(c, s)'
    <3>1. VeListing(c, s)'
      BY <2>9, <2>10 DEF VeListing
    <3> HIDE DEF Agreed
    <3> QED BY <2>9, <3>1 DEF Talking
  <2>12. ASequence(c)
    BY <2>6, ReadingFacts
  <2>13. Nil ++ c = c
    BY <2>12, JoinNil
  <2> PICK p : p = Nil
    OBVIOUS
  <2>14. Ghost(p, d) /\ c = p ++ todo'
    BY <2>3, <2>7, <2>13
  <2> QED BY <2>0, <2>11, <2>14, ReadThere
<1> QED BY <1>1, <1>2

LEMMA OneMore ==
  ASSUME NEW v, NEW t, ASequence(t)
  PROVE  (v & Nil) ++ t = v & t
<1>1. (v & Nil) ++ t = v & (Nil ++ t)
  BY NilSequence, JoinCons
<1>2. Nil ++ t = t
  BY JoinNil
<1> QED BY <1>1, <1>2

(* The client reads a security type, and picks it if it can. *)
LEMMA TypeKeepsThere ==
  ASSUME NEW p, AllOp(p, "write"), NEW t, ASequence(t), NEW b, b.op = "send", NEW s, ASequence(s),
         Talking(p ++ (R("type") & t), b & s)
  PROVE  /\ Agreed /\ Choosing /\ Listing(p ++ t, s)
         /\ picked = NoType => p = Nil /\ Unpicked(t, s)
<1> PICK w : w = "type"
  OBVIOUS
<1>1. Talking(p ++ (R(w) & t), b & s)
  OBVIOUS
<1>2. w # "version" /\ w # "word" /\ w # "veType" /\ w # "veAccepted"
  OBVIOUS
<1>h. AllOp(p, "write") /\ ASequence(t) /\ b.op = "send" /\ ASequence(s)
  OBVIOUS
<1>3. Agreed /\ Listing(p ++ (R(w) & t), b & s)
  <2> HIDE DEF Agreed
  <2> QED BY <1>1, <1>2, TalkingReads
<1>4. Choosing /\ Listing(p ++ t, s) /\ (picked = NoType => p = Nil /\ Unpicked(t, s))
  <2>1. Listing(p ++ (R(w) & t), b & s)
    BY <1>3
  <2> HIDE DEF Choosing
  <2> QED BY ONLY <1>2, <2>1, ListingReads, <1>h
<1> QED BY <1>3, <1>4

LEMMA TypeKeeps ==
  ASSUME Conv, ShapeInv, ChoiceInv, ReadType
  PROVE  Conv'
<1>0. /\ At("read", "type") /\ inbox # Nil /\ inbox' = Tail(inbox)
      /\ UNCHANGED <<version, scheme, sub, tls, saslconn, saslState, toClient, closed, server>>
  BY DEF ReadType, Nil
<1>00. UNCHANGED <<version, scheme, sub, tls, saslconn, reply, taken, serverLayer, steps, toClient, closed>>
  BY <1>0 DEF server
<1> PICK t : t = Tail(todo)
  OBVIOUS
<1> PICK b : b = Next1
  OBVIOUS
<1>1. ASequence(t) /\ b.op = "send" /\ b.val = Front
  BY <1>0, ReadTalks
<1>2. PICK p, d : /\ Ghost(p, d) /\ AllOp(p, "write") /\ ASequence(Later(d))
                  /\ Talking(p ++ (R("type") & t), b & Later(d))
  BY <1>0, ReadTalks
<1> PICK s : s = Later(d)
  OBVIOUS
<1>3. /\ Agreed /\ Choosing /\ Listing(p ++ t, s)
      /\ picked = NoType => p = Nil /\ Unpicked(t, s)
  <2>1. AllOp(p, "write") /\ ASequence(s) /\ Talking(p ++ (R("type") & t), b & s)
    BY <1>2
  <2> HIDE DEF Agreed, Choosing
  <2> QED BY ONLY <1>1, <2>1, TypeKeepsThere
<1>4. CASE outcome' = "lost"
  <2>1. outcome' \notin {"going", "ready"}
    BY <1>4
  <2> QED BY <2>1, ConvOver
<1>5. CASE outcome' # "lost" /\ ~(picked = NoType /\ Selectable(Front, SubAuth))
  <2>1. picked' = picked /\ toServer' = toServer /\ todo' = <<>> \o Tail(todo) /\ outcome' = "going"
    BY <1>5, <1>0 DEF ReadType, Continue, At
  <2>2. Idle /\ todo' = t
    BY <1>0, <1>1, <2>1, Empties DEF Idle, server, choice
  <2>3. Talking(p ++ t, s)
    <3> HIDE DEF Agreed
    <3> QED BY <1>3 DEF Talking
  <2> PICK y : y = p ++ t
    OBVIOUS
  <2>4. Talking(y, s)'
    BY <2>2, <2>3, TalkingStays
  <2>5. y = p ++ todo' /\ Ghost(p, d)
    BY <1>2, <2>2
  <2> QED BY <1>0, <1>00, <2>1, <2>4, <2>5, ReadThere
<1>6. CASE outcome' # "lost" /\ picked = NoType /\ Selectable(Front, SubAuth)
  <2>1. picked' = Front /\ Put("choice", Front) /\ todo' = <<>> \o Tail(todo) /\ outcome' = "going"
    BY <1>6, <1>0 DEF ReadType, Continue, At, Fail
  <2>2. todo' = t
    BY <1>1, <2>1, Empties
  <2>3. p = Nil /\ Unpicked(t, s)
    BY <1>3, <1>6
  <2> PICK v : v = W("choice", Front)
    OBVIOUS
  <2> PICK p1 : p1 = p ++ (v & Nil)
    OBVIOUS
  <2> PICK c : c = v & t
    OBVIOUS
  <2>4. Ghost(p1, d)'
    <3>1. ASequence(toServer)
      BY Sequences
    <3> QED BY <1>00, <1>2, <2>1, <3>1, GhostPuts
  <2>5. p1 ++ t = c
    <3>1. ASequence(v & Nil) /\ Nil ++ (v & Nil) = v & Nil
      BY NilSequence, ConsSequence, JoinNil
    <3>2. (v & Nil) ++ t = v & t
      <4>1. ASequence(t)
        BY <1>1
      <4> QED BY ONLY <4>1, OneMore
    <3> QED BY <2>3, <3>1, <3>2
  <2>6. Side(p1)' = c
    <3>1. Remaining' = t
      BY <2>1, <2>2 DEF Remaining
    <3>2. Side(p1)' = p1 ++ Remaining'
      BY DEF Side
    <3> QED BY <2>5, <3>1, <3>2
  <2>7. Other(d)' = s
    BY <1>0, <1>00 DEF Other, Later, Sent
  <2>8. Selectable(picked, SubAuth)'
    BY <1>6, <2>1, <1>00 DEF SubAuth, Selectable
  <2>9. Choosing' /\ Quiet' /\ Agreed' /\ taken' = Before'
    <3>1. Choosing'
      BY <1>00, <1>3 DEF Choosing, SubAuth, Listed, Fresh
    <3>2. Quiet'
      BY <1>00, <2>3 DEF Unpicked, Quiet, Calm, Fresh, SubAuth, layer
    <3>3. taken' = Before'
      BY <1>00, <2>3 DEF Unpicked, Before
    <3>4. Agreed'
      BY <1>00, <1>3 DEF Agreed
    <3> QED BY <3>1, <3>2, <3>3, <3>4
  <2>10. Types(G("choice") & Nil, t, s)
    BY <2>3 DEF Unpicked
  <2>11. Picked(c, s)'
    <3>1. c = W("choice", picked') & t
      BY <2>1
    <3> HIDE DEF Choosing, Agreed, Quiet, SubAuth, Selectable
    <3> QED BY <2>8, <2>9, <2>10, <3>1 DEF Picked
  <2>12. Talking(c, s)'
    <3>1. Listing(c, s)'
      BY <2>9, <2>11 DEF Listing
    <3> HIDE DEF Agreed
    <3> QED BY <2>9, <3>1 DEF Talking
  <2> QED BY <2>4, <2>6, <2>7, <2>12, ConvThere
<1> QED BY <1>4, <1>5, <1>6

(* ... or one of VeNCrypt.                                                  *)
LEMMA VeTypeKeepsThere ==
  ASSUME NEW p, AllOp(p, "write"), NEW t, ASequence(t), NEW b, b.op = "send", NEW s, ASequence(s),
         Talking(p ++ (R("veType") & t), b & s)
  PROVE  /\ Agreed /\ VeChoosing /\ VeListing(p ++ t, s)
         /\ picked = NoType => p = Nil /\ VeUnpicked(t, s)
<1> PICK w : w = "veType"
  OBVIOUS
<1>1. Talking(p ++ (R(w) & t), b & s)
  OBVIOUS
<1>2. w # "version" /\ w # "word" /\ w # "type" /\ w # "veAccepted"
  OBVIOUS
<1>h. AllOp(p, "write") /\ ASequence(t) /\ b.op = "send" /\ ASequence(s)
  OBVIOUS
<1>3. Agreed /\ VeListing(p ++ (R(w) & t), b & s)
  <2> HIDE DEF Agreed
  <2> QED BY <1>1, <1>2, TalkingReads
<1>4. VeChoosing /\ VeListing(p ++ t, s) /\ (picked = NoType => p = Nil /\ VeUnpicked(t, s))
  <2>1. VeListing(p ++ (R(w) & t), b & s)
    BY <1>3
  <2> HIDE DEF VeChoosing
  <2> QED BY ONLY <1>2, <2>1, VeListingReads, <1>h
<1> QED BY <1>3, <1>4

LEMMA VeTypeKeeps ==
  ASSUME Conv, ShapeInv, ChoiceInv, ReadVeNCryptType
  PROVE  Conv'
<1>0. /\ At("read", "veType") /\ inbox # Nil /\ inbox' = Tail(inbox)
      /\ UNCHANGED <<version, scheme, sub, tls, saslconn, saslState, toClient, closed, server>>
  BY DEF ReadVeNCryptType, Nil
<1>00. UNCHANGED <<version, scheme, sub, tls, saslconn, reply, taken, serverLayer, steps, toClient, closed>>
  BY <1>0 DEF server
<1> PICK t : t = Tail(todo)
  OBVIOUS
<1> PICK b : b = Next1
  OBVIOUS
<1>1. ASequence(t) /\ b.op = "send" /\ b.val = Front
  BY <1>0, ReadTalks
<1>2. PICK p, d : /\ Ghost(p, d) /\ AllOp(p, "write") /\ ASequence(Later(d))
                  /\ Talking(p ++ (R("veType") & t), b & Later(d))
  BY <1>0, ReadTalks
<1> PICK s : s = Later(d)
  OBVIOUS
<1>3. /\ Agreed /\ VeChoosing /\ VeListing(p ++ t, s)
      /\ picked = NoType => p = Nil /\ VeUnpicked(t, s)
  <2>1. AllOp(p, "write") /\ ASequence(s) /\ Talking(p ++ (R("veType") & t), b & s)
    BY <1>2
  <2> HIDE DEF Agreed, VeChoosing
  <2> QED BY ONLY <1>1, <2>1, VeTypeKeepsThere
<1>4. CASE outcome' = "lost"
  <2>1. outcome' \notin {"going", "ready"}
    BY <1>4
  <2> QED BY <2>1, ConvOver
<1>5. CASE outcome' # "lost" /\ ~(picked = NoType /\ Front \in VeNCryptTypes)
  <2>1. picked' = picked /\ toServer' = toServer /\ todo' = <<>> \o Tail(todo) /\ outcome' = "going"
    BY <1>5, <1>0 DEF ReadVeNCryptType, Continue, At
  <2>2. Idle /\ todo' = t
    BY <1>0, <1>1, <2>1, Empties DEF Idle, server, choice
  <2>3. Talking(p ++ t, s)
    <3> HIDE DEF Agreed
    <3> QED BY <1>3 DEF Talking
  <2> PICK y : y = p ++ t
    OBVIOUS
  <2>4. Talking(y, s)'
    BY <2>2, <2>3, TalkingStays
  <2>5. y = p ++ todo' /\ Ghost(p, d)
    BY <1>2, <2>2
  <2> QED BY <1>0, <1>00, <2>1, <2>4, <2>5, ReadThere
<1>6. CASE outcome' # "lost" /\ picked = NoType /\ Front \in VeNCryptTypes
  <2>1. picked' = Front /\ Put("veChoice", Front) /\ todo' = <<>> \o Tail(todo) /\ outcome' = "going"
    BY <1>6, <1>0 DEF ReadVeNCryptType, Continue, At, Fail
  <2>2. todo' = t
    BY <1>1, <2>1, Empties
  <2>3. p = Nil /\ VeUnpicked(t, s)
    BY <1>3, <1>6
  <2> PICK v : v = W("veChoice", Front)
    OBVIOUS
  <2> PICK p1 : p1 = p ++ (v & Nil)
    OBVIOUS
  <2> PICK c : c = v & t
    OBVIOUS
  <2>4. Ghost(p1, d)'
    <3>1. ASequence(toServer)
      BY Sequences
    <3> QED BY <1>00, <1>2, <2>1, <3>1, GhostPuts
  <2>5. p1 ++ t = c
    <3>1. ASequence(v & Nil) /\ Nil ++ (v & Nil) = v & Nil
      BY NilSequence, ConsSequence, JoinNil
    <3>2. (v & Nil) ++ t = v & t
      <4>1. ASequence(t)
        BY <1>1
      <4> QED BY ONLY <4>1, OneMore
    <3> QED BY <2>3, <3>1, <3>2
  <2>6. Side(p1)' = c
    <3>1. Remaining' = t
      BY <2>1, <2>2 DEF Remaining
    <3>2. Side(p1)' = p1 ++ Remaining'
      BY DEF Side
    <3> QED BY <2>5, <3>1, <3>2
  <2>7. Other(d)' = s
    BY <1>0, <1>00 DEF Other, Later, Sent
  <2>8. picked' \in VeNCryptTypes
    BY <1>6, <2>1, <1>00 DEF SubAuth, Selectable
  <2>9. VeChoosing' /\ Agreed' /\ taken' = OnlyVe
    <3>1. VeChoosing'
      BY <1>00, <1>3 DEF VeChoosing, SubAuth, Listed, Fresh
    <3>3. taken' = OnlyVe
      BY <1>00, <2>3 DEF VeUnpicked, Before
    <3>4. Agreed'
      BY <1>00, <1>3 DEF Agreed
    <3> QED BY <3>1, <3>3, <3>4
  <2>10. VeTypes(G("veChoice") & Nil, t, s)'
    <3>1. VeTypes(G("veChoice") & Nil, t, s)
      BY <2>3 DEF VeUnpicked
    <3>2. Reading(R("veType"), L("veSwitch") & Z, G("veChoice") & Nil, t, s)
      BY <1>6, <3>1, NoTypeNot DEF VeTypes
    <3> QED BY <3>2 DEF VeTypes
  <2>11. VePicked(c, s)'
    <3>1. c = W("veChoice", picked') & t
      BY <2>1
    <3> HIDE DEF VeChoosing, Agreed
    <3> QED BY <2>8, <2>9, <2>10, <3>1 DEF VePicked
  <2>12. Talking(c, s)'
    <3>1. VeListing(c, s)'
      BY <2>9, <2>11 DEF VeListing
    <3> HIDE DEF Agreed
    <3> QED BY <2>9, <3>1 DEF Talking
  <2> QED BY <2>4, <2>6, <2>7, <2>12, ConvThere
<1> QED BY <1>4, <1>5, <1>6

(* The server takes the VeNCrypt type: TLS comes next, and what the type    *)
(* opens with.                                                              *)
LEMMA AcceptedOpens ==
  ASSUME NEW t \in VeNCryptTypes, Fresh, NEW tk, tk = Two("VeNCrypt", t),
         NEW s, s = Hello(Finish(VeServer(t)))
  PROVE  Talk(tk, (Certified(t) \o <<L("tls")>> \o VeNCryptHandler(t)) ++ Z, s)
<1> PICK h : h = VeNCryptHandler(t)
  OBVIOUS
<1> PICK z : z = Z
  OBVIOUS
<1> PICK c : c = h ++ z
  OBVIOUS
<1> PICK v : v = VeServer(t)
  OBVIOUS
<1> PICK K : K = L("tls") & c
  OBVIOUS
<1> PICK y : y = (Certified(t) \o <<L("tls")>> \o h) ++ z
  OBVIOUS
<1>1. ASequence(h) /\ ASequence(z) /\ ASequence(c)
  BY VeSequence, ZFacts, JoinSequence
<1>2. Opening(c, v)
  BY VeOpens
<1>3. ViaVe(tk) /\ tk # Nil
  BY Ones DEF ViaVe
<1>4. Waiting(tk, c, v)
  BY <1>2, <1>3 DEF Waiting
<1>5. ASequence(K) /\ ASequence(s)
  <2>1. ASequence(K)
    BY <1>1, ConsSequence
  <2>2. ASequence(s)
    BY <1>4, WaitingFacts
  <2> QED BY <2>1, <2>2
<1>6. Hail(tk, K, s)
  BY <1>4 DEF Hail
<1>7. EarlyGoal(tk, K, s)
  BY <1>3, <1>6 DEF EarlyGoal
<1>8. Near(Ordinary, K, s, K, s)
  BY <1>5, NearEnd
<1>9. Near(Ordinary, K, s, L("certificate") & K, s)
  <2>1. "certificate" \in Locals
    BY DEF Locals
  <2> QED BY ONLY <1>8, <2>1, NearLoc
<1>10. y = K \/ y = L("certificate") & K
  BY <1>1, AcceptedScript
<1>11. Near(Ordinary, K, s, y, s)
  BY <1>8, <1>9, <1>10
<1>12. Calm
  BY DEF Calm, Fresh, layer
<1>13. Early(tk, y, s)
  BY <1>7, <1>11, <1>12 DEF Early
<1> QED BY <1>13 DEF Talk

LEMMA AcceptedTalks ==
  ASSUME NEW p, AllOp(p, "write"), NEW t, ASequence(t), NEW b, b.op = "send", NEW s, ASequence(s),
         Talking(p ++ (R("veAccepted") & t), b & s)
  PROVE  /\ Agreed /\ VeChoosing /\ p = Nil /\ t = Z /\ Accepts(picked, b & s)
         /\ picked \in VeNCryptTypes /\ taken = Two("VeNCrypt", picked)
<1> PICK w : w = "veAccepted"
  OBVIOUS
<1>1. Talking(p ++ (R(w) & t), b & s)
  OBVIOUS
<1>2. w # "version" /\ w # "word" /\ w # "type" /\ w # "veType" /\ w = "veAccepted"
  OBVIOUS
<1>h. AllOp(p, "write") /\ ASequence(t) /\ b.op = "send" /\ ASequence(s)
  OBVIOUS
<1>3. Agreed /\ VeListing(p ++ (R(w) & t), b & s)
  <2> HIDE DEF Agreed
  <2> QED BY <1>1, <1>2, TalkingReads
<1>4. VeChoosing /\ p = Nil /\ t = Z /\ Accepts(picked, b & s) /\ picked \in VeNCryptTypes /\ taken = Two("VeNCrypt", picked)
  <2>1. VeListing(p ++ (R(w) & t), b & s)
    BY <1>3
  <2> HIDE DEF VeChoosing
  <2> QED BY ONLY <1>2, <2>1, VeListingReads, <1>h
<1> QED BY <1>3, <1>4

LEMMA AcceptedKeeps ==
  ASSUME Conv, ShapeInv, ChoiceInv, ReadVeNCryptAccepted
  PROVE  Conv'
<1>1. CASE Front # 1
  <2>1. outcome' \notin {"going", "ready"}
    BY <1>1 DEF ReadVeNCryptAccepted, Fail
  <2> QED BY <2>1, ConvOver
<1>2. CASE Front = 1
  <2> PICK h : h = VeNCryptHandler(picked)
    OBVIOUS
  <2>0. /\ outcome' = "going" /\ At("read", "veAccepted") /\ inbox # Nil /\ inbox' = Tail(inbox)
        /\ UNCHANGED <<toClient, toServer, closed, steps>>
        /\ sub' = picked
        /\ todo' = (Certified(picked) \o <<L("tls")>> \o h) \o Tail(todo)
    BY <1>2 DEF ReadVeNCryptAccepted, Take, At, server, Continue, Nil, Certified
  <2>00. /\ UNCHANGED <<version, scheme, picked, taken, reply, tls, saslconn, serverLayer>>
         /\ Firm /\ UNCHANGED verdict
    BY DEF ReadVeNCryptAccepted, Take, server, saslState, Firm
  <2> PICK t : t = Tail(todo)
    OBVIOUS
  <2> PICK b : b = Next1
    OBVIOUS
  <2>1. ASequence(t) /\ b.op = "send" /\ b.val = Front
    BY <2>0, ReadTalks
  <2>2. PICK p, d : /\ Ghost(p, d) /\ AllOp(p, "write") /\ ASequence(Later(d))
                    /\ Talking(p ++ (R("veAccepted") & t), b & Later(d))
    BY <2>0, ReadTalks
  <2> PICK s : s = Later(d)
    OBVIOUS
  <2>3. /\ Agreed /\ VeChoosing /\ p = Nil /\ t = Z /\ Accepts(picked, b & s)
        /\ picked \in VeNCryptTypes /\ taken = Two("VeNCrypt", picked)
    <3>1. AllOp(p, "write") /\ ASequence(s) /\ Talking(p ++ (R("veAccepted") & t), b & s)
      BY <2>2
    <3> HIDE DEF Agreed, VeChoosing
    <3> QED BY ONLY <2>1, <3>1, AcceptedTalks
  <2>4. s = Hello(Finish(VeServer(picked)))
    <3> PICK y : y = Hello(Finish(VeServer(picked)))
      OBVIOUS
    <3>1. ASequence(s)
      BY <2>2
    <3>2. ASequence(y)
      <4>1. Opening(VeNCryptHandler(picked) ++ Z, VeServer(picked))
        BY <2>3, VeOpens
      <4>2. ASequence(VeServer(picked))
        BY <4>1, OpeningFacts
      <4> QED BY <4>2, ConsSequence DEF Hello, Finish
    <3>3. ASequence(D("close") & Nil)
      BY NilSequence, ConsSequence
    <3>4. b & s = S("veAccepted", 1) & y \/ b & s = S("veAccepted", 0) & (D("close") & Nil)
      BY <2>3 DEF Accepts
    <3>5. b.val = 1
      BY <1>2, <2>1
    <3>6. S("veAccepted", 0).val = 0
      BY Kinds
    <3>7. ~(b & s = S("veAccepted", 0) & (D("close") & Nil))
      <4>1. SUFFICES ASSUME b & s = S("veAccepted", 0) & (D("close") & Nil) PROVE FALSE
        OBVIOUS
      <4>2. b = S("veAccepted", 0)
        BY <3>1, <3>3, <4>1, ConsEqual
      <4> QED BY <3>5, <3>6, <4>2
    <3> QED BY <3>1, <3>2, <3>4, <3>7, ConsEqual
  <2> PICK tk : tk = Two("VeNCrypt", picked)
    OBVIOUS
  <2> PICK c : c = (Certified(picked) \o <<L("tls")>> \o h) ++ Z
    OBVIOUS
  <2>5. todo' = c
    BY <2>0, <2>3 DEF ++
  <2>6. Talk(tk, c, s)
    <3>1. Fresh
      BY <2>3 DEF VeChoosing
    <3> QED BY <2>3, <2>4, <3>1, AcceptedOpens
  <2>7. Talk(tk, c, s)'
    BY <2>00, <2>6, TalkStays
  <2>8. Both' = tk /\ taken' = tk
    <3>1. picked # NoType /\ scheme' = "VeNCrypt" /\ sub' = picked /\ taken' = taken /\ "VeNCrypt" # NoType
      BY <2>0, <2>00, <2>3, NoTypeNot DEF VeChoosing, NoType
    <3>2. Both' = Two(scheme', sub')
      BY <3>1 DEF Both
    <3> QED BY <2>3, <3>1, <3>2
  <2>9. Straight(c, s)'
    BY <2>7, <2>8 DEF Straight
  <2>10. Agreed'
    <3>1. scheme' # NoType
      BY <2>00, <2>3 DEF VeChoosing, NoType
    <3> QED BY <2>00, <2>3, <3>1 DEF Agreed
  <2>11. Talking(c, s)'
    <3> HIDE DEF Agreed
    <3> QED BY <2>9, <2>10 DEF Talking
  <2>12. c = p ++ todo'
    <3>1. ASequence(c)
      BY <2>6, TalkFacts
    <3>2. Nil ++ c = c
      BY <3>1, JoinNil
    <3> QED BY <2>3, <2>5, <3>2
  <2> QED BY <2>0, <2>2, <2>11, <2>12, ReadThere
<1> QED BY <1>1, <1>2

(* The client finishes the handshake of TLS. *)
LEMMA ConvTls ==
  ASSUME Conv, ShapeInv, ChoiceInv, Doing("tls"), inbox = Nil, toClient # Nil,
         NEW t, t = Tail(todo), NEW m, m = Tail(toClient),
         NEW b, b = S(toClient[1].what, toClient[1].val)
  PROVE  /\ ASequence(t) /\ todo = F & t /\ ASequence(m) /\ b.op = "send" /\ b.what = toClient[1].what
         /\ \E p, d : /\ Ghost(p, d) /\ AllOp(p, "write") /\ ASequence(d) /\ ASequence(Sent(m) ++ d)
                      /\ Talking(p ++ (F & t), b & (Sent(m) ++ d))
<1>0. outcome = "going" /\ todo # Nil /\ todo[1].op = "tls"
  BY DEF Doing, Nil
<1>1. PICK p, d : Ghost(p, d) /\ Talking(Side(p), Other(d))
  BY <1>0 DEF Conv
<1>2. ASequence(d) /\ AllOp(p, "write")
  BY <1>1 DEF Ghost
<1>3. todo = F & t /\ ASequence(t)
  BY <1>0, Sequences, ShapeRest
<1>4. Side(p) = p ++ (F & t)
  BY <1>0, <1>3 DEF Side, Remaining
<1>5. ASequence(m) /\ ASequence(inbox) /\ ASequence(toClient)
  BY Sequences, Decompose DEF Nil
<1> PICK o : o = Sent(m)
  OBVIOUS
<1>6. ASequence(o) /\ Sent(toClient) = b & o
  <2>1. ASequence(o)
    BY <1>5, SentFacts
  <2>2. Sent(toClient) = b & o
    BY <1>5, SentEnds
  <2> QED BY <2>1, <2>2
<1>7. Other(d) = b & (o ++ d) /\ ASequence(o ++ d)
  <2>1. Other(d) = Sent(toClient) ++ d
    BY <1>2, <1>5, OtherFacts
  <2>2. (b & o) ++ d = b & (o ++ d)
    BY <1>2, <1>6, JoinCons
  <2>3. ASequence(o ++ d)
    BY <1>2, <1>6, JoinSequence
  <2> QED BY <1>6, <2>1, <2>2, <2>3
<1>8. b.op = "send" /\ b.what = toClient[1].what
  BY Kinds
<1> QED BY <1>1, <1>2, <1>3, <1>4, <1>5, <1>7, <1>8

LEMMA HandshakeKeeps ==
  ASSUME Conv, ShapeInv, ChoiceInv, HandshakeTLS, inbox = Nil
  PROVE  Conv'
<1>0. /\ Doing("tls") /\ toClient # Nil /\ outcome' = "going"
      /\ tls' = TRUE /\ toClient' = Tail(toClient) /\ todo' = <<>> \o Tail(todo)
  BY DEF HandshakeTLS, Doing, Continue, Nil
<1>00. /\ UNCHANGED <<version, scheme, sub, reply, taken, inbox, toServer, closed, steps>>
       /\ UNCHANGED <<version, saslconn, mech, sasl, serverin, complete, reply, serverLayer, exchanges, verdict>>
  BY DEF HandshakeTLS, choice, saslState, server
<1> PICK t : t = Tail(todo)
  OBVIOUS
<1> PICK m : m = Tail(toClient)
  OBVIOUS
<1> PICK b : b = S(toClient[1].what, toClient[1].val)
  OBVIOUS
<1>1. ASequence(t) /\ ASequence(m) /\ b.op = "send"
  BY <1>0, ConvTls
<1>2. PICK p, d : /\ Ghost(p, d) /\ AllOp(p, "write") /\ ASequence(d) /\ ASequence(Sent(m) ++ d)
                  /\ Talking(p ++ (F & t), b & (Sent(m) ++ d))
  BY <1>0, ConvTls
<1> PICK s : s = Sent(m) ++ d
  OBVIOUS
<1> PICK tk : tk = Both
  OBVIOUS
<1>3. Agreed /\ taken = tk /\ p = Nil /\ Talk(tk, F & t, b & s)
  <2>1. AllOp(p, "write") /\ ASequence(s) /\ Talking(p ++ (F & t), b & s)
    BY <1>2
  <2> HIDE DEF Agreed
  <2> QED BY <1>1, <2>1, TalkingTls
<1>4. Talk(tk, t, s)'
  <2>1. AllOp(p, "write") /\ ASequence(s) /\ p ++ (F & t) = F & t
    <3>1. ASequence(F & t)
      BY <1>1, ConsSequence
    <3>2. Nil ++ (F & t) = F & t
      BY <3>1, JoinNil
    <3> QED BY <1>2, <1>3, <3>2
  <2>2. Talk(tk, p ++ (F & t), b & s)
    BY <1>3, <2>1
  <2> QED BY <1>0, <1>00, <1>1, <2>1, <2>2, TlsDone
<1>5. Talking(t, s)'
  BY <1>00, <1>3, <1>4, StraightThere
<1>6. Ghost(p, d)'
  BY <1>00, <1>2, GhostStays
<1>7. t = Side(p)'
  <2>1. todo' = t /\ Remaining' = t
    BY <1>0, <1>1, Empties DEF Remaining
  <2>2. Nil ++ t = t
    BY <1>1, JoinNil
  <2>3. Side(p)' = p ++ Remaining'
    BY DEF Side
  <2> QED BY <1>3, <2>1, <2>2, <2>3
<1>8. s = Other(d)'
  <2>1. ASequence(inbox') /\ ASequence(toClient') /\ inbox' = Nil
    BY <1>0, <1>00, <1>1, NilSequence
  <2>2. Sent(toClient)' = Sent(m)
    BY <1>0 DEF Sent
  <2>3. Sent(inbox)' = Nil
    <3>1. Sent(inbox)' = Sent(inbox)
      BY <1>00 DEF Sent
    <3>2. Sent(inbox) = Nil
      BY NilSequence, SentEnds
    <3> QED BY <3>1, <3>2
  <2>4. Nil ++ Sent(m) = Sent(m)
    BY <1>1, SentFacts, JoinNil
  <2>5. Other(d)' = (Sent(inbox)' ++ Sent(toClient)') ++ d
    BY DEF Other
  <2> QED BY <2>2, <2>3, <2>4, <2>5
<1> QED BY <1>5, <1>6, <1>7, <1>8, ConvThere

(* Every step of the client goes on with the conversation, or ends it.      *)
LEMMA FailsOver ==
  ASSUME NEW why \in {"lost", "refused", "long", "unknown", "local", "crashed", "weak"}, Fail(why)
  PROVE  Conv'
<1>1. outcome' \notin {"going", "ready"}
  BY DEF Fail
<1> QED BY <1>1, ConvOver

LEMMA StopOver ==
  ASSUME Conv, ShapeInv, ChoiceInv, Stop
  PROVE  Conv'
<1>0. outcome = "going" /\ todo # Nil /\ todo[1].op = "stop" /\ outcome' = todo[1].what
  BY DEF Stop, Doing, Fail, Nil
<1>1. Fits(todo[1])
  BY <1>0, FirstFits DEF ChoiceInv, Nil
<1>2. todo[1].what \in {"refused", "unknown"}
  BY <1>0, <1>1 DEF Fits, Proper
<1>3. outcome' \notin {"going", "ready"}
  BY <1>0, <1>2
<1> QED BY <1>3, ConvOver

LEMMA ClientTalks ==
  ASSUME Conv, ShapeInv, ChoiceInv, ClientNext,
         Fill => \A i \in 1 .. Len(toClient) : toClient[i].layer = layer,
         HandshakeTLS => inbox = Nil
  PROVE  Conv'
<1>1. CASE Fill
  BY <1>1, FillMoves
<1>2. CASE ReadFails \/ WriteFails \/ HandshakeTLSFails
  BY <1>2, FailsOver DEF ReadFails, WriteFails, HandshakeTLSFails
<1>3. CASE Write
  BY <1>3, WriteMoves
<1>4. CASE Stop
  BY <1>4, StopOver
<1>5. CASE ReadData
  BY <1>5, DataKeeps
<1>6. CASE ReadVersion
  BY <1>6, VersionKeeps
<1>7. CASE ReadWord
  BY <1>7, WordKeeps
<1>8. CASE ReadCount
  BY <1>8, CountKeeps
<1>9. CASE ReadType
  BY <1>9, TypeKeeps
<1>10. CASE Switch
  BY <1>10, SwitchGoes
<1>11. CASE AuthResult
  BY <1>11, ResultKeeps
<1>12. CASE Local
  <2>1. PICK what \in {"keys", "library", "certificate", "saslSetup", "framebuffer"} : At("local", what)
    BY <1>12 DEF Local
  <2>2. what \in Locals
    BY <2>1 DEF Locals
  <2>3. UNCHANGED <<choice, tls, saslconn, saslState, wire, closed, server>>
    BY <1>12 DEF Local
  <2>4. CASE Continue(<<>>)
    BY <2>1, <2>2, <2>3, <2>4, LocalsKeep
  <2>5. CASE Fail("local")
    BY <2>5, FailsOver
  <2> QED BY <1>12, <2>4, <2>5 DEF Local
<1>13. CASE GetPassword
  <2>1. At("local", "password") /\ UNCHANGED <<choice, tls, saslconn, saslState, wire, closed, server>>
    BY <1>13 DEF GetPassword
  <2>2. "password" \in Locals
    BY DEF Locals
  <2>3. CASE Continue(<<>>)
    BY <2>1, <2>2, <2>3, LocalsKeep
  <2>4. CASE Fail("local") \/ Fail("crashed")
    BY <2>4, FailsOver
  <2> QED BY <1>13, <2>3, <2>4 DEF GetPassword
<1>14. CASE GetCredential
  <2>1. At("local", "credential") /\ UNCHANGED <<choice, tls, saslconn, saslState, wire, closed, server>>
    BY <1>14 DEF GetCredential
  <2>2. "credential" \in Locals
    BY DEF Locals
  <2>3. CASE Continue(<<>>)
    BY <2>1, <2>2, <2>3, LocalsKeep
  <2>4. CASE Fail("local") \/ Fail("crashed")
    BY <2>4, FailsOver
  <2> QED BY <1>14, <2>3, <2>4 DEF GetCredential
<1>15. CASE GetPlainCredential
  <2>1. At("local", "plainCredential") /\ UNCHANGED <<choice, tls, saslconn, saslState, wire, closed, server>>
    BY <1>15 DEF GetPlainCredential
  <2>2. CASE Fail("local")
    BY <2>2, FailsOver
  <2>3. ASSUME NEW u \in 0 .. 1, NEW v \in 0 .. 1, Continue(PlainMessage(u, v)) PROVE Conv'
    BY <2>1, <2>3, PlainKeeps
  <2> QED BY <1>15, <2>2, <2>3 DEF GetPlainCredential
<1>16. CASE InitializeTLSSession
  <2>1. CASE Fail("local")
    BY <2>1, FailsOver
  <2>2. CASE ~Fail("local")
    BY <1>16, <2>2, HelloKeeps DEF InitializeTLSSession
  <2> QED BY <2>1, <2>2
<1>17. CASE HandshakeTLS
  BY <1>17, HandshakeKeeps
<1>18. CASE ReadVeNCryptVersion
  BY <1>18, VeVersionKeeps
<1>19. CASE ReadVeNCryptStatus
  BY <1>19, VeStatusKeeps
<1>20. CASE ReadVeNCryptCount
  BY <1>20, VeCountKeeps
<1>21. CASE ReadVeNCryptType
  BY <1>21, VeTypeKeeps
<1>22. CASE VeNCryptChosen
  BY <1>22, VeSwitchGoes
<1>23. CASE ReadVeNCryptAccepted
  BY <1>23, AcceptedKeeps
<1>24. CASE SaslStart
  <2>1. At("local", "saslStart") /\ UNCHANGED <<choice, tls, saslconn, wire, closed, server>>
    BY <1>24 DEF SaslStart
  <2>2. CASE Fail("local") \/ Fail("crashed")
    BY <2>2, FailsOver
  <2>3. CASE ~(Fail("local") \/ Fail("crashed"))
    <3>1. /\ mech' \in 1 .. MaxSasl
          /\ sasl' = [calls |-> 0, given |-> 0, ok |-> FALSE] /\ serverin' = 0
          /\ Continue(<<W("mechanism", mech')>> \o SaslExchange(1))
      BY <1>24, <2>3 DEF SaslStart
    <3>2. PICK m \in 1 .. MaxSasl : m = mech'
      BY <3>1
    <3>3. Continue(<<W("mechanism", m)>> \o SaslExchange(1)) /\ mech' = m
      BY <3>1, <3>2
    <3> QED BY <2>1, <3>1, <3>2, <3>3, StartKeeps
  <2> QED BY <2>2, <2>3
<1>25. CASE ReadSaslData
  BY <1>25, SaslDataKeeps
<1>26. CASE ReadSaslComplete
  BY <1>26, SaslCompleteKeeps
<1>27. CASE SaslStep
  <2>1. At("local", "saslStep") /\ UNCHANGED <<choice, tls, saslconn, mech, complete, wire, closed, server>>
    BY <1>27 DEF SaslStep
  <2>2. CASE Fail("local") \/ Fail("crashed")
    BY <2>2, FailsOver
  <2>3. CASE ~(Fail("local") \/ Fail("crashed"))
    <3> PICK calls : calls = sasl.calls + 1
      OBVIOUS
    <3> PICK next : next = 2 * calls + 1
      OBVIOUS
    <3>1. /\ sasl' = [calls |-> calls, given |-> IF serverin = 0 THEN sasl.given ELSE serverin, ok |-> next >= mech]
          /\ serverin' = 0
          /\ Continue(IF complete /\ sasl'.ok THEN SaslEnd ELSE SaslExchange(IF next <= mech THEN next ELSE 0))
      BY <1>27, <2>3 DEF SaslStep
    <3> QED BY ONLY Conv, ShapeInv, ChoiceInv, calls = sasl.calls + 1, next = 2 * calls + 1, <2>1, <3>1, StepKeeps
  <2> QED BY <2>2, <2>3
<1>28. CASE SaslStrength
  <2>1. At("local", "saslStrength") /\ UNCHANGED <<choice, tls, saslconn, saslState, wire, closed, server>>
    BY <1>28 DEF SaslStrength
  <2>2. CASE Continue(<<>>)
    BY <2>1, <2>2, StrengthKeeps
  <2>3. CASE Fail("weak")
    BY <2>3, FailsOver
  <2> QED BY <1>28, <2>2, <2>3 DEF SaslStrength
<1>29. CASE ReadSaslResult
  BY <1>29, SaslResultKeeps
<1>30. CASE SetUpDone
  BY <1>30, DoneMoves
<1> QED BY <1>1, <1>2, <1>3, <1>4, <1>5, <1>6, <1>7, <1>8, <1>9, <1>10, <1>11, <1>12, <1>13, <1>14,
          <1>15, <1>16, <1>17, <1>18, <1>19, <1>20, <1>21, <1>22, <1>23, <1>24, <1>25, <1>26,
          <1>27, <1>28, <1>29, <1>30 DEF ClientNext

-------------------------------------------------------------------------------
(* The server gets what the client has written.                             *)
TalkGet(w, c, r, g, s) ==
  \/ /\ w = W("version", version) /\ r = Nil /\ s = Nil
     /\ c = R(IF Listed(version) THEN "count" ELSE "word") & Z
     /\ Fresh /\ scheme = NoType /\ sub = NoType /\ taken = Nil
     /\ \E v \in Versions : v # Nil /\ version = ClientVersion(v)
  \/ /\ w = W("choice", picked) /\ Agreed /\ s = Nil /\ Choosing
     /\ Selectable(picked, SubAuth) /\ Quiet /\ taken = Before
     /\ \A d : ASequence(d) => Types(d, c, r ++ d)
  \/ /\ w = W("veChoice", picked) /\ Agreed /\ s = Nil /\ VeChoosing
     /\ picked \in VeNCryptTypes /\ taken = OnlyVe
     /\ \A d : ASequence(d) => VeTypes(d, c, r ++ d)
  \/ /\ w = W("choice", Type) /\ Agreed /\ r = Nil /\ s = Nil
     /\ Inner(w & Nil, g & Nil, ServerHandler(Type)) /\ Early(Both, c, ServerHandler(Type))
  \/ /\ w.what \notin {"version", "choice", "veChoice"} /\ Agreed /\ r = Nil
     /\ taken = Both /\ g = G(w.what) /\ Talk(Both, w & c, g & s)

LEMMA GetCases ==
  ASSUME Conv, ChoiceInv, outcome \in {"going", "ready"}, NEW what, ServerGet(what),
         NEW w, w = First1, NEW c, c = Rest1, NEW r, r = Under, NEW g, g = steps[1],
         NEW s, s = Tail(steps)
  PROVE  /\ w.op = "write" /\ w.what = what /\ w.val = Got /\ ASequence(c) /\ AllOp(r, "send")
         /\ g.op = "get" /\ ASequence(s)
         /\ g.what = w.what /\ serverLayer = layer /\ TalkGet(w, c, r, g, s)
<1>0. ~closed /\ toServer # Nil /\ steps # Nil /\ steps[1].op = "get" /\ toServer[1].what = what
  BY DEF ServerGet, ServerAt, Nil
<1>1. /\ w.op = "write" /\ w.what = toServer[1].what /\ w.val = Got /\ ASequence(c)
      /\ AllOp(r, "send") /\ ASequence(s) /\ Talking(w & c, r ++ (g & s))
  BY <1>0, ConvGets
<1>2. g.op = "get"
  BY <1>0
<1>3. g.what = w.what /\ serverLayer = layer /\ TalkGet(w, c, r, g, s)
  <2> HIDE DEF Agreed, Fresh, Choosing, VeChoosing, Quiet, Inner, Listed, layer
  <2> QED BY ONLY <1>1, <1>2, TalkingGets DEF TalkGet
<1> QED BY <1>0, <1>1, <1>2, <1>3

LEMMA GetGoes ==
  ASSUME ChoiceInv, NEW what, ServerGet(what), NEW e, ASequence(e), steps' = e,
         NEW c, c = Rest1, NEW r, r = Under, Talking(c, r ++ e)'
  PROVE  Conv'
<1>0. /\ ~closed /\ toServer # <<>> /\ toServer' = Tail(toServer)
      /\ UNCHANGED <<client, inbox, toClient, closed>>
  BY DEF ServerGet, ServerAt
<1>1. AllOp(Written(Tail(toServer)), "write")
  <2>1. ASequence(Tail(toServer))
    BY <1>0, Sequences, Decompose
  <2> QED BY <2>1, WrittenFacts
<1> QED BY <1>0, <1>1, GetThere

(* What decides nothing. *)
LEMMA DataGoes ==
  ASSUME Conv, ChoiceInv, outcome \in {"going", "ready"}, ServerData
  PROVE  Conv'
<1>0. PICK what \in Plainly : ServerGet(what) /\ Then(<<>>)
  BY DEF ServerData
<1>00. Idle
  BY <1>0 DEF ServerData, ServerGet, client, Idle
<1> PICK w : w = First1
  OBVIOUS
<1> PICK c : c = Rest1
  OBVIOUS
<1> PICK r : r = Under
  OBVIOUS
<1> PICK g : g = steps[1]
  OBVIOUS
<1> PICK s : s = Tail(steps)
  OBVIOUS
<1>1. /\ w.op = "write" /\ w.what = what /\ ASequence(c) /\ AllOp(r, "send")
      /\ g.op = "get" /\ ASequence(s) /\ TalkGet(w, c, r, g, s)
  BY <1>0, GetCases
<1>2. what \notin {"version", "choice", "veChoice", "lengths", "mechanism", "saslData"}
  BY DEF Plainly
<1>3. Agreed /\ r = Nil /\ taken = Both /\ Talk(Both, w & c, g & s)
  <2>1. /\ \A v : W("version", v).what = "version"
        /\ \A v : W("choice", v).what = "choice"
        /\ \A v : W("veChoice", v).what = "veChoice"
    BY Kinds
  <2>2. /\ w # W("version", version) /\ w # W("choice", picked) /\ w # W("veChoice", picked)
        /\ w # W("choice", Type)
    BY <1>1, <1>2, <2>1
  <2> HIDE DEF Agreed
  <2> QED BY <1>1, <2>2 DEF TalkGet
<1>4. Talk(Both, c, s)
  <2>1. Nil ++ (g & s) = g & s
    BY <1>1, ConsSequence, JoinNil
  <2>2. Talk(Both, w & c, r ++ (g & s))
    BY <1>3, <2>1
  <2>3. w # W("mechanism", mech)
    <3>1. W("mechanism", mech).what = "mechanism"
      BY Kinds
    <3> QED BY <1>1, <1>2, <3>1
  <2>4. w.what # "lengths" /\ w.what # "saslData"
    BY <1>1, <1>2
  <2>5. w.op = "write" /\ ASequence(c) /\ AllOp(r, "send") /\ g.op = "get" /\ ASequence(s)
    BY <1>1
  <2> QED BY ONLY <2>2, <2>3, <2>4, <2>5, TalkGets
<1> PICK o : o = r ++ s
  OBVIOUS
<1>5. o = s
  BY <1>1, <1>3, JoinNil
<1>6. Talking(c, o)
  <2>1. Straight(c, s)
    BY <1>3, <1>4 DEF Straight
  <2> HIDE DEF Agreed
  <2> QED BY <1>3, <1>5, <2>1 DEF Talking
<1>7. Talking(c, o)'
  BY <1>00, <1>6, TalkingStays
<1>8. steps' = s
  BY <1>0, <1>1, Empties DEF Then
<1> QED BY <1>0, <1>1, <1>7, <1>8, GetGoes

-------------------------------------------------------------------------------
(* The server gets the client's version, ...                                *)
MinorOf(x) == IF x \in {<<3, 7>>, <<3, 8>>} THEN x[2] ELSE 3

LEMMA VersionsAgree ==
  ASSUME NEW v \in Versions, v # Nil, NEW x, x = ClientVersion(v)
  PROVE  /\ Listed(x) <=> MinorOf(x) > 3
         /\ Explains(x) <=> MinorOf(x) = 8
<1>1. v \in Nat \X Nat
  BY SessionAssumption DEF Nil
<1> PICK a \in Nat, b \in Nat : v = <<a, b>>
  BY <1>1
<1> DEFINE three == <<3, 8>>
<1>2. v[1] = a /\ v[2] = b
  OBVIOUS
<1>3. \A m, n : <<m, n>>[1] = m /\ <<m, n>>[2] = n
  OBVIOUS
<1>4. \A m, n, k, l : <<m, n>> = <<k, l>> <=> m = k /\ n = l
  OBVIOUS
<1>5. CASE a = 3 /\ b \in {14, 16}
  <2>1. x = <<3, b - 10>>
    BY <1>2, <1>5 DEF ClientVersion
  <2>2. x \notin {<<3, 7>>, <<3, 8>>}
    BY <2>1, <1>4, <1>5
  <2>3. MinorOf(x) = 3
    BY <2>2 DEF MinorOf
  <2>4. x[1] = 3 /\ x[2] = b - 10
    BY <2>1, <1>3
  <2> HIDE DEF three
  <2> QED BY <2>3, <2>4, <1>5 DEF Listed, Explains
<1>6. CASE ~(a = 3 /\ b \in {14, 16}) /\ (a > 3 \/ (a = 3 /\ b > 8))
  <2>1. x = <<3, 8>>
    BY <1>2, <1>6 DEF ClientVersion
  <2>2. MinorOf(x) = 8
    BY <2>1, <1>3 DEF MinorOf
  <2>3. x[1] = 3 /\ x[2] = 8
    BY <2>1, <1>3
  <2> QED BY <2>2, <2>3 DEF Listed, Explains
<1>7. CASE ~(a = 3 /\ b \in {14, 16}) /\ ~(a > 3 \/ (a = 3 /\ b > 8))
  <2>1. x = <<a, b>>
    BY <1>2, <1>7 DEF ClientVersion
  <2>2. x[1] = a /\ x[2] = b
    BY <2>1, <1>3
  <2>3. x \in {<<3, 7>>, <<3, 8>>} <=> a = 3 /\ b \in {7, 8}
    BY <2>1, <1>4
  <2>4. MinorOf(x) = IF a = 3 /\ b \in {7, 8} THEN b ELSE 3
    BY <2>1, <2>2, <2>3 DEF MinorOf
  <2> QED BY <2>2, <2>4, <1>7 DEF Listed, Explains
<1> QED BY <1>5, <1>6, <1>7

LEMMA OfferStarts ==
  ASSUME NEW list \in Lists \cup SubLists, NEW e,
         e = IF list = <<>> THEN <<S("count", 0), D("reason")>>
             ELSE ServerList("count", "type", "choice", list)
  PROVE  Offer(e) /\ ASequence(e)
<1>1. Offer(e)
  <2>1. CASE list = Nil
    <3>1. e = S("count", 0) & (D("reason") & Nil)
      BY <2>1, NilSequence, Tuple2 DEF Nil
    <3> QED BY <3>1 DEF Offer
  <2>2. CASE list # Nil
    <3>1. e = ServerList("count", "type", "choice", list)
      BY <2>2 DEF Nil
    <3> QED BY <2>2, <3>1 DEF Offer
  <2> QED BY <2>1, <2>2
<1> QED BY <1>1, OfferFacts

LEMMA VersionGoes ==
  ASSUME Conv, ChoiceInv, outcome \in {"going", "ready"}, ServerVersion
  PROVE  Conv'
<1>0. /\ ServerGet("version") /\ reply' = Got
      /\ UNCHANGED <<taken, serverLayer, exchanges, verdict, version, scheme, sub, picked, tls, saslconn>>
  BY DEF ServerVersion, ServerGet, client, choice
<1> PICK w : w = First1
  OBVIOUS
<1> PICK c : c = Rest1
  OBVIOUS
<1> PICK r : r = Under
  OBVIOUS
<1> PICK g : g = steps[1]
  OBVIOUS
<1> PICK s : s = Tail(steps)
  OBVIOUS
<1>1. /\ w.op = "write" /\ w.what = "version" /\ w.val = Got /\ ASequence(c) /\ AllOp(r, "send")
      /\ g.op = "get" /\ ASequence(s) /\ TalkGet(w, c, r, g, s)
  BY <1>0, GetCases
<1>2. /\ w = W("version", version) /\ r = Nil /\ s = Nil
      /\ c = R(IF Listed(version) THEN "count" ELSE "word") & Z
      /\ Fresh /\ scheme = NoType /\ sub = NoType /\ taken = Nil
      /\ \E v \in Versions : v # Nil /\ version = ClientVersion(v)
  <2>1. /\ \A v : W("choice", v).what = "choice"
        /\ \A v : W("veChoice", v).what = "veChoice"
    BY Kinds
  <2>2. /\ w # W("choice", picked) /\ w # W("veChoice", picked)
        /\ w # W("choice", Type)
    BY <1>1, <2>1
  <2>3. w.what \in {"version", "choice", "veChoice"}
    BY <1>1
  <2> HIDE DEF Agreed, Fresh, Listed
  <2> QED BY <1>1, <2>2, <2>3 DEF TalkGet
<1>3. reply' = version /\ version' = version
  <2>1. W("version", version).val = version
    BY Kinds
  <2> QED BY <1>0, <1>1, <1>2, <2>1
<1>4. Minor' = MinorOf(version)
  BY <1>3 DEF Minor, MinorOf
<1>5. Listed(version) <=> Minor' > 3
  <2> PICK v \in Versions : v # Nil /\ version = ClientVersion(v)
    BY <1>2
  <2> QED BY <1>4, VersionsAgree
<1>6. Agreed'
  <2> HIDE DEF ClientVersion
  <2> QED BY <1>0, <1>2, <1>3 DEF Agreed
<1>7. Fresh' /\ Calm' /\ taken' = Nil /\ Both' = Nil /\ scheme' = NoType
  BY <1>0, <1>2 DEF Fresh, Calm, layer, Both
<1>8. \A e : ASequence(e) /\ Then(e) => steps' = e
  BY <1>1, <1>2, Empties DEF Then, Nil
<1>9. CASE Minor' > 3
  <2>1. PICK list \in Lists : Then(IF list = <<>> THEN <<S("count", 0), D("reason")>>
              ELSE ServerList("count", "type", "choice", list))
    BY <1>9 DEF ServerVersion
  <2> PICK e : e = IF list = <<>> THEN <<S("count", 0), D("reason")>>
              ELSE ServerList("count", "type", "choice", list)
    OBVIOUS
  <2>2. Offer(e) /\ ASequence(e)
    BY OfferStarts
  <2>3. steps' = e
    BY <1>8, <2>1, <2>2
  <2>4. c = R("count") & Z /\ Listed(version')
    BY <1>2, <1>3, <1>5, <1>9
  <2>5. EarlyGoal(Nil, c, e)'
    BY <1>7, <2>2, <2>4 DEF EarlyGoal
  <2>6. Near(Ordinary, c, e, c, e)
    BY <1>1, <2>2, NearEnd
  <2>7. Early(Nil, c, e)'
    BY <1>7, <2>5, <2>6 DEF Early
  <2>8. Straight(c, e)'
    <3>1. Talk(Nil, c, e)'
      BY <2>7 DEF Talk
    <3> QED BY <1>7, <3>1 DEF Straight
  <2>9. Talking(c, e)'
    BY <1>6, <2>8 DEF Talking
  <2> PICK o : o = r ++ e
    OBVIOUS
  <2>10. o = e
    BY <1>2, <2>2, JoinNil
  <2>11. Talking(c, o)'
    BY <2>9, <2>10
  <2> QED BY <1>0, <2>2, <2>3, <2>11, GetGoes
<1>10. CASE ~(Minor' > 3)
  <2>1. PICK word \in Words : Then(<<S("word", word), Chosen(word)>>)
    BY <1>10 DEF ServerVersion
  <2> PICK e : e = <<S("word", word), Chosen(word)>>
    OBVIOUS
  <2>2. e = S("word", word) & (Chosen(word) & Nil) /\ ASequence(e)
    BY NilSequence, Tuple2
  <2>3. steps' = e
    BY <1>8, <2>1, <2>2
  <2>4. c = R("word") & Z /\ ~Listed(version')
    BY <1>2, <1>3, <1>5, <1>10
  <2> PICK e1 : e1 = Chosen(word) & Nil
    OBVIOUS
  <2>5. WordServed(word, e1)'
    BY <1>7 DEF WordServed
  <2>6. WordTalk(c, e)'
    BY <1>7, <2>2, <2>4, <2>5 DEF WordTalk
  <2>9. Talking(c, e)'
    BY <1>6, <2>6 DEF Talking
  <2> PICK o : o = r ++ e
    OBVIOUS
  <2>10. o = e
    BY <1>2, <2>2, JoinNil
  <2>11. Talking(c, o)'
    BY <2>9, <2>10
  <2> QED BY <1>0, <2>2, <2>3, <2>11, GetGoes
<1> QED BY <1>9, <1>10
(* ... the security type it has chosen, ...                                 *)
AnswerTaken ==
  UNCHANGED <<choice, tls, saslconn, saslState, reply, serverLayer, exchanges, verdict>>

LEMMA AnswerFacts ==
  ASSUME AnswerTaken
  PROVE  /\ Firm /\ UNCHANGED verdict
         /\ scheme' = scheme /\ sub' = sub /\ picked' = picked
         /\ Fresh' <=> Fresh
         /\ SubAuth' <=> SubAuth
         /\ Agreed' <=> Agreed
         /\ Choosing' <=> Choosing
         /\ VeChoosing' <=> VeChoosing
         /\ Before' = Before /\ Both' = Both
         /\ \A w : Handle(w)' = Handle(w)
<1>1. Firm /\ UNCHANGED verdict /\ scheme' = scheme /\ sub' = sub /\ picked' = picked /\ version' = version
  BY DEF AnswerTaken, Firm, choice, saslState
<1>2. Fresh' <=> Fresh
  BY <1>1, FirmFacts
<1>3. (\A w : Handle(w)' = Handle(w)) /\ (SubAuth' <=> SubAuth)
  BY <1>1, HandleStays
<1>4. Agreed' <=> Agreed
  BY <1>1 DEF Agreed, AnswerTaken
<1>5. /\ Choosing' <=> Choosing
      /\ VeChoosing' <=> VeChoosing
  BY <1>1, <1>2, <1>3 DEF Choosing, VeChoosing, Listed
<1>6. Before' = Before /\ Both' = Both
  BY <1>1 DEF Before, Both
<1> QED BY <1>1, <1>2, <1>3, <1>4, <1>5, <1>6

LEMMA ChoiceOpens ==
  ASSUME Agreed, Choosing, Selectable(picked, SubAuth), Quiet, NEW tk, tk = Added(Before, picked),
         NEW h, h = ServerHandler(picked)
  PROVE  Early(tk, Handle(picked) ++ Z, h) /\ tk = Append(Before, picked)
<1>1. Calm /\ (SubAuth \/ Fresh)
  BY DEF Quiet
<1>2. NoType # "TLS" /\ (picked \in {"TLS", "VeNCrypt"} => ~SubAuth)
  BY DEF NoType, Selectable
<1>3. sub = NoType /\ (scheme = NoType \/ SubAuth)
  BY DEF Choosing
<1>4. /\ tk # Nil /\ tk = Append(Before, picked)
      /\ ~SubAuth => tk = One(picked)
  <2>1. CASE scheme = NoType
    <3>1. Before = Nil /\ ~SubAuth
      BY <1>2, <2>1 DEF Before, SubAuth
    <3>2. tk = One(picked)
      BY <3>1 DEF Added
    <3> QED BY <3>1, <3>2, Ones
  <2>2. CASE scheme # NoType
    <3>1. SubAuth
      BY <1>3, <2>2
    <3>2. Before = One(scheme)
      BY <2>2 DEF Before
    <3>3. tk = Two(scheme, picked)
      BY <3>2, Ones DEF Added
    <3> QED BY <3>1, <3>2, <3>3, Ones
  <2> QED BY <2>1, <2>2
<1>5. /\ picked = "TLS" => ~SubAuth /\ tk = OnlyTLS /\ Fresh
      /\ picked = "VeNCrypt" => ~SubAuth /\ tk = OnlyVe /\ Fresh
  BY <1>1, <1>2, <1>4 DEF OnlyTLS, OnlyVe
<1>6. Explains(version) <=> Minor = 8
  BY Explaining
<1> QED BY <1>1, <1>4, <1>5, <1>6, Opens

LEMMA InnerTaken ==
  ASSUME NEW p, NEW s, NEW h, Inner(p, s, h)
  PROVE  Append(taken, Type) = Both
<1>1. CASE sub = NoType
  <2>1. taken = Nil /\ Type = scheme /\ Both = One(scheme)
    BY <1>1 DEF Inner, Type, Both
  <2> QED BY <2>1, Ones
<1>2. CASE sub # NoType
  <2>1. taken = OnlyTLS /\ SubAuth /\ Type = sub /\ Both = Two(scheme, sub)
    BY <1>2 DEF Inner, Type, Both
  <2>2. taken = One(scheme)
    BY <2>1 DEF SubAuth, OnlyTLS
  <2> QED BY <2>1, <2>2, Ones
<1> QED BY <1>1, <1>2

LEMMA ChoiceGoes ==
  ASSUME Conv, ChoiceInv, outcome \in {"going", "ready"}, ServerChoice
  PROVE  Conv'
<1>0. /\ ServerGet("choice") /\ taken' = Append(taken, Got) /\ Then(ServerHandler(Got))
      /\ AnswerTaken
  BY DEF ServerChoice, ServerGet, client, AnswerTaken
<1> PICK w : w = First1
  OBVIOUS
<1> PICK c : c = Rest1
  OBVIOUS
<1> PICK r : r = Under
  OBVIOUS
<1> PICK g : g = steps[1]
  OBVIOUS
<1> PICK s : s = Tail(steps)
  OBVIOUS
<1>1. /\ w.op = "write" /\ w.what = "choice" /\ w.val = Got /\ ASequence(c) /\ AllOp(r, "send")
      /\ g.op = "get" /\ ASequence(s) /\ TalkGet(w, c, r, g, s)
  BY <1>0, GetCases
<1>2. \/ /\ w = W("choice", picked) /\ Agreed /\ s = Nil /\ Choosing
         /\ Selectable(picked, SubAuth) /\ Quiet /\ taken = Before
         /\ \A d : ASequence(d) => Types(d, c, r ++ d)
      \/ /\ w = W("choice", Type) /\ Agreed /\ r = Nil /\ s = Nil
         /\ Inner(w & Nil, g & Nil, ServerHandler(Type)) /\ Early(Both, c, ServerHandler(Type))
  <2>1. /\ \A v : W("version", v).what = "version"
        /\ \A v : W("veChoice", v).what = "veChoice"
    BY Kinds
  <2>2. /\ w # W("version", version) /\ w # W("veChoice", picked)
    BY <1>1, <2>1
  <2>3. w.what \in {"version", "choice", "veChoice"}
    BY <1>1
  <2> HIDE DEF Agreed, Fresh, Listed, Choosing, Selectable, Quiet, Inner
  <2> QED BY <1>1, <2>2, <2>3 DEF TalkGet
<1>3. \A v : W("choice", v).val = v
  BY Kinds
<1>4. \A e : s = Nil /\ ASequence(e) /\ Then(e) => steps' = e
  BY Empties DEF Then, Nil
<1>5. Agreed /\ Agreed' /\ Firm /\ UNCHANGED verdict
  BY <1>0, <1>2, AnswerFacts
<1>6. CASE /\ w = W("choice", picked) /\ Agreed /\ s = Nil /\ Choosing
           /\ Selectable(picked, SubAuth) /\ Quiet /\ taken = Before
           /\ \A d : ASequence(d) => Types(d, c, r ++ d)
  <2>1. Got = picked
    BY <1>1, <1>3, <1>6
  <2> PICK e : e = ServerHandler(picked)
    OBVIOUS
  <2> PICK tk : tk = Added(Before, picked)
    OBVIOUS
  <2> PICK h : h = Handle(picked) ++ Z
    OBVIOUS
  <2>2. Early(tk, h, e) /\ tk = Append(Before, picked)
    <3> HIDE DEF Agreed, Choosing, Selectable, Quiet
    <3> QED BY <1>5, <1>6, ChoiceOpens
  <2>3. ASequence(e)
    BY <2>2, EarlyFacts
  <2>4. steps' = e
    BY <1>0, <1>4, <1>6, <2>1, <2>3
  <2>5. Talk(tk, h, e)'
    <3>1. Early(tk, h, e)'
      BY <1>5, <2>2, EarlyStays
    <3> QED BY <3>1 DEF Talk
  <2> PICK o : o = r ++ e
    OBVIOUS
  <2>6. Types(e, c, o)
    BY <1>6, <2>3
  <2>7. /\ picked' = picked /\ taken' = tk /\ Before' = Before
        /\ h = Handle(picked)' ++ Z
        /\ SubAuth' <=> SubAuth
    BY <1>0, <1>6, <2>1, <2>2, AnswerFacts
  <2>8. Heard(c, o)'
    <3>1. Selectable(picked, SubAuth)' /\ (taken = Added(Before, picked))'
      BY <1>6, <2>7 DEF Selectable
    <3> QED BY <2>5, <2>6, <2>7, <3>1 DEF Heard
  <2>9. Choosing'
    BY <1>0, <1>6, AnswerFacts
  <2>10. Talking(c, o)'
    BY <1>5, <2>8, <2>9 DEF Talking, Listing
  <2> QED BY <1>0, <2>3, <2>4, <2>10, GetGoes
<1>7. CASE /\ w = W("choice", Type) /\ Agreed /\ r = Nil /\ s = Nil
           /\ Inner(w & Nil, g & Nil, ServerHandler(Type)) /\ Early(Both, c, ServerHandler(Type))
  <2>1. Got = Type
    BY <1>1, <1>3, <1>7
  <2> PICK e : e = ServerHandler(Type)
    OBVIOUS
  <2> PICK tk : tk = Both
    OBVIOUS
  <2>2. Early(tk, c, e)
    BY <1>7
  <2>3. ASequence(e)
    BY <2>2, EarlyFacts
  <2>4. steps' = e
    BY <1>0, <1>4, <1>7, <2>1, <2>3
  <2>5. Talk(tk, c, e)'
    <3>1. Early(tk, c, e)'
      BY <1>5, <2>2, EarlyStays
    <3> QED BY <3>1 DEF Talk
  <2>6. taken' = tk /\ Both' = tk
    <3>1. Append(taken, Type) = tk
      BY <1>7, InnerTaken
    <3> QED BY <1>0, <2>1, <3>1, AnswerFacts
  <2>7. Straight(c, e)'
    BY <2>5, <2>6 DEF Straight
  <2>8. Talking(c, e)'
    BY <1>5, <2>7 DEF Talking
  <2> PICK o : o = r ++ e
    OBVIOUS
  <2>9. o = e
    BY <1>7, <2>3, JoinNil
  <2>10. Talking(c, o)'
    BY <2>8, <2>9
  <2> QED BY <1>0, <2>3, <2>4, <2>10, GetGoes
<1> QED BY <1>2, <1>6, <1>7

(* ... the type of VeNCrypt, ...                                            *)
LEMMA VeServed ==
  ASSUME NEW t \in VeNCryptTypes, NEW m,
         m = CASE t \in NoneTypes -> <<D("verdict")>>
               [] t \in VNCTypes -> ServerVNC
               [] t \in PlainTypes -> ServerPlain
               [] t \in SASLTypes -> ServerSASL("fits")
  PROVE  m = VeServer(t) /\ ASequence(m)
<1>1. <<D("verdict")>> = D("verdict") & Nil
  BY Single
<1> PICK v : v = <<D("verdict")>>
  OBVIOUS
<1>2. v = D("verdict") & Nil
  BY <1>1
<1>3. m = CASE t \in NoneTypes -> v
            [] t \in VNCTypes -> ServerVNC
            [] t \in PlainTypes -> ServerPlain
            [] t \in SASLTypes -> ServerSASL("fits")
  OBVIOUS
<1>4. m = VeServer(t)
  BY <1>2, <1>3 DEF VeServer
<1>5. ASequence(VeServer(t))
  BY VeOpens, OpeningFacts
<1> QED BY <1>4, <1>5

LEMMA VeChoiceGoes ==
  ASSUME Conv, ChoiceInv, outcome \in {"going", "ready"}, ServerVeNCryptChoice
  PROVE  Conv'
<1>0. /\ ServerGet("veChoice") /\ taken' = Append(taken, Got)
      /\ AnswerTaken
  BY DEF ServerVeNCryptChoice, ServerGet, client, AnswerTaken
<1> PICK w : w = First1
  OBVIOUS
<1> PICK c : c = Rest1
  OBVIOUS
<1> PICK r : r = Under
  OBVIOUS
<1> PICK g : g = steps[1]
  OBVIOUS
<1> PICK s : s = Tail(steps)
  OBVIOUS
<1>1. /\ w.op = "write" /\ w.what = "veChoice" /\ w.val = Got /\ ASequence(c) /\ AllOp(r, "send")
      /\ g.op = "get" /\ ASequence(s) /\ TalkGet(w, c, r, g, s)
  BY <1>0, GetCases
<1>2. /\ w = W("veChoice", picked) /\ Agreed /\ s = Nil /\ VeChoosing
      /\ picked \in VeNCryptTypes /\ taken = OnlyVe
      /\ \A d : ASequence(d) => VeTypes(d, c, r ++ d)
  <2>1. /\ \A v : W("version", v).what = "version"
        /\ \A v : W("choice", v).what = "choice"
    BY Kinds
  <2>2. /\ w # W("version", version) /\ w # W("choice", picked) /\ w # W("choice", Type)
    BY <1>1, <2>1
  <2>3. w.what \in {"version", "choice", "veChoice"}
    BY <1>1
  <2> HIDE DEF Agreed, Fresh, Listed, Choosing, Selectable, Quiet, Inner, VeChoosing, VeNCryptTypes
  <2> QED BY <1>1, <2>2, <2>3 DEF TalkGet
<1>3. Got = picked
  <2>1. W("veChoice", picked).val = picked
    BY Kinds
  <2> QED BY <1>1, <1>2, <2>1
<1>4. \A e : ASequence(e) /\ Then(e) => steps' = e
  BY <1>1, <1>2, Empties DEF Then, Nil
<1> PICK m : m = CASE Got \in NoneTypes -> <<D("verdict")>>
                   [] Got \in VNCTypes -> ServerVNC
                   [] Got \in PlainTypes -> ServerPlain
                   [] Got \in SASLTypes -> ServerSASL("fits")
  OBVIOUS
<1>5. m = VeServer(picked) /\ ASequence(m)
  <2>1. m = CASE picked \in NoneTypes -> <<D("verdict")>>
              [] picked \in VNCTypes -> ServerVNC
              [] picked \in PlainTypes -> ServerPlain
              [] picked \in SASLTypes -> ServerSASL("fits")
    BY <1>3
  <2> QED BY <1>2, <2>1, VeServed
<1>6. PICK e : Then(e) /\ ASequence(e) /\ Accepts(picked, e)
  <2> PICK e : e = <<S("veAccepted", 1), G("hello"), S("finished", 0), D("tls")>> \o m
    OBVIOUS
  <2> PICK f : f = <<S("veAccepted", 0), D("close")>>
    OBVIOUS
  <2>1. Then(e) \/ Then(f)
    BY DEF ServerVeNCryptChoice
  <2>2. e = S("veAccepted", 1) & Hello(Finish(m)) /\ ASequence(e)
    <3> PICK x1 : x1 = S("veAccepted", 1)
      OBVIOUS
    <3> PICK x2 : x2 = G("hello")
      OBVIOUS
    <3> PICK x3 : x3 = S("finished", 0)
      OBVIOUS
    <3> PICK x4 : x4 = D("tls")
      OBVIOUS
    <3>1. e = <<x1, x2, x3, x4>> ++ m
      BY DEF ++
    <3>2. <<x1, x2, x3, x4>> ++ m = x1 & (x2 & (x3 & (x4 & m))) /\ ASequence(x1 & (x2 & (x3 & (x4 & m))))
      <4>1. ASequence(m)
        BY <1>5
      <4> QED BY ONLY <4>1, Tuple4
    <3>3. e = x1 & (x2 & (x3 & (x4 & m))) /\ ASequence(e)
      BY <3>1, <3>2
    <3> QED BY <3>3 DEF Hello, Finish
  <2>3. f = S("veAccepted", 0) & (D("close") & Nil) /\ ASequence(f)
    BY NilSequence, Tuple2
  <2>4. Accepts(picked, e) /\ Accepts(picked, f)
    BY <1>5, <2>2, <2>3 DEF Accepts
  <2> QED BY <2>1, <2>2, <2>3, <2>4
<1>7. steps' = e
  BY <1>4, <1>6
<1> PICK o : o = r ++ e
  OBVIOUS
<1>8. VeTypes(e, c, o)
  BY <1>2, <1>6
<1>9. /\ picked' = picked /\ taken' = Two("VeNCrypt", picked)
      /\ Agreed' /\ VeChoosing'
  <2>1. Append(OnlyVe, picked) = Two("VeNCrypt", picked)
    BY Ones DEF OnlyVe
  <2> QED BY <1>0, <1>2, <1>3, <2>1, AnswerFacts
<1>10. VeTypes(e, c, o)' /\ Accepts(picked, e)'
  BY <1>6, <1>8, <1>9 DEF VeTypes, Accepts, VeServer
<1>11. VeHeard(c, o)'
  BY <1>2, <1>9, <1>10 DEF VeHeard
<1>12. Talking(c, o)'
  BY <1>9, <1>11 DEF Talking, VeListing
<1> QED BY <1>0, <1>6, <1>7, <1>12, GetGoes
(* ... or what belongs to an authentication.                                *)
TalkGot(tk, w, c, s) ==
  \/ w.what \in Plainly /\ Talk(tk, c, s)
  \/ /\ w.what = "lengths" /\ tk # Nil /\ Calm /\ s = Nil
     /\ \E u, p \in 0 .. 1 : w & c = PlainMessage(u, p) ++ Z
  \/ /\ tk # Nil /\ Calm /\ Exchanged /\ sasl.calls = 0 /\ serverin = 0
     /\ w = W("mechanism", mech) /\ c = SaslExchange(1) ++ Z /\ s = G("saslData") & Nil
  \/ w.what = "saslData" /\ tk # Nil /\ SaslWaits(w & c, G("saslData") & Nil) /\ s = Nil

LEMMA StraightGets ==
  ASSUME Conv, ChoiceInv, outcome \in {"going", "ready"},
         NEW what, what \notin {"version", "choice", "veChoice"}, ServerGet(what),
         NEW w, w = First1, NEW c, c = Rest1, NEW s, s = Tail(steps)
  PROVE  /\ w.what = what /\ w.val = Got /\ ASequence(c) /\ ASequence(s)
         /\ Agreed /\ Under = Nil /\ taken = Both /\ TalkGot(Both, w, c, s)
<1> PICK r : r = Under
  OBVIOUS
<1> PICK g : g = steps[1]
  OBVIOUS
<1>1. /\ w.op = "write" /\ w.what = what /\ w.val = Got /\ ASequence(c) /\ AllOp(r, "send")
      /\ g.op = "get" /\ ASequence(s) /\ TalkGet(w, c, r, g, s)
  BY GetCases
<1>2. Agreed /\ r = Nil /\ taken = Both /\ Talk(Both, w & c, g & s)
  <2>1. /\ \A v : W("version", v).what = "version"
        /\ \A v : W("choice", v).what = "choice"
        /\ \A v : W("veChoice", v).what = "veChoice"
    BY Kinds
  <2>2. /\ w # W("version", version) /\ w # W("choice", picked) /\ w # W("veChoice", picked)
        /\ w # W("choice", Type)
    BY <1>1, <2>1
  <2> HIDE DEF Agreed
  <2> QED BY <1>1, <2>2 DEF TalkGet
<1>3. TalkGot(Both, w, c, s)
  <2>1. Nil ++ (g & s) = g & s
    BY <1>1, ConsSequence, JoinNil
  <2>2. Talk(Both, w & c, r ++ (g & s))
    BY <1>2, <2>1
  <2>3. w.op = "write" /\ ASequence(c) /\ AllOp(r, "send") /\ g.op = "get" /\ ASequence(s)
    BY <1>1
  <2> QED BY ONLY <2>2, <2>3, TalkGets DEF TalkGot
<1> QED BY <1>1, <1>2, <1>3

LEMMA StraightGot ==
  ASSUME ChoiceInv, NEW what, ServerGet(what), Agreed, taken = Both, Under = Nil,
         UNCHANGED <<reply, taken>>, NEW e, ASequence(e), steps' = e,
         NEW c, c = Rest1, NEW tk, tk = Both, Talk(tk, c, e)'
  PROVE  Conv'
<1>1. UNCHANGED <<version, scheme, sub, reply, taken>>
  BY DEF ServerGet, client, choice
<1>2. Talking(c, e)'
  <2> HIDE DEF Agreed
  <2> QED BY <1>1, StraightThere
<1> PICK r : r = Under
  OBVIOUS
<1> PICK o : o = r ++ e
  OBVIOUS
<1>3. o = e
  BY JoinNil
<1>4. Talking(c, o)'
  BY <1>2, <1>3
<1> QED BY <1>4, GetGoes

LEMMA LengthsGo ==
  ASSUME Conv, ChoiceInv, outcome \in {"going", "ready"}, ServerPlainLengths
  PROVE  Conv'
<1>0. /\ ServerGet("lengths") /\ Then(ServerPlainMessage(Got)) /\ Firm /\ UNCHANGED <<verdict, reply, taken>>
  BY DEF ServerPlainLengths, ServerGet, client, Firm, choice, saslState
<1> PICK w : w = First1
  OBVIOUS
<1> PICK c : c = Rest1
  OBVIOUS
<1> PICK s : s = Tail(steps)
  OBVIOUS
<1> PICK tk : tk = Both
  OBVIOUS
<1> PICK what : what = "lengths"
  OBVIOUS
<1>1. /\ w.what = what /\ w.val = Got /\ ASequence(c) /\ ASequence(s)
      /\ Agreed /\ Under = Nil /\ taken = Both /\ TalkGot(tk, w, c, s)
  <2>1. ServerGet(what) /\ what \notin {"version", "choice", "veChoice"}
    BY <1>0
  <2> HIDE DEF Agreed
  <2> QED BY <2>1, StraightGets
<1>2. /\ tk # Nil /\ Calm /\ s = Nil
      /\ \E u, p \in 0 .. 1 : w & c = PlainMessage(u, p) ++ Z
  <2>1. w # W("mechanism", mech)
    <3>1. W("mechanism", mech).what = "mechanism"
      BY Kinds
    <3> QED BY <1>1, <3>1
  <2>2. w.what = "lengths" /\ w.what \notin Plainly /\ w.what # "saslData"
    BY <1>1 DEF Plainly
  <2> QED BY <1>1, <2>1, <2>2 DEF TalkGot
<1> PICK e : e = ServerPlainMessage(w.val) ++ Nil
  OBVIOUS
<1>3. Talk(tk, c, e)
  BY <1>1, <1>2, LengthsGot
<1>4. ASequence(e)
  BY <1>3, TalkFacts
<1>5. steps' = e
  BY <1>0, <1>1, <1>2 DEF Then, ++
<1>6. Talk(tk, c, e)'
  BY <1>0, <1>3, TalkStays
<1> HIDE DEF Agreed
<1> QED BY <1>0, <1>1, <1>4, <1>5, <1>6, StraightGot

LEMMA SaslStartGoes ==
  ASSUME Conv, ChoiceInv, outcome \in {"going", "ready"}, ServerSaslStart
  PROVE  Conv'
<1>0. /\ ServerGet("mechanism") /\ Then(<<>>) /\ exchanges' = <<Got, 0>>
      /\ UNCHANGED <<verdict, reply, taken, tls, saslconn, serverLayer, mech, sasl, serverin>>
  BY DEF ServerSaslStart, ServerGet, client, choice, saslState
<1> PICK w : w = First1
  OBVIOUS
<1> PICK c : c = Rest1
  OBVIOUS
<1> PICK s : s = Tail(steps)
  OBVIOUS
<1> PICK tk : tk = Both
  OBVIOUS
<1> PICK what : what = "mechanism"
  OBVIOUS
<1>1. /\ w.what = what /\ w.val = Got /\ ASequence(c) /\ ASequence(s)
      /\ Agreed /\ Under = Nil /\ taken = Both /\ TalkGot(tk, w, c, s)
  <2>1. ServerGet(what) /\ what \notin {"version", "choice", "veChoice"}
    BY <1>0
  <2> HIDE DEF Agreed
  <2> QED BY <2>1, StraightGets
<1>2. /\ tk # Nil /\ Calm /\ Exchanged /\ sasl.calls = 0 /\ serverin = 0
      /\ w = W("mechanism", mech) /\ c = SaslExchange(1) ++ Z /\ s = G("saslData") & Nil
  <2>2. w.what # "lengths" /\ w.what \notin Plainly /\ w.what # "saslData"
    BY <1>1 DEF Plainly
  <2> HIDE DEF Calm, Exchanged
  <2> QED BY <1>1, <2>2 DEF TalkGot
<1>3. exchanges' = Two(mech, 0)
  <2>1. W("mechanism", mech).val = mech
    BY Kinds
  <2>2. Got = mech
    BY <1>1, <1>2, <2>1
  <2> QED BY <1>0, <2>2 DEF Two
<1>4. steps' = s
  BY <1>0, <1>1, Empties DEF Then
<1>5. Talk(tk, c, s)'
  <2>1. Talk(tk, SaslExchange(1) ++ Z, G("saslData") & Nil)'
    <3> HIDE DEF Calm, Exchanged
    <3> QED BY <1>0, <1>2, <1>3, StartGot
  <2> QED BY <1>2, <2>1
<1> HIDE DEF Agreed
<1> QED BY <1>0, <1>1, <1>4, <1>5, StraightGot

LEMMA SaslDataGoes ==
  ASSUME Conv, ChoiceInv, outcome \in {"going", "ready"}, ServerSaslData
  PROVE  Conv'
<1>0. /\ ServerGet("saslData")
      /\ exchanges' = <<exchanges[1], exchanges[2] + 1>>
      /\ UNCHANGED <<verdict, reply, taken, tls, saslconn, serverLayer, mech, sasl, serverin>>
  BY DEF ServerSaslData, ServerGet, client, choice, saslState
<1> PICK w : w = First1
  OBVIOUS
<1> PICK c : c = Rest1
  OBVIOUS
<1> PICK s : s = Tail(steps)
  OBVIOUS
<1> PICK tk : tk = Both
  OBVIOUS
<1> PICK what : what = "saslData"
  OBVIOUS
<1>1. /\ w.op = "write" /\ w.what = what /\ w.val = Got /\ ASequence(c) /\ ASequence(s)
      /\ Agreed /\ Under = Nil /\ taken = Both /\ TalkGot(tk, w, c, s)
  <2>1. ServerGet(what) /\ what \notin {"version", "choice", "veChoice"}
    BY <1>0
  <2>2. w.op = "write"
    BY Kinds DEF First1
  <2> HIDE DEF Agreed
  <2> QED BY <2>1, <2>2, StraightGets
<1>2. tk # Nil /\ SaslWaits(w & c, G("saslData") & Nil) /\ s = Nil
  <2>1. w # W("mechanism", mech)
    <3>1. W("mechanism", mech).what = "mechanism"
      BY Kinds
    <3> QED BY <1>1, <3>1
  <2>2. w.what # "lengths" /\ w.what \notin Plainly /\ w.what = "saslData"
    BY <1>1 DEF Plainly
  <2> HIDE DEF Calm, Exchanged
  <2> QED BY <1>1, <2>1, <2>2 DEF TalkGot
<1>3. exchanges = Two(mech, sasl.calls)
  BY <1>2 DEF SaslWaits
<1>4. exchanges[1] = mech /\ exchanges[2] = sasl.calls /\ exchanges' = Two(mech, sasl.calls + 1)
  BY <1>0, <1>3, Ones DEF Two
<1>5. exchanges'[2] = sasl.calls + 1 /\ exchanges' = Two(exchanges[1], exchanges[2] + 1)
  BY <1>4, Ones
<1>6. PICK data \in IF NextMessage <= mech THEN {NextMessage, -1} ELSE {0} :
        Then(<<S("saslData", data), S("saslComplete", Through)>>
                 \o <<IF Through THEN D("saslVerdict") ELSE G("saslData")>>)
  BY <1>4, <1>5 DEF ServerSaslData, NextMessage, Through
<1> PICK x : x = IF Through THEN D("saslVerdict") ELSE G("saslData")
  OBVIOUS
<1> PICK b1 : b1 = S("saslData", data)
  OBVIOUS
<1> PICK b2 : b2 = S("saslComplete", Through)
  OBVIOUS
<1> PICK e : e = <<b1, b2>> ++ <<x>>
  OBVIOUS
<1>7. e = b1 & (b2 & (x & Nil)) /\ ASequence(e)
  <2>1. <<x>> = x & Nil /\ ASequence(x & Nil)
    BY Single, NilSequence, ConsSequence
  <2> PICK y : y = x & Nil
    OBVIOUS
  <2>2. e = <<b1, b2>> ++ y /\ ASequence(y)
    BY <2>1
  <2>3. <<b1, b2>> ++ y = b1 & (b2 & y) /\ ASequence(b1 & (b2 & y))
    BY ONLY <2>2, Tuple2
  <2> QED BY ONLY <2>2, <2>3, y = x & Nil
<1>8. steps' = e
  <2>1. Then(<<b1, b2>> \o <<x>>)
    BY <1>6
  <2>2. steps' = e \o Tail(steps)
    BY <2>1 DEF Then, ++
  <2> QED BY <1>1, <1>2, <1>7, <2>2, Empties DEF Nil
<1>9. Talk(tk, c, e)'
  <2>1. Talk(tk, c, S("saslData", data) & (S("saslComplete", Through) & (x & Nil)))'
    <3> HIDE DEF Calm, Exchanged, NextMessage, Through
    <3> QED BY <1>0, <1>1, <1>2, <1>5, DataGot
  <2>2. S("saslComplete", Through)' = b2
    <3>1. Through' <=> Through
      BY <1>0 DEF Through, NextMessage
    <3> QED BY <3>1 DEF S
  <2> QED BY <1>7, <2>1, <2>2
<1> HIDE DEF Agreed
<1> QED BY <1>0, <1>1, <1>7, <1>8, <1>9, StraightGot

-------------------------------------------------------------------------------
(* The server goes on with the type it has named itself.                    *)
LEMMA TalkDecision ==
  ASSUME NEW tk, NEW c, NEW r, NEW x, NEW d, Decision(r, x, d), Talk(tk, c, r ++ (x & d))
  PROVE  x = D(x.what)
<1>1. \/ x = D("close")
      \/ EarlyDecided(tk, c, r, x, d)
      \/ SaslDecided(c, r, x, d)
      \/ LeadDecided(tk, c, r, x, d)
      \/ LagDecided(tk, c, r, x, d)
  BY TalkDecides
<1>2. \A w : D(w).what = w
  BY Kinds
<1>3. ASSUME NEW c1, NEW r1, AllOp(r1, "send"), Opening(c1, r1 ++ (x & d))
      PROVE  x = D(x.what)
  <2>1. Decision(r1, x, d)
    BY <1>3 DEF Decision
  <2> QED BY <1>2, <1>3, <2>1, OpeningNot
<1>4. CASE EarlyDecided(tk, c, r, x, d)
  BY <1>2, <1>3, <1>4 DEF EarlyDecided
<1>5. CASE SaslDecided(c, r, x, d)
  BY <1>2, <1>5 DEF SaslDecided
<1>6. CASE LeadDecided(tk, c, r, x, d)
  BY <1>2, <1>3, <1>6 DEF LeadDecided, Decision
<1>7. CASE LagDecided(tk, c, r, x, d)
  BY <1>2, <1>7 DEF LagDecided
<1> QED BY <1>1, <1>2, <1>4, <1>5, <1>6, <1>7

LEMMA NamedOpens ==
  ASSUME Agreed, Fresh, scheme = NoType, NEW w, NEW tk, tk = One(w), NEW h, h = ServerHandler(w)
  PROVE  Early(tk, Handle(w) ++ Z, h)
<1>1. Calm
  BY DEF Calm, Fresh, layer
<1>2. ~SubAuth
  BY DEF SubAuth, NoType
<1>3. tk # Nil /\ (w = "TLS" => tk = OnlyTLS) /\ (w = "VeNCrypt" => tk = OnlyVe)
  BY Ones DEF OnlyTLS, OnlyVe
<1>4. Explains(version) <=> Minor = 8
  BY Explaining
<1> QED BY <1>1, <1>2, <1>3, <1>4, Opens

LEMMA WordGoes ==
  ASSUME Conv, ChoiceInv, outcome \in {"going", "ready"}, ServerWord
  PROVE  Conv'
<1>0. PICK word \in Words : ServerAt("chosen", word) /\ taken' = <<word>> /\ Then(ServerHandler(word))
  BY DEF ServerWord
<1>00. /\ ~closed /\ steps # Nil /\ steps[1].op = "chosen" /\ steps[1].what = word
       /\ AnswerTaken /\ UNCHANGED <<client, wire, closed>>
  BY <1>0 DEF ServerWord, ServerAt, Nil, client, AnswerTaken
<1> PICK x : x = steps[1]
  OBVIOUS
<1> PICK d : d = Tail(steps)
  OBVIOUS
<1> PICK r : r = Under
  OBVIOUS
<1>1. PICK p : /\ p = Written(toServer) /\ AllOp(p, "write") /\ AllOp(r, "send")
               /\ ASequence(d) /\ Talking(Side(p), r ++ (x & d))
  BY <1>00, ConvDecides
<1> PICK c : c = Side(p)
  OBVIOUS
<1> PICK tk : tk = One(word)
  OBVIOUS
<1> PICK e : e = ServerHandler(word)
  OBVIOUS
<1>2. Decision(r, x, d)
  BY <1>00, <1>1 DEF Decision
<1>3. taken' = tk
  BY <1>0 DEF One
<1>4. \/ Ends(c)
      \/ d = Nil /\ ByWord(c, r, x)
  <2>1. x # D("close") /\ x.op # "decide"
    BY <1>00, Kinds
  <2>2. ASSUME NEW tk1, NEW c2, NEW r2, AllOp(r2, "send"), Talk(tk1, c2, r2 ++ (x & d))
        PROVE  FALSE
    <3>1. Decision(r2, x, d)
      BY <1>2, <2>2 DEF Decision
    <3>2. x = D(x.what)
      BY <2>2, <3>1, TalkDecision
    <3> QED BY <2>1, <3>2, Kinds
  <2>3. Talking(c, r ++ (x & d))
    BY <1>1
  <2> QED BY ONLY <1>2, <2>1, <2>2, <2>3, TalkingDecides
<1>5. CASE Ends(c)
  <2> PICK e1 : e1 = steps'
    OBVIOUS
  <2>1. ASequence(e1)
    <3>1. WireInv'
      BY <1>0, ServerKeeps DEF ChoiceInv, ServerNext
    <3>2. Serves(e1)
      BY <3>1 DEF WireInv
    <3> QED BY <3>2 DEF Serves, ASequence
  <2> PICK o : o = r ++ e1
    OBVIOUS
  <2>2. Talking(c, o)'
    BY <1>5 DEF Talking, Ends
  <2> QED BY <1>00, <1>1, <2>1, <2>2, DecideThere
<1>6. CASE d = Nil /\ ByWord(c, r, x)
  <2>1. \A w : x = Chosen(w) => w = word
    BY <1>00, Kinds
  <2>2. Agreed /\ Fresh /\ taken = Nil /\ Firm /\ UNCHANGED verdict
    BY <1>00, <1>6, AnswerFacts DEF ByWord
  <2>3. Agreed'
    BY <1>00, <2>2, AnswerFacts
  <2> PICK h : h = Handle(word) ++ Z
    OBVIOUS
  <2> PICK o : o = r ++ e
    OBVIOUS
  <2>4. CASE scheme = NoType /\ ~Listed(version)
    <3>1. Early(tk, h, e)
      BY <2>2, <2>4, NamedOpens
    <3>2. ASequence(e)
      BY <3>1, EarlyFacts
    <3>3. Early(tk, h, e)'
      BY <2>2, <3>1, EarlyStays
    <3>4. WordServed(word, e)'
      <4>1. Talk(tk, h, e)'
        BY <3>3 DEF Talk
      <4>2. h = Handle(word)' ++ Z
        BY <1>00, AnswerFacts
      <4> QED BY <1>3, <4>1, <4>2 DEF WordServed
    <3>5. \/ c = R("word") & Z /\ r = S("word", word) & Nil
          \/ c = L("switch") & Z /\ picked = word /\ r = Nil
      BY <1>6, <2>1, <2>4 DEF ByWord
    <3>6. WordTalk(c, o)'
      <4>1. scheme' = NoType /\ ~Listed(version') /\ picked' = picked
        BY <1>00, <2>4 DEF AnswerTaken, choice
      <4>2. CASE c = R("word") & Z /\ r = S("word", word) & Nil
        <5>1. o = S("word", word) & e
          BY <3>2, <4>2, OneMore
        <5> QED BY <3>4, <4>1, <4>2, <5>1 DEF WordTalk
      <4>3. CASE c = L("switch") & Z /\ picked = word /\ r = Nil
        <5>1. o = e
          BY <3>2, <4>3, JoinNil
        <5> QED BY <3>4, <4>1, <4>3, <5>1 DEF WordTalk
      <4> QED BY <3>5, <4>2, <4>3
    <3>7. Talking(c, o)'
      BY <2>3, <3>6 DEF Talking
    <3>8. steps' = e
      BY <1>0, <1>6, <3>2, Empties DEF Then, Nil
    <3> QED BY <1>00, <1>1, <3>2, <3>7, <3>8, DecideThere
  <2>5. CASE ~(scheme = NoType /\ ~Listed(version))
    <3>1. /\ r = Nil /\ x = Chosen(Type) /\ scheme # NoType /\ sub = NoType
          /\ Early(Both, c, ServerHandler(Type))
      BY <1>6, <2>5 DEF ByWord
    <3>2. Type = word /\ Both = tk
      <4>1. Type = scheme /\ Both = One(scheme)
        BY <3>1 DEF Type, Both
      <4> QED BY <2>1, <3>1, <4>1
    <3>3. Early(tk, c, e)
      BY <3>1, <3>2
    <3>4. ASequence(e)
      BY <3>3, EarlyFacts
    <3>5. Early(tk, c, e)'
      BY <2>2, <3>3, EarlyStays
    <3>6. Straight(c, e)'
      <4>1. Talk(tk, c, e)'
        BY <3>5 DEF Talk
      <4>2. Both' = tk
        BY <1>00, <3>2, AnswerFacts
      <4> QED BY <1>3, <4>1, <4>2 DEF Straight
    <3>7. o = e
      BY <3>1, <3>4, JoinNil
    <3>8. Talking(c, o)'
      <4>1. Talking(c, e)'
        BY <2>3, <3>6 DEF Talking
      <4> QED BY <3>7, <4>1
    <3>9. steps' = e
      BY <1>0, <1>6, <3>4, Empties DEF Then, Nil
    <3> QED BY <1>00, <1>1, <3>4, <3>8, <3>9, DecideThere
  <2> QED BY <2>4, <2>5
<1> QED BY <1>4, <1>5, <1>6

-------------------------------------------------------------------------------
(* The server decides.                                                      *)
LEMMA DecisionIs ==
  ASSUME NEW c, NEW r, NEW x, NEW d, Decision(r, x, d), Talking(c, r ++ (x & d)),
         x.op = "decide", NEW w, x.what = w
  PROVE  Talking(c, r ++ (D(w) & d))
<1>1. CASE Ends(c)
  <2> PICK o : o = r ++ (D(w) & d)
    OBVIOUS
  <2>1. Talking(c, o)
    BY <1>1 DEF Talking
  <2> QED BY <2>1
<1>2. CASE x = D(w)
  BY <1>2
<1>3. CASE x # D(w) /\ ~Ends(c)
  <2>1. x # D("close")
    <3>1. D("close").what = "close"
      BY Kinds
    <3> QED BY <1>3, <3>1
  <2>2. ASSUME NEW tk, NEW c2, NEW r2, AllOp(r2, "send"), Talk(tk, c2, r2 ++ (x & d))
        PROVE  FALSE
    <3>1. Decision(r2, x, d)
      BY <2>2 DEF Decision
    <3>2. x = D(x.what)
      BY <2>2, <3>1, TalkDecision
    <3> QED BY <1>3, <3>2
  <2>3. ~ByWord(c, r, x)
    <3>1. \A v : Chosen(v).op = "chosen"
      BY Kinds
    <3> QED BY <3>1 DEF ByWord
  <2> QED BY <1>3, <2>1, <2>2, <2>3, TalkingDecides
<1> QED BY <1>1, <1>2, <1>3

LEMMA DecideGoes ==
  ASSUME Conv, ChoiceInv, outcome \in {"going", "ready"}, NEW w, w # "close", ServerAt("decide", w),
         UNCHANGED <<client, wire, closed, reply, taken>>,
         NEW e, ASequence(e), steps' = e, NEW d, d = Tail(steps),
         \A tk, c2, r2 : AllOp(r2, "send") /\ Talk(tk, c2, r2 ++ (D(w) & d)) /\ taken = tk => Talk(tk, c2, r2 ++ e)'
  PROVE  Conv'
<1>0. /\ ~closed /\ steps # Nil /\ steps[1].op = "decide" /\ steps[1].what = w
      /\ UNCHANGED <<client, wire, closed>> /\ UNCHANGED <<choice, reply, taken>>
  BY DEF ServerAt, Nil, client
<1> PICK x : x = steps[1]
  OBVIOUS
<1> PICK r : r = Under
  OBVIOUS
<1>1. PICK p : /\ p = Written(toServer) /\ AllOp(p, "write") /\ AllOp(r, "send")
               /\ ASequence(d) /\ Talking(Side(p), r ++ (x & d))
  BY <1>0, ConvDecides
<1> PICK c : c = Side(p)
  OBVIOUS
<1>2. Decision(r, x, d) /\ x.op = "decide" /\ x.what = w /\ Talking(c, r ++ (x & d))
  BY <1>0, <1>1 DEF Decision
<1>3. Talking(c, r ++ (D(w) & d))
  BY ONLY <1>2, DecisionIs
<1>4. Talking(c, r ++ e)'
  BY <1>0, <1>1, <1>3, DecisionGoesOn
<1> QED BY <1>0, <1>1, <1>4, DecideThere

LEMMA ExplainsGoes ==
  ASSUME Conv, ChoiceInv, outcome \in {"going", "ready"}, ServerExplains
  PROVE  Conv'
<1>0. PICK size \in Sizes : ServerAt("decide", "reason") /\ Instead(ServerReason(size))
  BY DEF ServerExplains
<1>1. Firm /\ UNCHANGED <<client, wire, closed, reply, taken>>
  BY DEF ServerExplains, client, Firm, choice, saslState
<1> PICK w : w = "reason"
  OBVIOUS
<1> PICK e : e = ServerReason(size)
  OBVIOUS
<1> PICK d : d = Tail(steps)
  OBVIOUS
<1>2. steps' = e /\ ASequence(e) /\ w # "close" /\ ServerAt("decide", w)
  BY <1>0, ServedScripts DEF Instead
<1>3. ASequence(d)
  BY <1>2, Sequences, Decompose DEF ServerAt, Nil
<1>4. ASSUME NEW tk, NEW c2, NEW r2, AllOp(r2, "send"), Talk(tk, c2, r2 ++ (D(w) & d))
      PROVE  Talk(tk, c2, r2 ++ e)'
  BY <1>1, <1>3, <1>4, Explained
<1> QED BY <1>1, <1>2, <1>4, DecideGoes

LEMMA VeAnswersGo ==
  ASSUME Conv, ChoiceInv, outcome \in {"going", "ready"}, ServerVeNCryptVersion
  PROVE  Conv'
<1>1. Firm /\ UNCHANGED <<client, wire, closed, reply, taken, verdict>>
  BY DEF ServerVeNCryptVersion, client, Firm, choice, saslState
<1> PICK d : d = Tail(steps)
  OBVIOUS
<1>2. PICK w, q : /\ ServerAt("decide", w) /\ Then(q) /\ ASequence(q)
                  /\ \/ w = "veAnnounce" /\ \E v \in VeVersions : q = ServerVeNCrypt(v)
                     \/ w = "veVersion" /\ VeAnswer(q)
  <2>1. CASE /\ ServerAt("decide", "veAnnounce")
             /\ \E v \in {<<0, 2>>, <<1, 1>>} : Then(ServerVeNCrypt(v))
    <3> PICK v \in VeVersions : Then(ServerVeNCrypt(v))
      BY <2>1 DEF VeVersions, Two
    <3>1. ASequence(ServerVeNCrypt(v))
      BY ServedScripts
    <3> QED BY <2>1, <3>1
  <2>2. CASE ServerAt("decide", "veVersion") /\ Then(<<S("veStatus", 1), D("close")>>)
    <3> PICK q : q = <<S("veStatus", 1), D("close")>>
      OBVIOUS
    <3>1. q = S("veStatus", 1) & (D("close") & Nil) /\ ASequence(q)
      BY NilSequence, Tuple2
    <3>2. VeAnswer(q)
      BY <3>1 DEF VeAnswer
    <3> QED BY <2>2, <3>1, <3>2
  <2>3. ASSUME NEW list \in VeNCryptLists, ServerAt("decide", "veVersion"),
               Then(<<S("veStatus", 0)>> \o
                     IF list = <<>> THEN <<S("veCount", 0), D("close")>>
                     ELSE ServerList("veCount", "veType", "veChoice", list))
        PROVE  \E w, q : /\ ServerAt("decide", w) /\ Then(q) /\ ASequence(q)
                         /\ \/ w = "veAnnounce" /\ \E v \in VeVersions : q = ServerVeNCrypt(v)
                            \/ w = "veVersion" /\ VeAnswer(q)
    <3> PICK l : l = IF list = <<>> THEN <<S("veCount", 0), D("close")>>
                     ELSE ServerList("veCount", "veType", "veChoice", list)
      OBVIOUS
    <3>1. VeOffer(l)
      <4>1. CASE list = Nil
        <5>1. l = S("veCount", 0) & (D("close") & Nil)
          BY <4>1, NilSequence, Tuple2 DEF Nil
        <5> QED BY <5>1 DEF VeOffer
      <4>2. CASE list # Nil
        <5>1. l = ServerList("veCount", "veType", "veChoice", list)
          BY <4>2 DEF Nil
        <5> QED BY <4>2, <5>1 DEF VeOffer
      <4> QED BY <4>1, <4>2
    <3>2. ASequence(l)
      BY <3>1, VeOfferFacts
    <3> PICK q : q = S("veStatus", 0) & l
      OBVIOUS
    <3>3. Then(q)
      <4>1. Then(<<S("veStatus", 0)>> \o l)
        BY <2>3
      <4> QED BY <4>1 DEF &
    <3>4. ASequence(q)
      BY <3>2, ConsSequence
    <3>5. VeAnswer(q)
      BY <3>1 DEF VeAnswer
    <3> QED BY <2>3, <3>3, <3>4, <3>5
  <2> QED BY <2>1, <2>2, <2>3 DEF ServerVeNCryptVersion
<1>3. w # "close" /\ ASequence(d)
  <2>1. steps # Nil
    BY <1>2 DEF ServerAt, Nil
  <2>2. w # "close"
    BY <1>2
  <2>3. ASequence(d)
    <3>1. ASequence(steps)
      BY Sequences
    <3>2. ASequence(Tail(steps))
      BY ONLY <2>1, <3>1, Decompose DEF Nil
    <3> QED BY <3>2
  <2> QED BY <2>2, <2>3
<1> PICK e : e = q ++ d
  OBVIOUS
<1>4. steps' = e /\ ASequence(e)
  BY <1>2, <1>3, JoinSequence DEF Then, ++
<1>5. ASSUME NEW tk, NEW c2, NEW r2, AllOp(r2, "send"), Talk(tk, c2, r2 ++ (D(w) & d))
      PROVE  Talk(tk, c2, r2 ++ e)'
  <2>1. Talk(tk, c2, r2 ++ q)' /\ d = Nil
    <3>1. /\ AllOp(r2, "send") /\ ASequence(d) /\ Talk(tk, c2, r2 ++ (D(w) & d)) /\ ASequence(q)
          /\ \/ w = "veAnnounce" /\ \E v \in VeVersions : q = ServerVeNCrypt(v)
             \/ w = "veVersion" /\ VeAnswer(q)
      BY <1>2, <1>3, <1>5
    <3>2. Firm /\ UNCHANGED verdict
      BY <1>1
    <3> QED BY ONLY <3>1, <3>2, VeGoesOn
  <2>2. e = q
    BY <1>2, <2>1, JoinNil
  <2> QED BY <2>1, <2>2
<1> QED BY <1>1, <1>2, <1>3, <1>4, <1>5, DecideGoes

LEMMA RestServed ==
  ASSUME ChoiceInv, NEW op, NEW what, ServerAt(op, what), NEW d, d = Tail(steps)
  PROVE  ASequence(d) /\ steps # Nil
<1>1. ASequence(steps) /\ steps # <<>>
  BY Sequences DEF ServerAt
<1> QED BY <1>1, Decompose DEF Nil

LEMMA TLSGoes ==
  ASSUME Conv, ChoiceInv, outcome \in {"going", "ready"}, ServerTLS
  PROVE  Conv'
<1>1. /\ ServerAt("decide", "tls") /\ serverLayer' = "tls"
      /\ UNCHANGED <<verdict, reply, mech, sasl, serverin, tls, saslconn>>
      /\ UNCHANGED <<client, wire, closed, reply, taken>>
  BY DEF ServerTLS, client, choice, saslState
<1> PICK w : w = "tls"
  OBVIOUS
<1> PICK e : e = steps'
  OBVIOUS
<1> PICK d : d = Tail(steps)
  OBVIOUS
<1>2. w # "close" /\ ServerAt("decide", w) /\ ASequence(d) /\ steps' = e
  BY <1>1, RestServed
<1>3. ASequence(e)
  <2>1. WireInv'
    BY ServerKeeps DEF ChoiceInv, ServerNext
  <2>2. Serves(e)
    BY <2>1 DEF WireInv
  <2> QED BY <2>2 DEF Serves, ASequence
<1>4. taken[1] = "VeNCrypt" => e = d
  BY <1>2, Empties DEF ServerTLS, Then
<1>5. taken[1] # "VeNCrypt" /\ d = Nil => Offer(e)
  <2> SUFFICES ASSUME taken[1] # "VeNCrypt", d = Nil
               PROVE  Offer(e)
    OBVIOUS
  <2>1. PICK list \in SubLists : Then(
            IF list = <<>> THEN <<S("count", 0), D("reason")>>
            ELSE ServerList("count", "type", "choice", list))
    BY DEF ServerTLS
  <2> PICK l : l = IF list = <<>> THEN <<S("count", 0), D("reason")>>
            ELSE ServerList("count", "type", "choice", list)
    OBVIOUS
  <2>2. Offer(l) /\ ASequence(l)
    BY OfferStarts
  <2>3. e = l
    <3>1. Then(l)
      BY <2>1
    <3>2. e = l ++ d
      BY <3>1 DEF Then, ++
    <3> QED BY <2>2, <3>2, JoinNil
  <2> QED BY <2>2, <2>3
<1>6. ASSUME NEW tk, NEW c2, NEW r2, AllOp(r2, "send"), Talk(tk, c2, r2 ++ (D(w) & d)), taken = tk
      PROVE  Talk(tk, c2, r2 ++ e)'
  <2>1. ViaVe(tk) => e = d
    BY <1>4, <1>6 DEF ViaVe
  <2>2. (tk = OnlyTLS /\ d = Nil) => Offer(e)
    <3>1. OnlyTLS[1] = "TLS"
      BY Ones DEF OnlyTLS
    <3> QED BY <1>5, <1>6, <3>1
  <2>3. Talk(tk, c2, r2 ++ (D("tls") & d)) /\ AllOp(r2, "send") /\ ASequence(d)
    BY <1>2, <1>6
  <2>4. UNCHANGED <<verdict, reply, mech, sasl, serverin, tls, saslconn>> /\ serverLayer' = "tls"
    BY <1>1
  <2> QED BY ONLY <2>1, <2>2, <2>3, <2>4, TlsUp
<1> QED BY <1>1, <1>2, <1>3, <1>6, DecideGoes

LEMMA SaslVerdictGoes ==
  ASSUME Conv, ChoiceInv, outcome \in {"going", "ready"}, ServerSaslVerdict
  PROVE  Conv'
<1>1. ServerAt("decide", "saslVerdict") /\ Firm /\ UNCHANGED <<client, wire, closed, reply, taken>>
  BY DEF ServerSaslVerdict, client, Firm, choice, saslState
<1> PICK w : w = "saslVerdict"
  OBVIOUS
<1> PICK d : d = Tail(steps)
  OBVIOUS
<1>2. w # "close" /\ ServerAt("decide", w) /\ ASequence(d)
  BY <1>1, RestServed
<1>3. PICK e : /\ steps' = e /\ ASequence(e)
               /\ \/ verdict' = "ok" /\ e = S("saslResult", "ok") & (D("saslLayer") & ServerJoin("fits"))
                  \/ e = S("saslResult", "failed") & (D("close") & Nil)
  <2> PICK j : j = ServerJoin("fits")
    OBVIOUS
  <2>0. ASequence(j)
    BY ServedScripts
  <2> PICK a : a = <<S("saslResult", "ok"), D("saslLayer")>> ++ j
    OBVIOUS
  <2> PICK b : b = <<S("saslResult", "failed"), D("close")>>
    OBVIOUS
  <2>1. \/ verdict' = "ok" /\ steps' = a
        \/ steps' = b
    BY DEF ServerSaslVerdict, Instead, ++
  <2>2. a = S("saslResult", "ok") & (D("saslLayer") & j) /\ ASequence(a)
    <3> PICK x1 : x1 = S("saslResult", "ok")
      OBVIOUS
    <3> PICK x2 : x2 = D("saslLayer")
      OBVIOUS
    <3>1. a = <<x1, x2>> ++ j
      OBVIOUS
    <3>2. <<x1, x2>> ++ j = x1 & (x2 & j) /\ ASequence(x1 & (x2 & j))
      BY ONLY <2>0, Tuple2
    <3>3. a = x1 & (x2 & j) /\ ASequence(a)
      BY <3>1, <3>2
    <3> QED BY <3>3
  <2>3. b = S("saslResult", "failed") & (D("close") & Nil) /\ ASequence(b)
    BY NilSequence, Tuple2
  <2> QED BY <2>1, <2>2, <2>3
<1>4. ASSUME NEW tk, NEW c2, NEW r2, AllOp(r2, "send"), Talk(tk, c2, r2 ++ (D(w) & d)), taken = tk
      PROVE  Talk(tk, c2, r2 ++ e)'
  <2>1. Talk(tk, c2, r2 ++ (D("saslVerdict") & d)) /\ AllOp(r2, "send") /\ ASequence(d) /\ Firm
    BY <1>1, <1>2, <1>4
  <2> QED BY ONLY <1>3, <2>1, SaslJudged
<1> QED BY <1>1, <1>2, <1>3, <1>4, DecideGoes

LEMMA SaslLayerGoes ==
  ASSUME Conv, ChoiceInv, tls \in BOOLEAN, outcome \in {"going", "ready"}, ServerSaslLayer
  PROVE  Conv'
<1>1. /\ ServerAt("decide", "saslLayer") /\ UNCHANGED <<client, wire, closed, reply, taken>>
      /\ UNCHANGED <<version, tls, saslconn, mech, sasl, serverin, complete, reply, exchanges, verdict>>
      /\ serverLayer' = IF serverLayer = "tls" THEN "tls" ELSE "sasl"
  BY DEF ServerSaslLayer, client, choice, saslState
<1> PICK w : w = "saslLayer"
  OBVIOUS
<1> PICK d : d = Tail(steps)
  OBVIOUS
<1>2. w # "close" /\ ServerAt("decide", w) /\ ASequence(d)
  BY <1>1, RestServed
<1>3. steps' = d
  BY <1>2, Empties DEF ServerSaslLayer, Then
<1>4. ASSUME NEW tk, NEW c2, NEW r2, AllOp(r2, "send"), Talk(tk, c2, r2 ++ (D(w) & d)), taken = tk
      PROVE  Talk(tk, c2, r2 ++ d)'
  <2>1. Talk(tk, c2, r2 ++ (D("saslLayer") & d)) /\ AllOp(r2, "send") /\ ASequence(d) /\ tls \in BOOLEAN
    BY <1>2, <1>4
  <2> QED BY ONLY <1>1, <2>1, SaslLayered
<1> QED BY <1>1, <1>2, <1>3, <1>4, DecideGoes

LEMMA Verdicts ==
  ASSUME Firm, ServerVerdict
  PROVE  \E e : /\ steps' = e /\ ASequence(e)
                /\ \/ ServerAt("decide", "verdict") /\ ResultOf(e)'
                   \/ /\ ServerAt("decide", "admit") /\ verdict' = "ok"
                      /\ \E size \in Sizes : e = ServerJoin(size)
<1>1. Minor' = Minor
  BY FirmFacts
<1>2. CASE verdict' = "ok" /\ \E size \in Sizes :
             Instead((IF steps[1].what = "admit" THEN <<>> ELSE <<S("result", "ok")>>) \o ServerJoin(size))
  <2> PICK size \in Sizes :
        Instead((IF steps[1].what = "admit" THEN <<>> ELSE <<S("result", "ok")>>) \o ServerJoin(size))
    BY <1>2
  <2> PICK j : j = ServerJoin(size)
    OBVIOUS
  <2>0. ASequence(j)
    BY ServedScripts
  <2>1. CASE ServerAt("decide", "admit")
    <3>1. steps' = <<>> ++ j
      <4>1. steps[1].what = "admit"
        BY <2>1 DEF ServerAt
      <4> QED BY <4>1 DEF Instead, ++
    <3>2. steps' = j
      BY <2>0, <3>1, JoinNil DEF Nil
    <3> QED BY <1>2, <2>0, <2>1, <3>2
  <2>2. CASE ServerAt("decide", "verdict")
    <3> PICK x : x = S("result", "ok")
      OBVIOUS
    <3> PICK e : e = x & j
      OBVIOUS
    <3>1. steps' = <<x>> ++ j
      <4>1. steps[1].what # "admit"
        BY <2>2 DEF ServerAt
      <4> QED BY <4>1 DEF Instead, ++
    <3>2. <<x>> ++ j = x & j /\ ASequence(x & j)
      BY ONLY <2>0, Tuple1
    <3>3. steps' = e /\ ASequence(e)
      BY <3>1, <3>2
    <3>4. verdict' = "ok" /\ e = S("result", "ok") & ServerJoin(size)
      BY <1>2
    <3>5. ResultOf(e)'
      BY <3>4 DEF ResultOf
    <3> QED BY <2>2, <3>3, <3>5
  <2> QED BY <2>1, <2>2 DEF ServerVerdict
<1>3. CASE /\ steps[1].what = "verdict"
           /\ Instead(<<S("result", "failed"), D(IF Minor = 8 THEN "reason" ELSE "close")>>)
  <2> PICK v : v = IF Minor = 8 THEN "reason" ELSE "close"
    OBVIOUS
  <2> PICK e : e = <<S("result", "failed"), D(v)>>
    OBVIOUS
  <2>1. steps' = e /\ ServerAt("decide", "verdict")
    <3>1. "verdict" # "admit" /\ steps' = e
      BY <1>3 DEF Instead
    <3>2. ServerAt("decide", "verdict")
      BY <1>3 DEF ServerVerdict, ServerAt
    <3> QED BY <3>1, <3>2
  <2>2. e = S("result", "failed") & (D(v) & Nil) /\ ASequence(e)
    BY NilSequence, Tuple2
  <2>3. ResultOf(e)'
    <3>1. CASE Minor = 8
      <4>1. Minor' = 8 /\ e = S("result", "failed") & (D("reason") & Nil)
        BY <1>1, <2>2, <3>1
      <4> QED BY <4>1 DEF ResultOf
    <3>2. CASE Minor # 8
      <4>1. Minor' # 8 /\ e = S("result", "failed") & (D("close") & Nil)
        BY <1>1, <2>2, <3>2
      <4> QED BY <4>1 DEF ResultOf
    <3> QED BY <3>1, <3>2
  <2> QED BY <2>1, <2>2, <2>3
<1>4. CASE steps[1].what = "verdict" /\ Instead(<<S("result", "tooMany"), D("close")>>)
  <2> PICK e : e = <<S("result", "tooMany"), D("close")>>
    OBVIOUS
  <2>1. steps' = e /\ ServerAt("decide", "verdict")
    BY <1>4 DEF ServerVerdict, ServerAt, Instead
  <2>2. e = S("result", "tooMany") & (D("close") & Nil) /\ ASequence(e)
    BY NilSequence, Tuple2
  <2>3. ResultOf(e)'
    BY <2>2 DEF ResultOf
  <2> QED BY <2>1, <2>2, <2>3
<1> QED BY <1>2, <1>3, <1>4 DEF ServerVerdict

LEMMA VerdictGoes ==
  ASSUME Conv, ChoiceInv, outcome \in {"going", "ready"}, ServerVerdict
  PROVE  Conv'
<1>1. Firm /\ UNCHANGED <<client, wire, closed, reply, taken>>
  BY DEF ServerVerdict, client, Firm, choice, saslState
<1> PICK d : d = Tail(steps)
  OBVIOUS
<1>2. PICK e : /\ steps' = e /\ ASequence(e)
               /\ \/ ServerAt("decide", "verdict") /\ ResultOf(e)'
                  \/ /\ ServerAt("decide", "admit") /\ verdict' = "ok"
                     /\ \E size \in Sizes : e = ServerJoin(size)
  BY ONLY <1>1, ServerVerdict, Verdicts
<1> HIDE DEF ResultOf
<1>3. CASE ServerAt("decide", "verdict") /\ ResultOf(e)'
  <2> PICK w : w = "verdict"
    OBVIOUS
  <2>1. w # "close" /\ ServerAt("decide", w) /\ ASequence(d)
    BY <1>3, RestServed
  <2>2. ASSUME NEW tk, NEW c2, NEW r2, AllOp(r2, "send"), Talk(tk, c2, r2 ++ (D(w) & d)), taken = tk
        PROVE  Talk(tk, c2, r2 ++ e)'
    <3>1. /\ Talk(tk, c2, r2 ++ (D("verdict") & d)) /\ AllOp(r2, "send") /\ ASequence(d) /\ Firm
          /\ ASequence(e) /\ ResultOf(e)'
      BY <1>1, <1>2, <1>3, <2>1, <2>2
    <3> QED BY ONLY <3>1, Judged
  <2> QED BY <1>1, <1>2, <2>1, <2>2, DecideGoes
<1>4. CASE /\ ServerAt("decide", "admit") /\ verdict' = "ok"
           /\ \E size \in Sizes : e = ServerJoin(size)
  <2> PICK size \in Sizes : e = ServerJoin(size)
    BY <1>4
  <2> PICK w : w = "admit"
    OBVIOUS
  <2>1. w # "close" /\ ServerAt("decide", w) /\ ASequence(d)
    BY <1>4, RestServed
  <2>2. ASSUME NEW tk, NEW c2, NEW r2, AllOp(r2, "send"), Talk(tk, c2, r2 ++ (D(w) & d)), taken = tk
        PROVE  Talk(tk, c2, r2 ++ e)'
    <3>1. /\ Talk(tk, c2, r2 ++ (D("admit") & d)) /\ AllOp(r2, "send") /\ ASequence(d) /\ Firm
          /\ verdict' = "ok"
      BY <1>1, <1>2, <1>4, <2>1, <2>2
    <3>2. Talk(tk, c2, r2 ++ ServerJoin(size))'
      BY ONLY <3>1, Admitted
    <3> QED BY <3>2
  <2> QED BY <1>1, <1>2, <2>1, <2>2, DecideGoes
<1> QED BY <1>2, <1>3, <1>4

-------------------------------------------------------------------------------
(* The conversation goes on, whoever makes a step. *)
LEMMA ServerTalks ==
  ASSUME Conv, ChoiceInv, tls \in BOOLEAN, ServerNext
  PROVE  Conv'
<1>1. outcome' = outcome
  BY ServerKeeps DEF ChoiceInv, client
<1>2. CASE outcome \notin {"going", "ready"}
  BY <1>1, <1>2, ConvOver
<1>3. CASE outcome \in {"going", "ready"}
  BY <1>3, SendMoves, DataGoes, VersionGoes, ChoiceGoes, WordGoes, ExplainsGoes, TLSGoes, VeAnswersGo,
     VeChoiceGoes, LengthsGo, VerdictGoes, SaslStartGoes, SaslDataGoes, SaslVerdictGoes,
     SaslLayerGoes, CloseMoves
     DEF ServerNext
<1> QED BY <1>2, <1>3

LEMMA ConvKeeps ==
  ASSUME Conv, ShapeInv, ChoiceInv, [Next]_vars,
         Fill => \A i \in 1 .. Len(toClient) : toClient[i].layer = layer,
         HandshakeTLS => inbox = Nil
  PROVE  Conv'
<1>1. tls \in BOOLEAN
  BY DEF ShapeInv
<1> QED BY <1>1, ClientTalks, ServerTalks, LossMoves, ConvRests DEF Next, Ended

-------------------------------------------------------------------------------
(* The layers.  While the handshake of TLS is under way, the server may     *)
(* have finished it first.                                                  *)
Ahead == serverLayer = "tls" /\ ~tls
AllOn(ms, on) == \A i \in 1 .. Len(ms) : ms[i].layer = on
(* A client that has ended does not care what it is sent.                   *)
Live == outcome \in {"going", "ready"} /\ (~Ends(todo) \/ toServer # Nil)
WrittenOn == ~closed => AllOn(toServer, layer)
SentOn ==
  IF Ahead THEN (~closed => toClient # Nil) /\ \A i \in 2 .. Len(toClient) : toClient[i].layer = "tls"
  ELSE AllOn(toClient, layer)
(* The client does not know yet that the mechanism's layer is on.           *)
GetsFirst ==
  (~closed /\ serverLayer = "sasl" /\ ~tls /\ ~saslconn) => steps # Nil /\ steps[1].op = "get"
Unread == Doing("tls") => inbox = Nil
LayerInv == Live => WrittenOn /\ SentOn /\ GetsFirst /\ Unread
(* No layer is on before a type is chosen; lists after TLS are read in it.  *)
NoneYet == scheme = NoType => ~tls /\ ~saslconn
InTLS ==
  (outcome = "going" /\ SubAuth) => tls \/ (todo # Nil /\ (todo[1] = L("tls") \/ todo[1] = F))
Upward == NoneYet /\ InTLS

(* How the two sides of a talk may differ.                                  *)
Apart(tk, s) ==
  /\ \/ tls /\ ~saslconn /\ (tk = OnlyTLS \/ ViaVe(tk))
     \/ ~tls /\ saslconn
  /\ serverLayer = "plain"
  /\ \E x, s1 : ASequence(s1) /\ s = x & s1 /\ x.op = "decide"

LEMMA TalkApart ==
  ASSUME NEW tk, NEW c, NEW s, Talk(tk, c, s)
  PROVE  \/ serverLayer = layer
         \/ Ahead /\ \E c1 : ASequence(c1) /\ c = F & c1
         \/ ~tls /\ ~saslconn /\ serverLayer = "sasl"
         \/ Apart(tk, s)
<1>1. ASSUME Early(tk, c, s) PROVE serverLayer = layer
  BY <1>1 DEF Early, Calm, Shake, Fresh, layer
<1>2. Joining(c, s) => serverLayer = layer
  BY DEF Joining
<1>3. ASSUME SaslTalk(c, s)
      PROVE  \/ serverLayer = layer \/ (~tls /\ ~saslconn /\ serverLayer = "sasl")
             \/ Apart(tk, s)
  <2>1. ASSUME NEW s1, SaslVerdict(s1) PROVE serverLayer = layer \/ (~tls /\ ~saslconn /\ serverLayer = "sasl")
    BY <2>1 DEF SaslVerdict, Calm, layer
  <2>2. ASSUME NEW s1, SaslGoesOn(s1) PROVE serverLayer = layer \/ (~tls /\ ~saslconn /\ serverLayer = "sasl")
    BY <2>1, <2>2 DEF SaslGoesOn, Calm
  <2>3. CASE SaslWaits(c, s)
    BY <2>3 DEF SaslWaits, Calm
  <2>4. CASE SaslReplied(c, s)
    BY <2>2, <2>4 DEF SaslReplied
  <2>5. CASE SaslHalf(c, s)
    BY <2>2, <2>5 DEF SaslHalf
  <2>6. CASE SaslAsks(c, s)
    BY <2>2, <2>6 DEF SaslAsks
  <2>7. CASE SaslClosing(c, s)
    BY <2>1, <2>7 DEF SaslClosing
  <2>8. CASE SaslSecured(c, s)
    <3>1. \E x, s1 : ASequence(s1) /\ s = x & s1 /\ x.op = "decide"
      BY <2>8, Kinds, ServedScripts DEF SaslSecured
    <3>2. tls => serverLayer = layer
      BY <2>8 DEF SaslSecured, layer
    <3>3. ~tls => saslconn /\ serverLayer = "plain"
      BY <2>8 DEF SaslSecured
    <3> QED BY <3>1, <3>2, <3>3 DEF Apart
  <2> QED BY <1>3, <2>3, <2>4, <2>5, <2>6, <2>7, <2>8 DEF SaslTalk
<1>4. ASSUME Lead(tk, c, s)
      PROVE  Ahead /\ \E c1 : ASequence(c1) /\ c = F & c1
  BY <1>4, InsideFacts DEF Lead, Ahead
<1>5. ASSUME Lag(tk, c, s) PROVE Apart(tk, s)
  <2>1. PICK s1 : Waiting(tk, c, s1) /\ s = D("tls") & s1
    BY <1>5 DEF Lag
  <2>2. ASequence(s1) /\ D("tls").op = "decide"
    BY <2>1, WaitingFacts, Kinds
  <2>3. tk = OnlyTLS \/ ViaVe(tk)
    BY <2>1 DEF Waiting
  <2>4. tls /\ ~saslconn /\ serverLayer = "plain"
    BY <1>5 DEF Lag
  <2> QED BY ONLY <2>1, <2>2, <2>3, <2>4 DEF Apart
<1> QED BY <1>1, <1>2, <1>3, <1>4, <1>5 DEF Talk

(* A server that has finished the handshake first is one whose client is    *)
(* still in it.                                                             *)
LEMMA TalkAhead ==
  ASSUME NEW tk, NEW c, NEW s, Talk(tk, c, s), Ahead
  PROVE  \E c1 : ASequence(c1) /\ c = F & c1
<1>1. serverLayer # layer /\ ~(~tls /\ ~saslconn /\ serverLayer = "sasl") /\ ~Apart(tk, s)
  BY DEF Ahead, layer, Apart
<1> QED BY <1>1, TalkApart

LEMMA HandleNotF ==
  ASSUME NEW w, NEW c1, ASequence(c1)
  PROVE  Handle(w) ++ Z # F & c1
<1>1. Shape(Handle(w) ++ Z)
  BY ShapeHandle, ShapeZ
<1>2. ASSUME Shape(F & c1) PROVE FALSE
  <2>1. Simple(F) \/ F = Ready
    BY <1>2, ShapeParts
  <2>2. F.op = "tls" /\ Ready.op = "ready"
    BY Lasts
  <2> QED BY <2>1, <2>2, SimpleSteps
<1> QED BY <1>1, <1>2

LEMMA AheadNotFresh == Ahead => ~Fresh /\ ~Calm /\ ~Quiet
  BY DEF Ahead, Fresh, Calm, layer, Quiet

LEMMA TalkingAhead ==
  ASSUME NEW c, NEW s, Talking(c, s), ~Ends(c), Ahead
  PROVE  \E c1 : ASequence(c1) /\ c = F & c1
<1>0. ~Fresh /\ ~Calm /\ ~Quiet
  BY AheadNotFresh
<1>1. ASSUME NEW tk, NEW w, NEW s1, Talk(tk, Handle(w) ++ Z, s1) PROVE FALSE
  BY <1>1, TalkAhead, HandleNotF
<1>2. ~Greeting(c, s)
  BY <1>0 DEF Greeting
<1>3. ~WordTalk(c, s)
  BY <1>0, <1>1 DEF WordTalk, WordServed
<1>4. ~Listing(c, s)
  BY <1>0, <1>1 DEF Listing, Unpicked, Picked, Heard
<1>5. ~VeListing(c, s)
  BY <1>0 DEF VeListing, VeChoosing
<1>6. ~Pending(c, s)
  BY <1>0 DEF Pending
<1>7. Straight(c, s)
  BY <1>2, <1>3, <1>4, <1>5, <1>6 DEF Talking
<1> QED BY <1>7, TalkAhead DEF Straight

LEMMA TypesInTLS ==
  ASSUME NEW p, AllOp(p, "write"), ASequence(todo), outcome \in {"going", "ready"}, InTLS, SubAuth,
         NEW B, NEW s, Types(B, Side(p), s)
  PROVE  tls
<1>1. ASSUME NEW a, a.op \notin {"read", "write"}, a # L("switch"), NEW t, ASequence(t), Side(p) = p ++ (a & t)
      PROVE  FALSE
  <2>1. Types(B, p ++ (a & t), s)
    BY <1>1
  <2> QED BY <1>1, <2>1, TypesDone
<1>2. CASE outcome = "ready"
  <2>1. Side(p) = p ++ (Ready & Nil)
    BY <1>2 DEF Side, Remaining
  <2>2. Ready.op = "ready" /\ Ready # L("switch")
    BY Lasts, Kinds
  <2> QED BY <1>1, <2>1, <2>2, NilSequence
<1>3. CASE outcome = "going" /\ ~tls
  <2>1. todo # Nil /\ (todo[1] = L("tls") \/ todo[1] = F)
    BY <1>3 DEF InTLS
  <2>2. todo = todo[1] & Tail(todo) /\ ASequence(Tail(todo))
    BY <2>1, Decompose DEF Nil
  <2>3. Side(p) = p ++ (todo[1] & Tail(todo))
    BY <1>3, <2>2 DEF Side, Remaining
  <2>4. todo[1].op \notin {"read", "write"} /\ todo[1] # L("switch")
    <3>1. L("tls").op = "local" /\ L("tls").what = "tls" /\ L("switch").what = "switch" /\ L("switch").op = "local"
      BY Kinds
    <3>2. F.op = "tls"
      BY Lasts
    <3> QED BY <2>1, <3>1, <3>2
  <2> QED BY <1>1, <2>2, <2>3, <2>4
<1> QED BY <1>2, <1>3

(* What the server sends is on the layer that the client reads it with, or  *)
(* will read it with once the handshake is done.                            *)
LEMMA SendsOn ==
  ASSUME NEW p, AllOp(p, "write"), ASequence(todo), outcome \in {"going", "ready"}, InTLS, NoneYet,
         NEW c, c = Side(p), ~Ends(c), NEW r, AllOp(r, "send"), NEW b, b.op = "send",
         NEW d, ASequence(d), Talking(c, r ++ (b & d)),
         ~(~tls /\ ~saslconn /\ serverLayer = "sasl")
  PROVE  serverLayer = layer \/ Ahead
<1> PICK s : s = r ++ (b & d)
  OBVIOUS
<1>1. Fresh \/ Calm \/ Quiet => serverLayer = layer
  BY DEF Fresh, Calm, Quiet, layer
<1>2. CASE Greeting(c, s)
  BY <1>1, <1>2 DEF Greeting
<1>3. CASE WordTalk(c, s)
  <2>1. ~tls /\ ~saslconn
    BY <1>3 DEF WordTalk, NoneYet
  <2>2. ASSUME NEW tk, NEW c2, NEW s2, Talk(tk, c2, s2) PROVE serverLayer = layer \/ Ahead
    <3>1. ~Apart(tk, s2)
      BY <2>1 DEF Apart
    <3> QED BY <2>2, <3>1, TalkApart
  <2> QED BY <1>1, <1>3, <2>2 DEF WordTalk, WordServed
<1>4. CASE Listing(c, s)
  <2>1. CASE Unpicked(c, s) \/ Picked(c, s)
    BY <1>1, <2>1 DEF Unpicked, Picked
  <2>2. CASE Heard(c, s)
    <3>1. PICK B : Types(B, c, s) /\ Talk(taken, Handle(picked) ++ Z, B)
      BY <2>2 DEF Heard
    <3>2. ~Apart(taken, B)
      <4>1. CASE scheme = NoType
        BY <4>1 DEF NoneYet, Apart
      <4>2. CASE scheme # NoType
        <5>1. SubAuth
          BY <1>4, <4>2 DEF Listing, Choosing
        <5>2. tls
          BY <3>1, <5>1, TypesInTLS
        <5>3. taken = Two("TLS", picked)
          <6>1. Before = One("TLS")
            BY <5>1, <4>2 DEF Before, SubAuth
          <6> QED BY <2>2, <6>1, Ones DEF Heard, Added
        <5>4. taken # OnlyTLS /\ ~ViaVe(taken)
          BY <5>3, Ones DEF OnlyTLS, ViaVe
        <5> QED BY <5>2, <5>4 DEF Apart
      <4> QED BY <4>1, <4>2
    <3> QED BY <3>1, <3>2, TalkApart
  <2> QED BY <1>4, <2>1, <2>2 DEF Listing
<1>5. CASE VeListing(c, s)
  BY <1>1, <1>5 DEF VeListing, VeChoosing
<1>6. CASE Pending(c, s)
  BY <1>1, <1>6 DEF Pending
<1>7. CASE Straight(c, s)
  <2>1. ASSUME Apart(Both, s) PROVE FALSE
    <3>1. PICK x, s1 : ASequence(s1) /\ s = x & s1 /\ x.op = "decide"
      BY <2>1 DEF Apart
    <3>2. r ++ (b & d) = x & s1
      BY <3>1
    <3>3. x.op = "send"
      <4>1. CASE r = Nil
        <5>1. Nil ++ (b & d) = b & d
          BY ConsSequence, JoinNil
        <5>2. b & d = x & s1
          BY <3>2, <4>1, <5>1
        <5> QED BY <3>1, <5>2, ConsEqual
      <4>2. CASE r # Nil
        <5>1. ASequence(b & d) /\ ~(r = Nil /\ b & d = x & s1)
          BY <4>2, ConsSequence
        <5> QED BY <3>1, <3>2, <5>1, Peel
      <4> QED BY <4>1, <4>2
    <3> QED BY <3>1, <3>3
  <2> QED BY <1>7, <2>1, TalkApart DEF Straight
<1> QED BY <1>2, <1>3, <1>4, <1>5, <1>6, <1>7 DEF Talking

-------------------------------------------------------------------------------
(* What a step of the client leaves alone. *)
Still == UNCHANGED <<tls, saslconn, toClient>>
Puts == UNCHANGED toServer \/ \E what, val : Put(what, val)
Busy == outcome = "going" /\ todo # Nil /\ todo[1].op # "stop"

LEMMA ClientLeaves ==
  ASSUME ClientNext
  PROVE  /\ UNCHANGED <<closed, serverLayer, steps>> /\ Puts
         /\ Fill \/ HandshakeTLS \/ ReadSaslResult \/ Still
         /\ Stop \/ Busy
<1> DEFINE Goal == /\ UNCHANGED <<closed, serverLayer, steps>> /\ Puts
                   /\ Fill \/ HandshakeTLS \/ ReadSaslResult \/ Still
                   /\ Stop \/ Busy
<1> USE DEF Puts, Still, Busy, At, Doing, Nil, wire, server
<1>1. CASE Fill
  BY <1>1 DEF Fill
<1>2. CASE ReadFails \/ WriteFails \/ HandshakeTLSFails
  BY <1>2 DEF ReadFails, WriteFails, HandshakeTLSFails
<1>3. CASE Write
  BY <1>3 DEF Write
<1>4. CASE Stop
  BY <1>4 DEF Stop
<1>5. CASE ReadData
  BY <1>5 DEF ReadData, Take
<1>6. CASE ReadVersion
  BY <1>6 DEF ReadVersion, Take
<1>7. CASE ReadWord
  BY <1>7 DEF ReadWord, Take
<1>8. CASE ReadCount
  BY <1>8 DEF ReadCount, Take
<1>9. CASE ReadType
  BY <1>9 DEF ReadType
<1>10. CASE Switch
  BY <1>10 DEF Switch
<1>11. CASE AuthResult
  BY <1>11 DEF AuthResult, Take
<1>12. CASE Local
  BY <1>12 DEF Local
<1>13. CASE GetPassword \/ GetCredential \/ GetPlainCredential
  BY <1>13 DEF GetPassword, GetCredential, GetPlainCredential
<1>14. CASE InitializeTLSSession
  BY <1>14 DEF InitializeTLSSession
<1>15. CASE HandshakeTLS
  BY <1>15 DEF HandshakeTLS
<1>16. CASE ReadVeNCryptVersion \/ ReadVeNCryptStatus \/ ReadVeNCryptCount
  BY <1>16 DEF ReadVeNCryptVersion, ReadVeNCryptStatus, ReadVeNCryptCount, Take
<1>17. CASE ReadVeNCryptType
  BY <1>17 DEF ReadVeNCryptType
<1>18. CASE VeNCryptChosen
  BY <1>18 DEF VeNCryptChosen
<1>19. CASE ReadVeNCryptAccepted
  BY <1>19 DEF ReadVeNCryptAccepted, Take
<1>20. CASE SaslStart
  BY <1>20 DEF SaslStart
<1>21. CASE ReadSaslData \/ ReadSaslComplete
  BY <1>21 DEF ReadSaslData, ReadSaslComplete, Take
<1>22. CASE SaslStep
  BY <1>22 DEF SaslStep
<1>23. CASE SaslStrength
  BY <1>23 DEF SaslStrength
<1>24. CASE ReadSaslResult
  BY <1>24 DEF ReadSaslResult, Take
<1>25. CASE SetUpDone
  BY <1>25 DEF SetUpDone
<1> HIDE DEF Goal
<1> QED BY <1>1, <1>2, <1>3, <1>4, <1>5, <1>6, <1>7, <1>8, <1>9, <1>10, <1>11, <1>12, <1>13, <1>14,
          <1>15, <1>16, <1>17, <1>18, <1>19, <1>20, <1>21, <1>22, <1>23, <1>24, <1>25
          DEF ClientNext, Goal

(* A client that goes on has not ended. *)
LEMMA StopEnds ==
  ASSUME ChoiceInv, Stop
  PROVE  outcome' \notin {"going", "ready"}
<1>1. TodoInv /\ todo # <<>> /\ todo[1].op = "stop"
  BY DEF ChoiceInv, Stop, Doing
<1>2. todo[1].what \in {"refused", "unknown"}
  BY <1>1, FirstFits DEF Fits, Proper
<1>3. outcome' = todo[1].what
  BY DEF Stop, Fail
<1> QED BY <1>2, <1>3

LEMMA BusyGoesOn ==
  ASSUME Busy
  PROVE  outcome = "going" /\ ~Ends(todo) /\ Live
<1>1. ASSUME Ends(todo) PROVE FALSE
  <2>1. todo[1].op = "stop"
    BY <1>1, EndsFacts
  <2> QED BY <2>1 DEF Busy
<1> QED BY <1>1 DEF Live, Busy

LEMMA LiveBefore ==
  ASSUME ChoiceInv, [Next]_vars, Live'
  PROVE  Live
<1>1. CASE ClientNext
  <2>1. ~Stop
    BY StopEnds DEF Live
  <2> QED BY <1>1, <2>1, ClientLeaves, BusyGoesOn
<1>2. CASE ServerNext
  <2>1. UNCHANGED client
    BY <1>2, ServerKeeps DEF ChoiceInv
  <2>2. outcome' = outcome /\ todo' = todo
    BY <2>1 DEF client
  <2>3. toServer' # Nil => toServer # Nil
    BY <1>2 DEF ServerNext, ServerSend, ServerData, ServerVersion, ServerChoice, ServerWord, ServerExplains,
      ServerTLS, ServerVeNCryptVersion, ServerVeNCryptChoice, ServerPlainLengths, ServerVerdict, ServerSaslStart,
      ServerSaslData, ServerSaslVerdict, ServerSaslLayer, ServerClose, ServerGet, wire, Nil
  <2> QED BY <2>2, <2>3 DEF Live, Ends
<1>3. CASE ConnectionLost
  BY <1>3 DEF ConnectionLost, client, Live, Ends, Nil
<1>4. CASE UNCHANGED vars
  BY <1>4 DEF vars, client, wire, Live, Ends
<1> QED BY <1>1, <1>2, <1>3, <1>4 DEF Next, Ended

LEMMA SideEnds ==
  ASSUME ChoiceInv, outcome \in {"going", "ready"}, NEW p, AllOp(p, "write"), p = Nil => ~Ends(todo)
  PROVE  ~Ends(Side(p))
<1> PICK q : q = Remaining
  OBVIOUS
<1>0. ASequence(q)
  BY RemainingFacts
<1>1. CASE p = Nil
  <2>1. Side(p) = q
    BY <1>0, <1>1, JoinNil DEF Side
  <2>2. CASE outcome = "ready"
    <3>1. q = Ready & Nil
      BY <2>2 DEF Remaining
    <3>2. q[1] = Ready
      BY <3>1, NilSequence, ConsFacts
    <3>3. q[1].op # "stop"
      BY <3>2, Lasts
    <3> QED BY <2>1, <3>3, EndsFacts
  <2>3. CASE outcome = "going"
    <3>1. q = todo
      BY <2>3 DEF Remaining
    <3> QED BY <1>1, <2>1, <3>1
  <2> QED BY <2>2, <2>3
<1>2. CASE p # Nil
  <2>1. PICK a, p1 : AllOp(p1, "write") /\ a.op = "write" /\ p = a & p1
    BY <1>2, AllOpCases
  <2>2. ASequence(p1) /\ ASequence(p1 ++ q)
    BY <1>0, <2>1, AllOpSequence, JoinSequence
  <2>3. Side(p) = a & (p1 ++ q)
    BY <1>0, <2>1, <2>2, JoinCons DEF Side
  <2>4. Side(p)[1] = a
    BY <2>2, <2>3, ConsFacts
  <2>5. Side(p)[1].op # "stop"
    BY <2>1, <2>4
  <2> QED BY <2>5, EndsFacts
<1> QED BY <1>1, <1>2

(* On a connection that is not lost, the two talk.                          *)
LEMMA LiveTalks ==
  ASSUME Conv, ChoiceInv, Live, ~closed, NEW p, p = Written(toServer), NEW c, c = Side(p), NEW d, d = steps
  PROVE  AllOp(p, "write") /\ Talking(c, Other(d)) /\ ~Ends(c) /\ ASequence(d)
<1>1. PICK p1, d1 : Ghost(p1, d1) /\ Talking(Side(p1), Other(d1))
  BY DEF Conv, Live
<1>2. p1 = p /\ d1 = d /\ AllOp(p, "write") /\ ASequence(d)
  BY <1>1 DEF Ghost
<1>3. p = Nil => ~Ends(todo)
  <2> SUFFICES ASSUME p = Nil, toServer # Nil PROVE FALSE
    BY DEF Live
  <2>1. ASequence(toServer)
    BY Sequences
  <2>2. p # Nil
    <3> PICK x : x = W(toServer[1].what, toServer[1].val)
      OBVIOUS
    <3> PICK y : y = Written(Tail(toServer))
      OBVIOUS
    <3>1. p = x & y
      BY <2>1, WrittenEnds
    <3>2. ASequence(y)
      BY <2>1, Decompose, WrittenFacts DEF Nil
    <3> QED BY <3>1, <3>2, ConsNotNil
  <2> QED BY <2>2
<1>4. ~Ends(Side(p))
  BY <1>2, <1>3, SideEnds DEF Live
<1> QED BY <1>1, <1>2, <1>4

LEMMA WrittenNil ==
  ASSUME ASequence(toServer), Written(toServer) = Nil
  PROVE  toServer = Nil
<1> SUFFICES ASSUME toServer # Nil PROVE FALSE
  OBVIOUS
<1>1. ASequence(Nil) /\ Len(Nil) = 0
  BY EmptySequence DEF Nil
<1>2. Len(toServer) = 0
  BY <1>1, WrittenFacts
<1>3. Len(toServer) \in Nat \ {0}
  BY Decompose DEF Nil
<1> QED BY <1>2, <1>3

LEMMA AllOnNil ==
  ASSUME NEW on
  PROVE  AllOn(Nil, on)
<1>1. Len(Nil) = 0
  BY EmptySequence DEF Nil
<1> QED BY <1>1 DEF AllOn

LEMMA AllOnRest ==
  ASSUME NEW ms, ASequence(ms), ms # Nil, NEW on, AllOn(ms, on)
  PROVE  AllOn(Tail(ms), on)
<1> PICK m : m = Tail(ms)
  OBVIOUS
<1>1. /\ Len(ms) \in Nat \ {0} /\ Len(m) = Len(ms) - 1
      /\ \A i \in 1 .. Len(ms) - 1 : m[i] = ms[i + 1]
  BY Rests DEF Nil
<1>2. AllOn(m, on)
  BY <1>1 DEF AllOn
<1> QED BY <1>2

LEMMA AllOnMore ==
  ASSUME NEW ms, ASequence(ms), NEW on, AllOn(ms, on), NEW m, m.layer = on
  PROVE  AllOn(Append(ms, m), on)
<1> PICK n : n = Append(ms, m)
  OBVIOUS
<1>1. /\ Len(n) = Len(ms) + 1 /\ n[Len(ms) + 1] = m
      /\ \A i \in 1 .. Len(ms) : n[i] = ms[i]
  BY Appends
<1>2. Len(ms) \in Nat
  BY Concats
<1>3. AllOn(n, on)
  BY <1>1, <1>2 DEF AllOn
<1> QED BY <1>3

LEMMA AllOnPart ==
  ASSUME NEW ms, ASequence(ms), NEW on, AllOn(ms, on), NEW m \in 1 .. Len(ms) + 1, NEW n \in 0 .. Len(ms)
  PROVE  AllOn(SubSeq(ms, m, n), on)
<1>1. Len(ms) \in Nat
  BY Concats
<1>2. PICK E : ms \in Seq(E)
  BY DEF ASequence
<1> PICK q : q = SubSeq(ms, m, n)
  OBVIOUS
<1>3. /\ Len(q) = IF m <= n THEN n - m + 1 ELSE 0
      /\ \A i \in 1 .. Len(q) : q[i] = ms[m + i - 1]
  BY <1>1, <1>2
<1>4. AllOn(q, on)
  BY <1>1, <1>3 DEF AllOn
<1> QED BY <1>4

LEMMA PutsOn ==
  ASSUME ASequence(toServer), WrittenOn, Puts, UNCHANGED <<closed, layer>>
  PROVE  WrittenOn'
<1>1. CASE UNCHANGED toServer
  BY <1>1 DEF WrittenOn, AllOn
<1>2. CASE \E what, val : Put(what, val)
  <2>1. PICK what, val : Put(what, val)
    BY <1>2
  <2> SUFFICES ASSUME ~closed PROVE AllOn(toServer', layer')
    BY DEF WrittenOn, AllOn
  <2> PICK m : m = [what |-> what, val |-> val, layer |-> layer]
    OBVIOUS
  <2>2. toServer' = Append(toServer, m) /\ m.layer = layer
    BY <2>1 DEF Put
  <2>3. AllOn(Append(toServer, m), layer)
    BY <2>2, AllOnMore DEF WrittenOn
  <2> QED BY <2>2, <2>3
<1> QED BY <1>1, <1>2 DEF Puts

LEMMA SentNil ==
  ASSUME NEW ms, ASequence(ms), Sent(ms) = Nil
  PROVE  ms = Nil
<1> SUFFICES ASSUME ms # Nil PROVE FALSE
  OBVIOUS
<1>1. ASequence(Nil) /\ Len(Nil) = 0
  BY EmptySequence DEF Nil
<1>2. Len(ms) = 0
  BY <1>1, SentFacts
<1>3. Len(ms) \in Nat \ {0}
  BY Decompose DEF Nil
<1> QED BY <1>2, <1>3

LEMMA NothingSent ==
  ASSUME NEW u, AllOp(u, "send"), NEW d, ASequence(d), NEW x, x.op # "send", NEW s1, ASequence(s1),
         u ++ d = x & s1
  PROVE  u = Nil
<1> QED BY Peel

LEMMA JoinNilBoth ==
  ASSUME NEW p, ASequence(p), NEW q, ASequence(q), p ++ q = Nil
  PROVE  p = Nil /\ q = Nil
<1>1. CASE p = Nil
  BY <1>1, JoinNil
<1>2. CASE p # Nil
  <2>1. PICK a, p1 : ASequence(p1) /\ p = a & p1
    BY <1>2, ConsOrNil
  <2>2. ASequence(p1 ++ q) /\ p ++ q = a & (p1 ++ q)
    BY <2>1, JoinCons, JoinSequence
  <2> QED BY <2>2, ConsNotNil
<1> QED BY <1>1, <1>2

(* The client finishes the handshake: it has written nothing that the       *)
(* server has not got, and what it has been sent since is inside TLS.       *)
LEMMA HandshakeFacts ==
  ASSUME Conv, ShapeInv, ChoiceInv, LayerInv, HandshakeTLS
  PROVE  inbox = Nil /\ (~closed => toServer = Nil) /\ scheme # NoType /\ AllOn(Tail(toClient), "tls")
<1>0. Doing("tls") /\ toClient # Nil /\ Busy
  BY DEF HandshakeTLS, Doing, Nil, Busy
<1>1. inbox = Nil /\ SentOn
  BY <1>0, BusyGoesOn DEF LayerInv, Unread
<1> PICK t : t = Tail(todo)
  OBVIOUS
<1> PICK m : m = Tail(toClient)
  OBVIOUS
<1> PICK b : b = S(toClient[1].what, toClient[1].val)
  OBVIOUS
<1>2. ASequence(t) /\ ASequence(m) /\ b.op = "send"
  BY <1>0, <1>1, ConvTls
<1>3. PICK p, d : /\ Ghost(p, d) /\ AllOp(p, "write") /\ ASequence(d) /\ ASequence(Sent(m) ++ d)
                  /\ Talking(p ++ (F & t), b & (Sent(m) ++ d))
  BY <1>0, <1>1, ConvTls
<1> PICK s : s = Sent(m) ++ d
  OBVIOUS
<1> PICK tk : tk = Both
  OBVIOUS
<1>4. p = Nil /\ Talk(tk, F & t, b & s)
  <2>1. AllOp(p, "write") /\ ASequence(s) /\ Talking(p ++ (F & t), b & s)
    BY <1>3
  <2> HIDE DEF Agreed
  <2> QED BY <1>2, <2>1, TalkingTls
<1>5. /\ tk # Nil
      /\ \/ Fresh /\ \E s1 : Waiting(tk, t, s1) /\ s = D("tls") & s1
         \/ ~tls /\ ~saslconn /\ serverLayer = "tls" /\ Inside(tk, t, s)
  <2>1. AllOp(p, "write") /\ ASequence(s) /\ p ++ (F & t) = F & t
    <3>1. ASequence(F & t)
      BY <1>2, ConsSequence
    <3>2. Nil ++ (F & t) = F & t
      BY <3>1, JoinNil
    <3> QED BY <1>3, <1>4, <3>2
  <2>2. Talk(tk, p ++ (F & t), b & s)
    BY <1>4, <2>1
  <2> QED BY <1>2, <2>1, <2>2, TalkTls
<1>6. ~closed => toServer = Nil
  BY <1>3, <1>4, Sequences, WrittenNil DEF Ghost
<1>7. scheme # NoType
  BY <1>5 DEF Both
<1>8. AllOn(m, "tls")
  <2>1. CASE \E s1 : Waiting(tk, t, s1) /\ s = D("tls") & s1
    <3>1. PICK s1 : ASequence(s1) /\ s = D("tls") & s1
      BY <2>1, WaitingFacts
    <3>2. AllOp(Sent(m), "send") /\ D("tls").op # "send"
      BY <1>2, SentFacts, Kinds
    <3>3. Sent(m) = Nil
      BY <1>3, <3>1, <3>2, NothingSent
    <3> QED BY <1>2, <3>3, SentNil, AllOnNil
  <2>2. CASE ~tls /\ serverLayer = "tls"
    <3>1. \A i \in 2 .. Len(toClient) : toClient[i].layer = "tls"
      BY <1>1, <2>2 DEF SentOn, Ahead
    <3>2. /\ Len(toClient) \in Nat \ {0} /\ Len(m) = Len(toClient) - 1
          /\ \A i \in 1 .. Len(toClient) - 1 : m[i] = toClient[i + 1]
      BY <1>0, Sequences, Rests DEF Nil
    <3> QED BY <3>1, <3>2 DEF AllOn
  <2> QED BY <1>5, <2>1, <2>2
<1> QED BY <1>1, <1>6, <1>7, <1>8

LEMMA VerdictSent ==
  ASSUME NEW b, b.op = "send", NEW s, ASequence(s), SaslVerdict(b & s)
  PROVE  ~Ahead /\ \E x, s1 : ASequence(s1) /\ s = x & s1 /\ x.op # "send"
<1>1. ~Ahead
  BY DEF SaslVerdict, Calm, Ahead, layer
<1>2. ASSUME NEW y, NEW x, NEW s1, ASequence(s1), b & s = y & (x & s1), x.op # "send"
      PROVE  \E x2, s2 : ASequence(s2) /\ s = x2 & s2 /\ x2.op # "send"
  <2>1. ASequence(x & s1)
    BY <1>2, ConsSequence
  <2> QED BY <1>2, <2>1, ConsEqual
<1>3. b & s # D("saslVerdict") & Nil
  BY NilSequence, ConsEqual, Kinds
<1>4. ASSUME b & s = S("saslResult", "ok") & (D("saslLayer") & ServerJoin("fits"))
      PROVE  \E x, s1 : ASequence(s1) /\ s = x & s1 /\ x.op # "send"
  <2>1. D("saslLayer").op # "send" /\ ASequence(ServerJoin("fits"))
    BY Kinds, ServedScripts
  <2> QED BY <1>2, <1>4, <2>1
<1>5. ASSUME b & s = S("saslResult", "ok") & ServerJoin("fits")
      PROVE  \E x, s1 : ASequence(s1) /\ s = x & s1 /\ x.op # "send"
  <2> PICK j : j = ServerJoin("fits")
    OBVIOUS
  <2>1. ASequence(j) /\ j # Nil /\ j[1] = G("clientInit")
    BY ServedScripts, JoinFacts
  <2>2. j = j[1] & Tail(j) /\ ASequence(Tail(j))
    BY <2>1, Decompose DEF Nil
  <2>3. j[1].op # "send"
    BY <2>1, Kinds
  <2> QED BY <1>2, <1>5, <2>2, <2>3
<1>6. ASSUME b & s = S("saslResult", "failed") & (D("close") & Nil)
      PROVE  \E x, s1 : ASequence(s1) /\ s = x & s1 /\ x.op # "send"
  <2>1. D("close").op # "send" /\ ASequence(Nil)
    BY Kinds, NilSequence
  <2> QED BY <1>2, <1>6, <2>1
<1> QED BY <1>1, <1>3, <1>4, <1>5, <1>6 DEF SaslVerdict

(* The client reads the result of SASL: nothing is under way.               *)
LEMMA ResultLast ==
  ASSUME Conv, ShapeInv, ChoiceInv, ReadSaslResult
  PROVE  (~closed => toServer = Nil) /\ toClient = Nil /\ scheme # NoType /\ ~Ahead
<1> PICK w : w = "saslResult"
  OBVIOUS
<1> PICK t : t = Tail(todo)
  OBVIOUS
<1> PICK b : b = Next1
  OBVIOUS
<1>1. At("read", w) /\ inbox # Nil
  BY DEF ReadSaslResult, Take, Nil
<1>2. w \notin Elsewhere /\ w \notin Data \cup Lengths
  BY DEF Elsewhere, Data, Lengths
<1>3. b.op = "send" /\ \E d : Ghost(Nil, d) /\ ASequence(Later(d)) /\ TalkRead(Both, w, t, b, Later(d))
  <2> HIDE DEF Agreed, TalkRead, Elsewhere
  <2> QED BY <1>1, <1>2, ReadCases
<1>4. PICK d : Ghost(Nil, d) /\ ASequence(Later(d)) /\ TalkRead(Both, w, t, b, Later(d))
  BY <1>3
<1> PICK s : s = Later(d)
  OBVIOUS
<1>5. Both # Nil /\ SaslClosing(R(w) & t, b & s)
  BY <1>2, <1>4 DEF TalkRead
<1>6. ~Ahead /\ \E x, s1 : ASequence(s1) /\ s = x & s1 /\ x.op # "send"
  <2>1. SaslVerdict(b & s) /\ ASequence(s)
    BY <1>4, <1>5 DEF SaslClosing
  <2> QED BY <1>3, <2>1, VerdictSent
<1>7. toClient = Nil
  <2> PICK i : i = Tail(inbox)
    OBVIOUS
  <2>1. ASequence(i) /\ ASequence(toClient)
    BY <1>1, Sequences, Decompose DEF Nil
  <2>2. AllOp(Sent(i), "send") /\ AllOp(Sent(toClient), "send") /\ ASequence(Sent(i)) /\ ASequence(Sent(toClient))
    BY <2>1, SentFacts
  <2> PICK u : u = Sent(i) ++ Sent(toClient)
    OBVIOUS
  <2>3. AllOp(u, "send") /\ ASequence(d) /\ s = u ++ d
    BY <1>4, <2>2, AllOpJoin DEF Ghost, Later
  <2>4. u = Nil
    BY <1>6, <2>3, NothingSent
  <2>5. Sent(toClient) = Nil
    BY <2>2, <2>4, JoinNilBoth
  <2> QED BY <2>1, <2>5, SentNil
<1>8. ~closed => toServer = Nil
  BY <1>4, Sequences, WrittenNil DEF Ghost
<1>9. scheme # NoType
  BY <1>5 DEF Both
<1> QED BY <1>6, <1>7, <1>8, <1>9

-------------------------------------------------------------------------------
(* What a step of the server leaves alone. *)
Gets == ~closed /\ toServer # Nil /\ toServer' = Tail(toServer) /\ UNCHANGED closed

LEMMA ServerLeaves ==
  ASSUME ServerNext
  PROVE  /\ UNCHANGED client /\ UNCHANGED inbox /\ ~closed /\ steps # Nil
         /\ UNCHANGED toServer \/ Gets
         /\ ServerSend \/ UNCHANGED toClient
         /\ ServerTLS \/ ServerSaslLayer \/ UNCHANGED serverLayer
         /\ ServerClose \/ UNCHANGED closed
<1> DEFINE Goal == /\ UNCHANGED client /\ UNCHANGED inbox /\ ~closed /\ steps # Nil
                   /\ UNCHANGED toServer \/ Gets
                   /\ ServerSend \/ UNCHANGED toClient
                   /\ ServerTLS \/ ServerSaslLayer \/ UNCHANGED serverLayer
                   /\ ServerClose \/ UNCHANGED closed
<1>1. ASSUME NEW what, ServerGet(what)
      PROVE  UNCHANGED client /\ UNCHANGED inbox /\ UNCHANGED toClient /\ UNCHANGED closed /\ Gets
             /\ ~closed /\ steps # Nil
  BY <1>1 DEF ServerGet, ServerAt, Gets, Nil
<1>2. ServerSend => Goal
  BY DEF ServerSend, Nil
<1>3. ServerData => Goal
  <2> HAVE ServerData
  <2>1. UNCHANGED serverLayer /\ \E what : ServerGet(what)
    BY DEF ServerData
  <2> QED BY <1>1, <2>1
<1>4. ServerVersion => Goal
  BY <1>1 DEF ServerVersion
<1>5. ServerChoice => Goal
  BY <1>1 DEF ServerChoice
<1>6. ServerWord => Goal
  BY DEF ServerWord, ServerAt, wire, Nil
<1>7. ServerExplains => Goal
  BY DEF ServerExplains, ServerAt, wire, Nil
<1>8. ServerTLS => Goal
  BY DEF ServerTLS, ServerAt, wire, Nil
<1>9. ServerVeNCryptVersion => Goal
  BY DEF ServerVeNCryptVersion, ServerAt, wire, Nil
<1>10. ServerVeNCryptChoice => Goal
  BY <1>1 DEF ServerVeNCryptChoice
<1>11. ServerPlainLengths => Goal
  BY <1>1 DEF ServerPlainLengths
<1>12. ServerVerdict => Goal
  BY DEF ServerVerdict, ServerAt, wire, Nil
<1>13. ServerSaslStart => Goal
  BY <1>1 DEF ServerSaslStart
<1>14. ServerSaslData => Goal
  BY <1>1 DEF ServerSaslData
<1>15. ServerSaslVerdict => Goal
  BY DEF ServerSaslVerdict, ServerAt, wire, Nil
<1>16. ServerSaslLayer => Goal
  BY DEF ServerSaslLayer, ServerAt, wire, Nil
<1>17. ServerClose => Goal
  BY DEF ServerClose, ServerAt, wire, Nil
<1> QED
  BY <1>2, <1>3, <1>4, <1>5, <1>6, <1>7, <1>8, <1>9, <1>10, <1>11, <1>12, <1>13, <1>14, <1>15,
     <1>16, <1>17 DEF ServerNext

(* What is written is on the layer that the client is on still.             *)
LEMMA WrittenKeeps ==
  ASSUME Conv, ShapeInv, ChoiceInv, LayerInv, Live, [Next]_vars
  PROVE  WrittenOn'
<1>1. WrittenOn /\ ASequence(toServer)
  BY Sequences DEF LayerInv
<1>2. CASE ClientNext
  <2>1. UNCHANGED closed /\ Puts /\ (Fill \/ HandshakeTLS \/ ReadSaslResult \/ Still)
    BY <1>2, ClientLeaves
  <2>2. CASE Fill \/ Still
    <3>1. UNCHANGED <<tls, saslconn>>
      BY <2>2 DEF Fill, Still, client
    <3>2. UNCHANGED <<closed, layer>>
      BY <2>1, <3>1 DEF layer
    <3> QED BY <1>1, <2>1, <3>2, PutsOn
  <2>3. CASE HandshakeTLS \/ ReadSaslResult
    <3>1. ~closed => toServer = Nil
      BY <2>3, HandshakeFacts, ResultLast
    <3>2. UNCHANGED toServer
      BY <2>3 DEF HandshakeTLS, ReadSaslResult, Take
    <3> SUFFICES ASSUME ~closed PROVE AllOn(toServer', layer')
      BY <2>1 DEF WrittenOn, AllOn
    <3> QED BY <3>1, <3>2, AllOnNil
  <2> QED BY <2>1, <2>2, <2>3
<1>3. CASE ServerNext
  <2>1. UNCHANGED client /\ (UNCHANGED toServer \/ Gets) /\ ~closed
    BY <1>3, ServerLeaves
  <2>2. layer' = layer
    BY <2>1 DEF client, layer
  <2>3. AllOn(toServer', layer')
    <3>1. AllOn(toServer, layer)
      BY <1>1, <2>1 DEF WrittenOn
    <3>2. CASE UNCHANGED toServer
      BY <2>2, <3>1, <3>2
    <3>3. CASE Gets
      BY <1>1, <2>2, <3>1, <3>3, AllOnRest DEF Gets
    <3> QED BY <2>1, <3>2, <3>3
  <2> QED BY <2>3 DEF WrittenOn, AllOn
<1>4. CASE ConnectionLost
  BY <1>4 DEF ConnectionLost, WrittenOn
<1>5. CASE UNCHANGED vars
  BY <1>1, <1>5 DEF vars, client, wire, WrittenOn, AllOn, layer
<1> QED BY <1>2, <1>3, <1>4, <1>5 DEF Next, Ended

(* A client that reads is not in the handshake. *)
LEMMA FillNotAhead ==
  ASSUME Conv, ChoiceInv, Fill
  PROVE  ~Ahead
<1>1. Doing("read") /\ Busy /\ outcome = "going" /\ todo # Nil /\ todo[1].op = "read"
  BY DEF Fill, Doing, Busy, Nil
<1>2. PICK p, d : Ghost(p, d) /\ Talking(Side(p), Other(d))
  BY <1>1 DEF Conv
<1> PICK c : c = Side(p)
  OBVIOUS
<1> PICK s : s = Other(d)
  OBVIOUS
<1>3. AllOp(p, "write") /\ ~Ends(c)
  BY <1>1, <1>2, BusyGoesOn, SideEnds DEF Ghost
<1> SUFFICES ASSUME Ahead PROVE FALSE
  OBVIOUS
<1>4. PICK c1 : ASequence(c1) /\ c = F & c1
  BY <1>2, <1>3, TalkingAhead
<1>5. c = p ++ todo /\ ASequence(todo)
  BY <1>1, Sequences DEF Side, Remaining
<1>6. p = Nil
  <2> SUFFICES ASSUME p # Nil PROVE FALSE
    OBVIOUS
  <2>1. PICK a, q : AllOp(q, "write") /\ a.op = "write" /\ p = a & q
    BY <1>3, AllOpCases
  <2>2. ASequence(q) /\ ASequence(q ++ todo) /\ p ++ todo = a & (q ++ todo)
    BY <1>5, <2>1, AllOpSequence, JoinCons, JoinSequence
  <2>3. a = F
    BY <1>4, <1>5, <2>2, ConsEqual
  <2> QED BY <2>1, <2>3, Lasts
<1>7. todo = F & c1
  BY <1>4, <1>5, <1>6, JoinNil
<1>8. todo[1] = F
  BY <1>4, <1>7, ConsParts
<1> QED BY <1>1, <1>8, Lasts

(* A client that is in the handshake. *)
LEMMA SideStarts ==
  ASSUME ChoiceInv, outcome \in {"going", "ready"}, NEW p, AllOp(p, "write"), NEW c1, ASequence(c1),
         Side(p) = F & c1
  PROVE  p = Nil /\ outcome = "going" /\ todo = F & c1 /\ todo # Nil /\ todo[1] = F
<1>1. ASequence(Remaining) /\ p ++ Remaining = F & c1 /\ ASequence(Nil)
  BY RemainingFacts, NilSequence DEF Side
<1>2. p = Nil
  <2> SUFFICES ASSUME p # Nil PROVE FALSE
    OBVIOUS
  <2>1. PICK a, q : AllOp(q, "write") /\ a.op = "write" /\ p = a & q
    BY AllOpCases
  <2>2. ASequence(q) /\ ASequence(q ++ Remaining) /\ p ++ Remaining = a & (q ++ Remaining)
    BY <1>1, <2>1, AllOpSequence, JoinCons, JoinSequence
  <2>3. a = F
    BY <1>1, <2>2, ConsEqual
  <2> QED BY <2>1, <2>3, Lasts
<1>3. Remaining = F & c1
  BY <1>1, <1>2, JoinNil
<1>4. outcome # "ready"
  <2>1. Ready & Nil # F & c1
    <3> SUFFICES ASSUME Ready & Nil = F & c1 PROVE FALSE
      OBVIOUS
    <3>1. Ready = F
      BY <1>1, ConsEqual
    <3> QED BY <3>1, Lasts
  <2> QED BY <1>3, <2>1 DEF Remaining
<1>5. todo = F & c1
  BY <1>3, <1>4 DEF Remaining
<1> QED BY <1>2, <1>4, <1>5, ConsNotNil, ConsParts

(* Who decides that TLS is up, before its client does. *)
LEMMA TlsDecided ==
  ASSUME NEW tk, NEW c, NEW r, AllOp(r, "send"), NEW d, ASequence(d), Talk(tk, c, r ++ (D("tls") & d)), ~tls
  PROVE  r = S("finished", 0) & Nil /\ \E c1 : ASequence(c1) /\ c = F & c1
<1> PICK x : x = D("tls")
  OBVIOUS
<1>1. Decision(r, x, d) /\ Talk(tk, c, r ++ (x & d))
  BY Kinds DEF Decision
<1>2. /\ x # D("close") /\ x # D("reason") /\ x # D("verdict") /\ x # D("admit")
      /\ x # D("veAnnounce") /\ x # D("veVersion") /\ x # D("saslVerdict") /\ x # D("saslLayer")
  BY DecisionsDistinct DEF Distinct
<1>3. ASSUME NEW c2, NEW r2, AllOp(r2, "send"), Opening(c2, r2 ++ (x & d)) PROVE FALSE
  <2>1. Decision(r2, x, d)
    BY <1>1, <1>3 DEF Decision
  <2> QED BY <1>2, <1>3, <2>1, OpeningNot
<1>4. EarlyDecided(tk, c, r, x, d)
  <2>1. ~(tk # Nil /\ SaslDecided(c, r, x, d))
    BY <1>2 DEF SaslDecided
  <2>2. ~(tk # Nil /\ LeadDecided(tk, c, r, x, d))
    BY <1>2, <1>3 DEF LeadDecided, Decision
  <2>3. ~(tk # Nil /\ LagDecided(tk, c, r, x, d))
    BY DEF LagDecided
  <2> QED BY <1>1, <1>2, <2>1, <2>2, <2>3, TalkDecides
<1>5. r = S("finished", 0) & Nil /\ \E c1 : c = F & c1 /\ Waiting(tk, c1, d)
  BY <1>2, <1>3, <1>4 DEF EarlyDecided
<1> QED BY <1>5, WaitingFacts

(* The server finishes the handshake first: it has sent the last part of it *)
(* and nothing else since.                                                  *)
LEMMA TLSAlone ==
  ASSUME Conv, ChoiceInv, LayerInv, Live, ServerTLS, ~tls
  PROVE  toClient # Nil /\ Len(toClient) = 1
<1>1. ~closed /\ steps # Nil /\ steps[1].op = "decide" /\ steps[1].what = "tls"
  BY DEF ServerTLS, ServerAt, Nil
<1> PICK p : p = Written(toServer)
  OBVIOUS
<1> PICK c : c = Side(p)
  OBVIOUS
<1> PICK d : d = Tail(steps)
  OBVIOUS
<1> PICK x : x = steps[1]
  OBVIOUS
<1> PICK r : r = Under
  OBVIOUS
<1>2. AllOp(p, "write") /\ Talking(c, Other(steps)) /\ ~Ends(c) /\ outcome \in {"going", "ready"}
  BY <1>1, LiveTalks DEF Live
<1>3. AllOp(r, "send") /\ ASequence(d) /\ steps = x & d
  BY <1>1, RemainingFacts, Sequences, Decompose DEF Nil
<1>4. Talking(c, r ++ (x & d))
  BY <1>2, <1>3 DEF Other, Under
<1>5. Decision(r, x, d)
  BY <1>1, <1>3 DEF Decision
<1>6. Talking(c, r ++ (D("tls") & d))
  BY <1>1, <1>4, <1>5, DecisionIs
<1> PICK y : y = D("tls")
  OBVIOUS
<1>7. Decision(r, y, d) /\ Talking(c, r ++ (y & d)) /\ y # D("close") /\ y.op = "decide"
  BY <1>3, <1>6, Kinds, DecisionsDistinct DEF Decision, Distinct
<1>8. \/ \E tk, c2, r2 : /\ AllOp(r2, "send") /\ Talk(tk, c2, r2 ++ (y & d))
                         /\ Placed(tk, c, r, c2, r2)
      \/ d = Nil /\ ByWord(c, r, y)
  BY ONLY <1>2, <1>7, TalkingDecides
<1>9. ~ByWord(c, r, y)
  BY <1>7, Kinds DEF ByWord
<1>10. PICK tk, c2, r2 : AllOp(r2, "send") /\ Talk(tk, c2, r2 ++ (y & d)) /\ Placed(tk, c, r, c2, r2)
  BY <1>8, <1>9
<1>11. r2 = S("finished", 0) & Nil /\ \E c1 : ASequence(c1) /\ c2 = F & c1
  BY <1>3, <1>10, TlsDecided
<1>12. c2 = c /\ r2 = r
  BY <1>10, <1>11, HandleNotF DEF Placed
<1>13. todo # Nil /\ todo[1] = F /\ outcome = "going"
  BY <1>2, <1>11, <1>12, SideStarts
<1>14. inbox = Nil
  BY <1>13, Lasts DEF Doing, LayerInv, Unread, Nil
<1>15. r = Sent(toClient) /\ ASequence(toClient)
  BY <1>14, Sequences, SentEnds, SentFacts, JoinNil DEF Under
<1>16. Len(Sent(toClient)) = Len(toClient)
  BY <1>15, SentFacts
<1>17. Len(r) = 1
  <2>1. ASequence(Nil) /\ Len(Nil) = 0
    BY EmptySequence DEF Nil
  <2> PICK y1 : y1 = S("finished", 0)
    OBVIOUS
  <2> PICK u : u = Nil
    OBVIOUS
  <2>2. ASequence(u) /\ Len(u) = 0 /\ r = y1 & u
    BY <1>11, <1>12, <2>1
  <2>3. Len(y1 & u) = Len(u) + 1
    BY ONLY <2>2, ConsFacts
  <2> QED BY <2>2, <2>3
<1>18. Len(toClient) = 1
  BY <1>15, <1>16, <1>17
<1>19. Len(Nil) = 0
  BY EmptySequence DEF Nil
<1> QED BY <1>18, <1>19

(* What is sent is on the layer that the client is on, or will be on once   *)
(* it has read the first part of it.                                        *)
LEMMA ClientSent ==
  ASSUME Conv, ShapeInv, ChoiceInv, LayerInv, Live, ClientNext
  PROVE  SentOn'
<1>1. UNCHANGED closed /\ UNCHANGED serverLayer /\ (Fill \/ HandshakeTLS \/ ReadSaslResult \/ Still)
  BY ClientLeaves
<1>2. SentOn /\ ASequence(toClient)
  BY Sequences DEF LayerInv
<1>3. CASE Still
  <2>1. UNCHANGED <<tls, saslconn, toClient, closed, serverLayer>>
    BY <1>1, <1>3 DEF Still
  <2> QED BY <1>2, <2>1 DEF SentOn, Ahead, layer, AllOn
<1>4. CASE Fill
  <2>1. ~Ahead /\ UNCHANGED <<tls, saslconn>>
    BY <1>4, FillNotAhead DEF Fill, client
  <2>2. ~Ahead' /\ layer' = layer
    BY <1>1, <2>1 DEF Ahead, layer
  <2>3. PICK n \in 1 .. Len(toClient) : toClient' = SubSeq(toClient, n + 1, Len(toClient))
    BY <1>4 DEF Fill
  <2> PICK ms : ms = SubSeq(toClient, n + 1, Len(toClient))
    OBVIOUS
  <2>4. AllOn(toClient, layer)
    BY <1>2, <2>1 DEF SentOn
  <2>5. n + 1 \in 1 .. Len(toClient) + 1 /\ Len(toClient) \in 0 .. Len(toClient)
    <3>1. Len(toClient) \in Nat
      BY <1>2, Empties, LenProperties DEF ASequence
    <3> QED BY <3>1
  <2> PICK on : on = layer
    OBVIOUS
  <2>6. AllOn(ms, on)
    BY <1>2, <2>4, <2>5, AllOnPart
  <2>7. ms = toClient' /\ on = layer'
    BY <2>2, <2>3
  <2> QED BY <2>2, <2>6, <2>7 DEF SentOn, AllOn
<1>5. CASE HandshakeTLS
  <2>1. tls' = TRUE /\ toClient' = Tail(toClient)
    BY <1>5 DEF HandshakeTLS
  <2> PICK ms : ms = Tail(toClient)
    OBVIOUS
  <2>2. AllOn(ms, "tls")
    BY <1>5, HandshakeFacts
  <2>3. ~Ahead' /\ layer' = "tls" /\ ms = toClient'
    BY <2>1 DEF Ahead, layer
  <2> QED BY <2>2, <2>3 DEF SentOn, AllOn
<1>6. CASE ReadSaslResult
  <2>1. toClient = Nil /\ ~Ahead
    BY <1>6, ResultLast
  <2>2. tls' = tls /\ toClient' = toClient
    BY <1>6 DEF ReadSaslResult, Take
  <2>3. ~Ahead'
    BY <1>1, <2>1, <2>2 DEF Ahead
  <2>4. Len(toClient') = 0
    BY <2>1, <2>2, EmptySequence DEF Nil
  <2> QED BY <2>3, <2>4 DEF SentOn, AllOn
<1> QED BY <1>1, <1>3, <1>4, <1>5, <1>6

LEMMA LossSent ==
  ASSUME ChoiceInv, SentOn, ConnectionLost
  PROVE  SentOn'
<1>1. UNCHANGED <<tls, saslconn, serverLayer>> /\ closed' = TRUE
  BY DEF ConnectionLost, client, server
<1>2. ASequence(toClient)
  BY Sequences
<1>3. PICK n \in 0 .. Len(toClient) : toClient' = SubSeq(toClient, 1, n)
  BY DEF ConnectionLost
<1>4. PICK E : toClient \in Seq(E)
  BY <1>2 DEF ASequence
<1>5. Len(toClient) \in Nat /\ n \in Nat /\ n <= Len(toClient)
  BY <1>3, <1>4, LenProperties
<1> PICK m : m = toClient'
  OBVIOUS
<1>6. Len(m) = n /\ \A i \in 1 .. n : m[i] = toClient[i]
  BY <1>3, <1>4, <1>5, SubSeqProperties
<1>7. CASE Ahead
  <2>1. Ahead' /\ \A i \in 2 .. Len(toClient) : toClient[i].layer = "tls"
    BY <1>1, <1>7 DEF Ahead, SentOn
  <2>2. \A i \in 2 .. n : i \in 1 .. n /\ i \in 2 .. Len(toClient)
    BY <1>5
  <2>3. \A i \in 2 .. Len(m) : m[i].layer = "tls"
    BY <1>6, <2>1, <2>2
  <2> QED BY <1>1, <2>1, <2>3 DEF SentOn
<1>8. CASE ~Ahead
  <2>1. ~Ahead' /\ layer' = layer
    BY <1>1, <1>8 DEF Ahead, layer
  <2>2. \A i \in 1 .. Len(toClient) : toClient[i].layer = layer
    BY <1>8 DEF SentOn, AllOn
  <2>3. \A i \in 1 .. n : i \in 1 .. Len(toClient)
    BY <1>5
  <2>4. \A i \in 1 .. Len(m) : m[i].layer = layer
    BY <1>6, <2>2, <2>3
  <2> QED BY <2>1, <2>4 DEF SentOn, AllOn
<1> QED BY <1>7, <1>8

(* A message of the server.                                                 *)
LEMMA ServerSends ==
  ASSUME Conv, ChoiceInv, LayerInv, Upward, Live, ServerSend
  PROVE  SentOn'
<1>1. ~closed /\ steps # Nil /\ steps[1].op = "send" /\ UNCHANGED <<client, closed, serverLayer>>
  BY DEF ServerSend, Nil
<1> PICK m : m = [what |-> steps[1].what, val |-> steps[1].val, layer |-> serverLayer]
  OBVIOUS
<1>2. toClient' = Append(toClient, m) /\ m.layer = serverLayer
  BY DEF ServerSend
<1>3. SentOn /\ GetsFirst /\ ASequence(toClient) /\ ASequence(todo) /\ ASequence(steps)
      /\ outcome \in {"going", "ready"}
  BY Sequences DEF LayerInv, Live
<1>4. /\ layer' = layer
      /\ Ahead' <=> Ahead
  BY <1>1 DEF client, layer, Ahead
<1>5. serverLayer = layer \/ Ahead
  <2> PICK p : p = Written(toServer)
    OBVIOUS
  <2> PICK c : c = Side(p)
    OBVIOUS
  <2> PICK d : d = Tail(steps)
    OBVIOUS
  <2> PICK b : b = steps[1]
    OBVIOUS
  <2> PICK r : r = Under
    OBVIOUS
  <2>1. AllOp(p, "write") /\ Talking(c, Other(steps)) /\ ~Ends(c)
    BY <1>1, LiveTalks
  <2>2. AllOp(r, "send") /\ ASequence(d) /\ steps = b & d
    BY <1>1, <1>3, RemainingFacts, Decompose DEF Nil
  <2>3. Talking(c, r ++ (b & d))
    BY <2>1, <2>2 DEF Other, Under
  <2>4. b.op = "send" /\ c = Side(p) /\ InTLS /\ NoneYet
    BY <1>1 DEF Upward
  <2>5. ~(~tls /\ ~saslconn /\ serverLayer = "sasl")
    BY <1>1, <1>3 DEF GetsFirst
  <2> HIDE DEF InTLS, NoneYet
  <2> QED BY ONLY <1>3, <2>1, <2>2, <2>3, <2>4, <2>5, SendsOn
<1>6. CASE Ahead
  <2>1. toClient # Nil /\ \A i \in 2 .. Len(toClient) : toClient[i].layer = "tls"
    BY <1>1, <1>3, <1>6 DEF SentOn
  <2> PICK n : n = toClient'
    OBVIOUS
  <2>2. /\ ASequence(n) /\ Len(n) = Len(toClient) + 1 /\ n[Len(toClient) + 1] = m
        /\ \A i \in 1 .. Len(toClient) : n[i] = toClient[i]
    BY <1>2, <1>3, Appends
  <2>3. Len(toClient) \in Nat /\ m.layer = "tls"
    BY <1>2, <1>3, <1>6, LenProperties DEF ASequence, Ahead
  <2>4. ASSUME NEW i \in 2 .. Len(n) PROVE n[i].layer = "tls"
    <3>1. CASE i = Len(toClient) + 1
      BY <2>2, <2>3, <3>1
    <3>2. CASE i # Len(toClient) + 1
      <4>1. i \in 2 .. Len(toClient) /\ i \in 1 .. Len(toClient)
        BY <2>2, <2>3, <3>2
      <4> QED BY <2>1, <2>2, <4>1
    <3> QED BY <3>1, <3>2
  <2>5. n # Nil
    <3>1. Len(Nil) = 0 /\ Len(n) # 0
      BY <2>2, <2>3, EmptySequence DEF Nil
    <3> QED BY <3>1
  <2> QED BY <1>4, <1>6, <2>4, <2>5 DEF SentOn
<1>7. CASE ~Ahead
  <2>1. AllOn(toClient, layer) /\ m.layer = layer
    BY <1>2, <1>3, <1>5, <1>7 DEF SentOn
  <2> PICK n : n = toClient'
    OBVIOUS
  <2> PICK on : on = layer
    OBVIOUS
  <2>2. AllOn(n, on)
    BY <1>2, <1>3, <2>1, AllOnMore
  <2>3. n = toClient' /\ on = layer'
    BY <1>4
  <2>4. ~Ahead'
    BY <1>1, <1>7 DEF client, Ahead
  <2> QED BY <2>2, <2>3, <2>4 DEF SentOn, AllOn
<1> QED BY <1>6, <1>7

LEMMA SentKeeps ==
  ASSUME Conv, ShapeInv, ChoiceInv, LayerInv, Upward, Live, [Next]_vars
  PROVE  SentOn'
<1>1. SentOn
  BY DEF LayerInv
<1>2. CASE ServerNext
  <2>1. /\ UNCHANGED client
        /\ ServerSend \/ UNCHANGED toClient
        /\ ServerTLS \/ ServerSaslLayer \/ UNCHANGED serverLayer
        /\ ServerClose \/ UNCHANGED closed
    BY <1>2, ServerLeaves
  <2>2. layer' = layer /\ tls' = tls
    BY <2>1 DEF client, layer
  <2>3. CASE ServerTLS
    <3>1. UNCHANGED toClient /\ serverLayer' = "tls"
      BY <2>3 DEF ServerTLS, wire
    <3>2. CASE tls
      <4>1. ~Ahead /\ ~Ahead'
        BY <2>2, <3>2 DEF Ahead
      <4> QED BY <1>1, <2>2, <3>1, <4>1 DEF SentOn, AllOn
    <3>3. CASE ~tls
      <4>1. toClient # Nil /\ Len(toClient) = 1
        BY <2>3, <3>3, TLSAlone
      <4>2. Ahead'
        BY <2>2, <3>1, <3>3 DEF Ahead
      <4> QED BY <3>1, <4>1, <4>2 DEF SentOn
    <3> QED BY <3>2, <3>3
  <2>4. CASE ServerSaslLayer
    <3>1. UNCHANGED <<toClient, closed>> /\ serverLayer' = IF serverLayer = "tls" THEN "tls" ELSE "sasl"
      BY <2>4 DEF ServerSaslLayer, wire
    <3>2. Ahead' <=> Ahead
      BY <2>2, <3>1 DEF Ahead
    <3> QED BY <1>1, <2>2, <3>1, <3>2 DEF SentOn, AllOn
  <2>5. CASE ServerSend
    BY <2>5, ServerSends
  <2>6. CASE UNCHANGED <<toClient, serverLayer>>
    <3>1. closed' = closed \/ closed' = TRUE
      BY <2>1 DEF ServerClose
    <3>2. Ahead' <=> Ahead
      BY <2>2, <2>6 DEF Ahead
    <3> QED BY <1>1, <2>2, <2>6, <3>1, <3>2 DEF SentOn, AllOn
  <2> QED BY <2>1, <2>3, <2>4, <2>5, <2>6
<1>3. CASE UNCHANGED vars
  BY <1>1, <1>3 DEF vars, client, wire, server, SentOn, AllOn, layer, Ahead
<1> QED BY <1>1, <1>2, <1>3, ClientSent, LossSent DEF Next, Ended

LEMMA ServerKinds ==
  ASSUME ServerNext
  PROVE  (\E what : ServerGet(what)) \/ steps[1].op # "get"
<1>1. ServerData => \E what : ServerGet(what)
  BY DEF ServerData
<1>2. ServerVersion \/ ServerChoice \/ ServerVeNCryptChoice \/ ServerPlainLengths \/ ServerSaslStart
        \/ ServerSaslData => \E what : ServerGet(what)
  BY DEF ServerVersion, ServerChoice, ServerVeNCryptChoice, ServerPlainLengths, ServerSaslStart, ServerSaslData
<1>3. ASSUME NEW op, op # "get", NEW what, ServerAt(op, what) PROVE steps[1].op # "get"
  BY <1>3 DEF ServerAt
<1>4. ServerSend => steps[1].op # "get"
  BY DEF ServerSend
<1>5. ServerWord => steps[1].op # "get"
  BY <1>3 DEF ServerWord
<1>6. ServerVerdict \/ ServerVeNCryptVersion => steps[1].op # "get"
  BY <1>3 DEF ServerVerdict, ServerVeNCryptVersion
<1>7. ServerExplains \/ ServerTLS \/ ServerSaslVerdict \/ ServerSaslLayer \/ ServerClose => steps[1].op # "get"
  BY <1>3 DEF ServerExplains, ServerTLS, ServerSaslVerdict, ServerSaslLayer, ServerClose
<1> QED BY <1>1, <1>2, <1>4, <1>5, <1>6, <1>7 DEF ServerNext

(* Once the mechanism's layer is on, the server waits for its client. *)
LEMMA LayerGets ==
  ASSUME Conv, ChoiceInv, Live, ServerSaslLayer
  PROVE  steps' # Nil /\ steps'[1].op = "get"
<1>1. ~closed /\ steps # Nil /\ steps[1].op = "decide" /\ steps[1].what = "saslLayer"
      /\ steps' = <<>> \o Tail(steps)
  BY DEF ServerSaslLayer, ServerAt, Nil, Then
<1> PICK p : p = Written(toServer)
  OBVIOUS
<1> PICK c : c = Side(p)
  OBVIOUS
<1> PICK d : d = Tail(steps)
  OBVIOUS
<1> PICK x : x = steps[1]
  OBVIOUS
<1> PICK r : r = Under
  OBVIOUS
<1>2. AllOp(p, "write") /\ Talking(c, Other(steps)) /\ ~Ends(c)
  BY <1>1, LiveTalks
<1>3. AllOp(r, "send") /\ ASequence(d) /\ steps = x & d
  BY <1>1, RemainingFacts, Sequences, Decompose DEF Nil
<1>4. Talking(c, r ++ (x & d))
  BY <1>2, <1>3 DEF Other, Under
<1>5. Decision(r, x, d)
  BY <1>1, <1>3 DEF Decision
<1>6. Talking(c, r ++ (D("saslLayer") & d))
  BY <1>1, <1>4, <1>5, DecisionIs
<1> PICK y : y = D("saslLayer")
  OBVIOUS
<1>7. Decision(r, y, d) /\ Talking(c, r ++ (y & d)) /\ y # D("close") /\ y.op = "decide"
      /\ y # D("saslVerdict")
  BY <1>3, <1>6, Kinds, DecisionsDistinct DEF Decision, Distinct
<1>8. \/ \E tk, c2, r2 : /\ AllOp(r2, "send") /\ Talk(tk, c2, r2 ++ (y & d))
                         /\ Placed(tk, c, r, c2, r2)
      \/ d = Nil /\ ByWord(c, r, y)
  BY ONLY <1>2, <1>7, TalkingDecides
<1>9. ~ByWord(c, r, y)
  BY <1>7, Kinds DEF ByWord
<1>10. PICK tk, c2, r2 : AllOp(r2, "send") /\ Talk(tk, c2, r2 ++ (y & d))
  BY <1>8, <1>9
<1>11. SaslDecided(c2, r2, y, d)
  BY <1>3, <1>10, OnlySasl
<1>12. d = ServerJoin("fits")
  BY <1>7, <1>11 DEF SaslDecided
<1>13. steps' = d
  BY <1>1, <1>3, JoinNil DEF ++, Nil
<1> PICK e : e = steps'
  OBVIOUS
<1>14. e # Nil /\ e[1] = G("clientInit")
  BY <1>12, <1>13, JoinFacts
<1> QED BY <1>14, Kinds

LEMMA GetsKeeps ==
  ASSUME Conv, ShapeInv, ChoiceInv, LayerInv, Live, [Next]_vars
  PROVE  GetsFirst'
<1> SUFFICES ASSUME ~closed', serverLayer' = "sasl", ~tls', ~saslconn'
             PROVE  steps' # Nil /\ steps'[1].op = "get"
  BY DEF GetsFirst, Nil
<1>1. GetsFirst /\ WrittenOn
  BY DEF LayerInv
<1>2. CASE ClientNext
  <2>1. UNCHANGED <<closed, serverLayer, steps>> /\ (Fill \/ HandshakeTLS \/ ReadSaslResult \/ Still)
    BY <1>2, ClientLeaves
  <2>2. ~tls /\ ~saslconn
    BY <2>1 DEF Fill, HandshakeTLS, ReadSaslResult, Still, client
  <2>3. steps # Nil /\ steps[1].op = "get"
    BY <1>1, <2>1, <2>2 DEF GetsFirst
  <2> QED BY <2>1, <2>3
<1>3. CASE ServerNext
  <2>1. /\ UNCHANGED client /\ ~closed
        /\ ServerTLS \/ ServerSaslLayer \/ UNCHANGED serverLayer
    BY <1>3, ServerLeaves
  <2>2. ~tls /\ ~saslconn
    BY <2>1 DEF client
  <2>3. ~ServerTLS
    BY DEF ServerTLS
  <2>4. CASE UNCHANGED serverLayer
    <3>1. steps[1].op = "get" /\ layer = "plain" /\ serverLayer = "sasl"
      BY <1>1, <2>1, <2>2, <2>4 DEF GetsFirst, layer
    <3>2. PICK what : ServerGet(what)
      BY <1>3, <3>1, ServerKinds
    <3>3. toServer # Nil /\ toServer[1].layer = "sasl"
      BY <3>1, <3>2 DEF ServerGet, Nil
    <3>4. Len(toServer) \in Nat \ {0}
      BY <3>3, Sequences, Rests DEF Nil
    <3>5. toServer[1].layer = "plain"
      BY <1>1, <2>1, <3>1, <3>4 DEF WrittenOn, AllOn
    <3> QED BY <3>3, <3>5
  <2> QED BY <2>1, <2>3, <2>4, LayerGets
<1>4. CASE ConnectionLost
  BY <1>4 DEF ConnectionLost
<1>5. CASE UNCHANGED vars
  BY <1>1, <1>5 DEF vars, client, server, GetsFirst
<1> QED BY <1>2, <1>3, <1>4, <1>5 DEF Next, Ended

LEMMA NothingUnder ==
  ASSUME ChoiceInv, NEW d, ASequence(d), NEW x, x.op # "send", NEW s1, ASequence(s1), Other(d) = x & s1
  PROVE  inbox = Nil /\ toClient = Nil
<1>1. ASequence(inbox) /\ ASequence(toClient) /\ AllOp(Under, "send")
  BY Sequences, RemainingFacts
<1>2. ASequence(Sent(inbox)) /\ ASequence(Sent(toClient))
  BY <1>1, SentFacts
<1> PICK u : u = Under
  OBVIOUS
<1>3. AllOp(u, "send") /\ u ++ d = x & s1
  BY <1>1 DEF Under, Other
<1>4. u = Nil
  BY <1>3, NothingSent
<1>5. Sent(inbox) = Nil /\ Sent(toClient) = Nil
  BY <1>2, <1>4, JoinNilBoth DEF Under
<1> QED BY <1>1, <1>5, SentNil

(* Before the handshake begins, nothing that the server sends in it has     *)
(* been read ahead.                                                         *)
LEMMA NothingAhead ==
  ASSUME Conv, ShapeInv, ChoiceInv, At("local", "tls")
  PROVE  inbox = Nil /\ scheme # NoType
<1> PICK t : t = Tail(todo)
  OBVIOUS
<1>1. /\ ASequence(t)
      /\ \E p, d : /\ Ghost(p, d) /\ AllOp(p, "write") /\ ASequence(d) /\ ASequence(Other(d))
                   /\ \/ p = Nil /\ taken = Both /\ TalkLocal(Both, "tls", t, Other(d))
                      \/ Inner(p, Other(d), ServerHandler(Type)) /\ EarlyLocal(Both, "tls", t, ServerHandler(Type))
  <2> HIDE DEF Agreed
  <2> QED BY LocalCases
<1>2. PICK p, d : /\ ASequence(d)
                  /\ \/ TalkLocal(Both, "tls", t, Other(d))
                     \/ Inner(p, Other(d), ServerHandler(Type))
  BY <1>1
<1> PICK s : s = Other(d)
  OBVIOUS
<1>3. CASE TalkLocal(Both, "tls", t, s)
  <2> PICK tk : tk = Both
    OBVIOUS
  <2>1. tk # Nil /\ Hail(tk, L("tls") & t, s)
    BY <1>3 DEF TalkLocal, Locals
  <2>2. \E s1 : ASequence(s1) /\ s = Hello(Finish(s1)) /\ Waiting(tk, t, s1)
    BY <1>1, <2>1, HailFacts
  <2>3. \E x, s1 : ASequence(s1) /\ s = x & s1 /\ x.op # "send"
    BY <2>2, WaitingFacts, Kinds DEF Hello
  <2>4. scheme # NoType
    BY <2>1 DEF Both
  <2> QED BY <1>2, <2>3, <2>4, NothingUnder
<1>4. CASE Inner(p, s, ServerHandler(Type))
  <2>1. scheme # NoType /\ (s = G("choice") & Nil \/ s = Chosen(Type) & Nil)
    BY <1>4 DEF Inner
  <2>2. \E x, s1 : ASequence(s1) /\ s = x & s1 /\ x.op # "send"
    BY <2>1, NilSequence, Kinds
  <2> QED BY <1>2, <2>1, <2>2, NothingUnder
<1> QED BY <1>2, <1>3, <1>4

LEMMA ShapeNotTls ==
  ASSUME NEW q, Shape(q), q # Nil
  PROVE  q[1].op # "tls"
<1>1. Len(q) \in Nat \ {0}
  BY Empties DEF Shape, ASequence, Nil
<1>2. Simple(q[1]) \/ q[1] = Ready
  BY <1>1 DEF Shape
<1> QED BY <1>2, SimpleSteps, Lasts

LEMMA UnreadKeeps ==
  ASSUME Conv, ShapeInv, ChoiceInv, LayerInv, Live, [Next]_vars
  PROVE  Unread'
<1>1. Unread
  BY DEF LayerInv
<1>2. CASE ClientNext
  <2>1. Shape(todo') \/ Fill \/ InitializeTLSSession
    BY <1>2, ShapeKeeps DEF ChoiceInv
  <2>2. CASE Shape(todo')
    <3> PICK q : q = todo'
      OBVIOUS
    <3>1. q # Nil => q[1].op # "tls"
      BY <2>2, ShapeNotTls
    <3> QED BY <3>1 DEF Unread, Doing, Nil
  <2>3. CASE Fill
    BY <2>3 DEF Fill, client, Unread, Doing
  <2>4. CASE InitializeTLSSession
    <3>1. At("local", "tls") /\ inbox' = inbox
      BY <2>4 DEF InitializeTLSSession
    <3>2. inbox' = Nil
      BY <3>1, NothingAhead
    <3> QED BY <3>2 DEF Unread, Nil
  <2> QED BY <2>1, <2>2, <2>3, <2>4
<1>3. CASE ServerNext
  BY <1>1, <1>3, ServerLeaves DEF client, Unread, Doing, Nil
<1>4. CASE ConnectionLost
  BY <1>1, <1>4 DEF ConnectionLost, client, Unread, Doing, Nil
<1>5. CASE UNCHANGED vars
  BY <1>1, <1>5 DEF vars, client, wire, Unread, Doing, Nil
<1> QED BY <1>2, <1>3, <1>4, <1>5 DEF Next, Ended

LEMMA LayerKeeps ==
  ASSUME Conv, ShapeInv, ChoiceInv, LayerInv, Upward, [Next]_vars
  PROVE  LayerInv'
<1> SUFFICES ASSUME Live' PROVE WrittenOn' /\ SentOn' /\ GetsFirst' /\ Unread'
  BY DEF LayerInv
<1>1. Live
  BY LiveBefore
<1> HIDE DEF Upward, LayerInv
<1> QED BY <1>1, WrittenKeeps, SentKeeps, GetsKeeps, UnreadKeeps

-------------------------------------------------------------------------------
(* Which steps choose a type, bring TLS up, or ask the library of SASL.     *)
LEMMA ClientActs ==
  ASSUME ClientNext
  PROVE  /\ Switch \/ UNCHANGED scheme
         /\ HandshakeTLS \/ UNCHANGED tls
         /\ SaslStart \/ SaslStep \/ UNCHANGED <<mech, sasl>>
         /\ ReadSaslResult \/ UNCHANGED saslconn
         /\ (todo[1] = L("tls") \/ todo[1] = F) => InitializeTLSSession \/ HandshakeTLS \/ HandshakeTLSFails
<1> DEFINE Most == UNCHANGED <<scheme, tls, mech, sasl, saslconn>>
           Other1 == todo[1] # L("tls") /\ todo[1] # F
<1>0. /\ L("tls").op = "local" /\ L("tls").what = "tls" /\ F.op = "tls"
  BY Kinds, Lasts
<1>1. ASSUME NEW op, op \notin {"local", "tls"}, Doing(op) PROVE Other1
  BY <1>0, <1>1 DEF Doing
<1>2. ASSUME NEW op, op # "tls", NEW what, what # "tls", At(op, what) PROVE Other1
  BY <1>0, <1>2 DEF At
<1>3. ASSUME NEW what, Take(what) PROVE Other1
  BY <1>0, <1>3 DEF Take, At
<1> HIDE DEF Other1
<1>4. Fill => Most /\ Other1
  BY <1>1 DEF Fill, client, choice, saslState
<1>5. ReadFails \/ Write \/ WriteFails \/ Stop => Most /\ Other1
  BY <1>1 DEF ReadFails, Write, WriteFails, Stop, choice, saslState
<1>6. ReadData => Most /\ Other1
  BY <1>3 DEF ReadData, choice, saslState
<1>7. ReadVersion \/ ReadWord \/ ReadCount => Most /\ Other1
  BY <1>3 DEF ReadVersion, ReadWord, ReadCount, saslState
<1>8. ReadType \/ ReadVeNCryptType => Most /\ Other1
  BY <1>2 DEF ReadType, ReadVeNCryptType, saslState
<1>9. Switch => UNCHANGED <<tls, mech, sasl, saslconn>> /\ Other1
  BY <1>2 DEF Switch, saslState
<1>10. AuthResult \/ ReadVeNCryptVersion \/ ReadVeNCryptStatus => Most /\ Other1
  BY <1>3 DEF AuthResult, ReadVeNCryptVersion, ReadVeNCryptStatus, choice, saslState
<1>11. Local => Most /\ Other1
  BY <1>2 DEF Local, choice, saslState
<1>12. GetPassword \/ GetCredential \/ GetPlainCredential => Most /\ Other1
  BY <1>2 DEF GetPassword, GetCredential, GetPlainCredential, choice, saslState
<1>13. InitializeTLSSession \/ HandshakeTLSFails => Most
  BY DEF InitializeTLSSession, HandshakeTLSFails, choice, saslState
<1>14. HandshakeTLS => UNCHANGED <<scheme, mech, sasl, saslconn>>
  BY DEF HandshakeTLS, choice, saslState
<1>15. ReadVeNCryptCount => Most /\ Other1
  BY <1>3 DEF ReadVeNCryptCount, saslState
<1>16. VeNCryptChosen => Most /\ Other1
  BY <1>2 DEF VeNCryptChosen, choice, saslState
<1>17. ReadVeNCryptAccepted => Most /\ Other1
  BY <1>3 DEF ReadVeNCryptAccepted, saslState
<1>18. SaslStart => UNCHANGED <<scheme, tls, saslconn>> /\ Other1
  BY <1>2 DEF SaslStart, choice
<1>19. ReadSaslData \/ ReadSaslComplete => Most /\ Other1
  BY <1>3 DEF ReadSaslData, ReadSaslComplete, choice
<1>20. SaslStep => UNCHANGED <<scheme, tls, saslconn>> /\ Other1
  BY <1>2 DEF SaslStep, choice
<1>21. SaslStrength \/ SetUpDone => Most /\ Other1
  BY <1>2 DEF SaslStrength, SetUpDone, choice, saslState
<1>22. ReadSaslResult => UNCHANGED <<scheme, tls, mech, sasl>> /\ Other1
  BY <1>3 DEF ReadSaslResult, choice, saslState
<1>23. Other1 => ~(todo[1] = L("tls") \/ todo[1] = F)
  BY DEF Other1
<1> QED
  BY <1>4, <1>5, <1>6, <1>7, <1>8, <1>9, <1>10, <1>11, <1>12, <1>13, <1>14, <1>15, <1>16, <1>17,
     <1>18, <1>19, <1>20, <1>21, <1>22, <1>23 DEF ClientNext

LEMMA SwitchWhen ==
  ASSUME Conv, ShapeInv, ChoiceInv, Switch
  PROVE  scheme = NoType \/ SubAuth
<1>1. At("local", "switch")
  BY DEF Switch
<1> PICK t : t = Tail(todo)
  OBVIOUS
<1>2. PICK p, d : /\ AllOp(p, "write") /\ ASequence(t)
                  /\ Talking(p ++ (L("switch") & t), Other(d))
  BY <1>1, ConvLocals
<1> PICK s : s = Other(d)
  OBVIOUS
<1>3. scheme = NoType \/ Listing(p ++ (L("switch") & t), s)
  <2> HIDE DEF Agreed
  <2> QED BY <1>2, TalkingLocals
<1>4. CASE Listing(p ++ (L("switch") & t), s)
  <2>1. Choosing
    BY <1>2, <1>4 DEF Listing
  <2> QED BY <2>1 DEF Choosing
<1> QED BY <1>3, <1>4

LEMMA NoneYetKeeps ==
  ASSUME Conv, ShapeInv, ChoiceInv, LayerInv, NoneYet, [Next]_vars
  PROVE  NoneYet'
<1>1. CASE ClientNext
  <2>1. CASE HandshakeTLS \/ ReadSaslResult
    <3>1. scheme # NoType
      BY <2>1, HandshakeFacts, ResultLast
    <3>2. UNCHANGED scheme
      BY <2>1 DEF HandshakeTLS, ReadSaslResult, choice
    <3> QED BY <3>1, <3>2 DEF NoneYet
  <2>2. CASE ~HandshakeTLS /\ ~ReadSaslResult
    <3>1. UNCHANGED <<tls, saslconn>> /\ (Switch \/ UNCHANGED scheme)
      BY <1>1, <2>2, ClientActs
    <3>2. CASE UNCHANGED scheme
      BY <3>1, <3>2 DEF NoneYet
    <3>3. CASE Switch
      <4>1. scheme = NoType \/ UNCHANGED scheme
        BY <3>3, SwitchWhen DEF Switch
      <4> QED BY <3>1, <4>1 DEF NoneYet
    <3> QED BY <3>1, <3>2, <3>3
  <2> QED BY <2>1, <2>2
<1>2. CASE ServerNext \/ ConnectionLost \/ UNCHANGED vars
  <2>1. UNCHANGED client
    BY <1>2, ServerLeaves DEF ConnectionLost, vars
  <2> QED BY <2>1 DEF client, choice, NoneYet
<1> QED BY <1>1, <1>2 DEF Next, Ended

(* TLS is the first thing that a client does which has chosen it. *)
LEMMA SwitchTLS ==
  ASSUME ChoiceInv, Switch, ~SubAuth, SubAuth'
  PROVE  todo' # Nil /\ todo'[1] = L("tls")
<1>1. todo # Nil /\ ASequence(todo) /\ todo' = Handler(picked) \o Tail(todo) /\ picked = "TLS"
  BY Sequences DEF Switch, At, Continue, SubAuth, Nil
<1> PICK t : t = Tail(todo)
  OBVIOUS
<1>2. ASequence(t)
  BY <1>1, Rests DEF Nil
<1>3. Handler("TLS") = HandleAnonTLSAuth \o <<R("count")>>
  BY DEF Handler
<1> PICK n : n = todo'
  OBVIOUS
<1>4. n = (HandleAnonTLSAuth \o <<R("count")>>) ++ t
  BY <1>1, <1>3 DEF ++
<1>5. n = L("tls") & (R("count") & t) /\ ASequence(R("count") & t)
  BY <1>2, <1>4, TLSScript, ConsSequence
<1>6. n # Nil /\ n[1] = L("tls")
  BY <1>5, ConsNotNil, ConsParts
<1> QED BY <1>6

LEMMA InTLSKeeps ==
  ASSUME Conv, ShapeInv, ChoiceInv, InTLS, [Next]_vars
  PROVE  InTLS'
<1>1. CASE ClientNext
  <2> SUFFICES ASSUME outcome' = "going", SubAuth', ~tls'
               PROVE  todo' # Nil /\ (todo'[1] = L("tls") \/ todo'[1] = F)
    BY DEF InTLS, Nil, F, L
  <2>1. outcome = "going" /\ todo # Nil
    BY <1>1, ClientLeaves DEF Busy, Stop, Doing, Nil
  <2>2. ~tls
    BY <1>1, ClientActs DEF HandshakeTLS
  <2>3. CASE ~SubAuth
    <3>1. Switch
      BY <1>1, <2>3, ClientActs DEF SubAuth
    <3> QED BY <2>3, <3>1, SwitchTLS
  <2>4. CASE SubAuth
    <3>1. todo[1] = L("tls") \/ todo[1] = F
      BY <2>1, <2>2, <2>4 DEF InTLS
    <3>2. ~HandshakeTLS /\ ~HandshakeTLSFails
      BY DEF HandshakeTLS, HandshakeTLSFails, Fail
    <3>3. InitializeTLSSession
      BY <1>1, <3>1, <3>2, ClientActs
    <3>4. todo' = <<F>> \o Tail(todo)
      BY <3>3 DEF InitializeTLSSession, Fail, F
    <3> PICK t : t = Tail(todo)
      OBVIOUS
    <3>5. ASequence(t)
      BY <2>1, Sequences, Rests DEF Nil
    <3> PICK n : n = todo'
      OBVIOUS
    <3>6. n = F & t
      BY <3>4 DEF &
    <3>7. n # Nil /\ n[1] = F
      BY <3>5, <3>6, ConsNotNil, ConsParts
    <3> QED BY <3>7
  <2> QED BY <2>3, <2>4
<1>2. CASE ServerNext \/ ConnectionLost \/ UNCHANGED vars
  <2>1. UNCHANGED client
    BY <1>2, ServerLeaves DEF ConnectionLost, vars
  <2>2. UNCHANGED <<todo, outcome, scheme, tls>>
    BY <2>1 DEF client, choice
  <2>3. SubAuth' <=> SubAuth
    BY <2>2 DEF SubAuth
  <2> QED BY <2>2, <2>3 DEF InTLS, Nil, F, L
<1> QED BY <1>1, <1>2 DEF Next, Ended

LEMMA UpwardKeeps ==
  ASSUME Conv, ShapeInv, ChoiceInv, LayerInv, Upward, [Next]_vars
  PROVE  Upward'
BY NoneYetKeeps, InTLSKeeps DEF Upward

-------------------------------------------------------------------------------
(* What the library of SASL has seen, once its layer is on. *)
Verified == saslconn => sasl.calls >= 1 /\ sasl.ok /\ sasl.given = 2 * Half

LEMMA SaslUnsettled ==
  ASSUME Conv, ShapeInv, ChoiceInv, NEW w, w \in {"saslStart", "saslStep"}, At("local", w)
  PROVE  ~saslconn
<1> PICK t : t = Tail(todo)
  OBVIOUS
<1>1. \E p, d : /\ Ghost(p, d) /\ AllOp(p, "write") /\ ASequence(d) /\ ASequence(Other(d))
                /\ \/ p = Nil /\ taken = Both /\ TalkLocal(Both, w, t, Other(d))
                   \/ Inner(p, Other(d), ServerHandler(Type)) /\ EarlyLocal(Both, w, t, ServerHandler(Type))
  <2> HIDE DEF Agreed
  <2> QED BY LocalCases
<1>2. PICK s : TalkLocal(Both, w, t, s) \/ EarlyLocal(Both, w, t, s)
  BY <1>1
<1>3. ASSUME NEW x, SaslAsks(x, s) PROVE ~saslconn
  BY <1>3 DEF SaslAsks, SaslGoesOn, SaslVerdict, Calm
<1>4. w \notin Locals
  BY DEF Locals
<1>5. Calm => ~saslconn
  BY DEF Calm
<1>6. ASSUME NEW tk, NEW x, Behind(tk, x, s) PROVE ~saslconn
  BY <1>6 DEF Behind
<1> QED BY <1>2, <1>3, <1>4, <1>5, <1>6 DEF TalkLocal, EarlyLocal

LEMMA VerifiedKeeps ==
  ASSUME Conv, ShapeInv, ChoiceInv, Verified, [Next]_vars
  PROVE  Verified'
<1>1. CASE ClientNext
  <2>1. CASE SaslStart \/ SaslStep
    <3>1. ~saslconn
      BY <2>1, SaslUnsettled DEF SaslStart, SaslStep
    <3>2. UNCHANGED saslconn
      BY <2>1 DEF SaslStart, SaslStep
    <3> QED BY <3>1, <3>2 DEF Verified
  <2>2. CASE ~SaslStart /\ ~SaslStep
    <3>1. UNCHANGED <<mech, sasl>>
      BY <1>1, <2>2, ClientActs
    <3>2. Half' = Half
      BY <3>1 DEF Half
    <3>3. CASE UNCHANGED saslconn
      BY <3>1, <3>2, <3>3 DEF Verified
    <3>4. CASE ReadSaslResult
      <4>1. saslconn' => saslconn \/ (sasl.ok /\ sasl.given = 2 * Half /\ sasl.calls \in Nat \ {0})
        BY <3>4, SaslResultKeeps
      <4>2. sasl.calls \in Nat \ {0} => sasl.calls >= 1
        OBVIOUS
      <4> HIDE DEF Half
      <4> QED BY <3>1, <3>2, <4>1, <4>2 DEF Verified
    <3> QED BY <1>1, <3>3, <3>4, ClientActs
  <2> QED BY <2>1, <2>2
<1>2. CASE ServerNext \/ ConnectionLost \/ UNCHANGED vars
  <2>1. UNCHANGED client
    BY <1>2, ServerLeaves DEF ConnectionLost, vars
  <2>2. UNCHANGED <<saslconn, sasl, mech>>
    BY <2>1 DEF client, saslState
  <2> QED BY <2>2 DEF Verified, Half
<1> QED BY <1>1, <1>2 DEF Next, Ended

-------------------------------------------------------------------------------
(* All of it together. *)
TalkInv == ShapeInv /\ Conv /\ LayerInv /\ Upward /\ Verified

LEMMA TalkStarts ==
  ASSUME Init
  PROVE  TalkInv
<1>1. /\ todo = <<R("version")>> \o Z /\ outcome = "going" /\ version = Two(0, 0)
      /\ scheme = NoType /\ sub = NoType /\ ~tls /\ tls \in BOOLEAN /\ ~saslconn
      /\ inbox = Nil /\ toClient = Nil /\ toServer = Nil /\ ~closed /\ taken = Nil /\ serverLayer = "plain"
  BY DEF Init, Z, Two, Nil
<1>2. PICK v \in Versions : steps = <<S("version", v), G("version")>>
  BY DEF Init
<1>3. todo = R("version") & Z /\ ASequence(Z) /\ ASequence(todo)
  <2>1. todo = <<R("version")>> ++ Z
    BY <1>1 DEF ++
  <2>2. ASequence(Z)
    BY ZFacts
  <2> QED BY <2>1, <2>2, Tuple1
<1> PICK d : d = S("version", v) & (G("version") & Nil)
  OBVIOUS
<1>4. steps = d /\ ASequence(d)
  BY <1>2, NilSequence, Tuple2
<1>5. ShapeInv
  <2>1. Simple(R("version")) /\ Shape(Z)
    BY SimpleSteps, ShapeZ
  <2>2. Shape(R("version") & Z)
    BY <2>1, ShapeCons
  <2> QED BY <1>1, <1>3, <2>2 DEF ShapeInv
<1>6. Conv
  <2>1. Ghost(Nil, d)
    <3>1. Written(toServer) = Nil
      BY <1>1, NilSequence, WrittenEnds
    <3> QED BY <1>4, <3>1, AllOpNil DEF Ghost
  <2>2. Side(Nil) = R("version") & Z
    <3>1. Remaining = R("version") & Z
      BY <1>1, <1>3 DEF Remaining
    <3>2. ASequence(R("version") & Z)
      BY <1>3
    <3> QED BY <3>1, <3>2, JoinNil DEF Side
  <2>3. Other(d) = d
    <3>1. Sent(Nil) = Nil
      BY NilSequence, SentEnds
    <3>2. Nil ++ Nil = Nil /\ Nil ++ d = d
      BY <1>4, NilSequence, JoinNil
    <3> QED BY <1>1, <3>1, <3>2 DEF Other
  <2> PICK c : c = R("version") & Z
    OBVIOUS
  <2>4. Greeting(c, d)
    BY <1>1 DEF Greeting, Fresh
  <2>5. Talking(Side(Nil), Other(d))
    BY <2>2, <2>3, <2>4 DEF Talking
  <2> QED BY <2>1, <2>5 DEF Conv
<1>7. LayerInv
  <2>1. AllOn(toServer, layer) /\ AllOn(toClient, layer)
    BY <1>1, AllOnNil
  <2>2. ~Ahead
    BY <1>1 DEF Ahead
  <2> QED BY <1>1, <2>1, <2>2 DEF LayerInv, WrittenOn, SentOn, GetsFirst, Unread
<1>8. Upward
  BY <1>1 DEF Upward, NoneYet, InTLS, SubAuth, NoType
<1>9. Verified
  BY <1>1 DEF Verified
<1> QED BY <1>5, <1>6, <1>7, <1>8, <1>9 DEF TalkInv

LEMMA ShapeStays ==
  ASSUME ShapeInv, ChoiceInv, [Next]_vars
  PROVE  ShapeInv'
<1>1. CASE ClientNext
  BY <1>1, ShapeKeeps DEF ChoiceInv
<1>2. CASE ServerNext \/ ConnectionLost \/ UNCHANGED vars
  <2>1. UNCHANGED client
    BY <1>2, ServerLeaves DEF ConnectionLost, vars
  <2>2. UNCHANGED <<todo, tls>>
    BY <2>1 DEF client
  <2> QED BY <2>2 DEF ShapeInv, Shape, ASequence, Simple, R, L, W, GiveUp, Ready, F, &
<1> QED BY <1>1, <1>2 DEF Next, Ended

LEMMA TalkKeeps ==
  ASSUME ChoiceInv, TalkInv, [Next]_vars
  PROVE  TalkInv'
<1>1. ShapeInv /\ Conv /\ LayerInv /\ Upward /\ Verified
  BY DEF TalkInv
<1>2. ASSUME Fill PROVE \A i \in 1 .. Len(toClient) : toClient[i].layer = layer
  <2>1. ~Ahead
    BY <1>1, <1>2, FillNotAhead
  <2>2. Live
    <3>1. Busy
      BY <1>2 DEF Fill, Doing, Busy, Nil
    <3> QED BY <3>1, BusyGoesOn
  <2>3. AllOn(toClient, layer)
    BY <1>1, <2>1, <2>2 DEF LayerInv, SentOn
  <2> QED BY <2>3 DEF AllOn
<1>3. HandshakeTLS => inbox = Nil
  BY <1>1, HandshakeFacts
<1>4. Conv'
  BY <1>1, <1>2, <1>3, ConvKeeps
<1> QED BY <1>1, <1>4, ShapeStays, LayerKeeps, UpwardKeeps, VerifiedKeeps DEF TalkInv

LEMMA TalkAlways == Spec => []TalkInv
<1>1. Init => TalkInv
  BY TalkStarts
<1>2. ChoiceInv /\ TalkInv /\ [Next]_vars => TalkInv'
  BY TalkKeeps
<1> QED BY <1>1, <1>2, ChoiceAlways, PTL DEF Spec

-------------------------------------------------------------------------------
(* What follows. *)
LEMMA TalkUnverified ==
  ASSUME ChoiceInv, TalkInv
  PROVE  NothingUnverified
<1>1. Conv /\ ShapeInv /\ Verified
  BY DEF TalkInv
<1>2. CASE saslconn
  BY <1>1, <1>2 DEF Verified, Half, NothingUnverified
<1>3. CASE At("local", "saslStrength")
  <2> PICK t : t = Tail(todo)
    OBVIOUS
  <2> PICK w : w = "saslStrength"
    OBVIOUS
  <2>1. \E p, d : /\ Ghost(p, d) /\ AllOp(p, "write") /\ ASequence(d) /\ ASequence(Other(d))
                  /\ \/ p = Nil /\ taken = Both /\ TalkLocal(Both, w, t, Other(d))
                     \/ Inner(p, Other(d), ServerHandler(Type)) /\ EarlyLocal(Both, w, t, ServerHandler(Type))
    <3> HIDE DEF Agreed
    <3> QED BY <1>1, <1>3, LocalCases
  <2>2. PICK s : TalkLocal(Both, w, t, s) \/ EarlyLocal(Both, w, t, s)
    BY <2>1
  <2>3. \E c : SaslClosing(c, s)
    BY <2>2 DEF TalkLocal, EarlyLocal, Locals
  <2>4. Exchanged /\ sasl.ok /\ sasl.given = 2 * Half
    BY <2>3 DEF SaslClosing
  <2>5. sasl.calls \in Nat /\ sasl.calls > 0
    BY <2>4 DEF Exchanged
  <2>6. sasl.calls >= 1
    BY <2>5
  <2> QED BY <2>4, <2>6 DEF Half, NothingUnverified
<1> QED BY <1>2, <1>3 DEF NothingUnverified

LEMMA TalkReadsInStep ==
  ASSUME ChoiceInv, TalkInv, Doing("read"), inbox # Nil
  PROVE  inbox[1].what = todo[1].what
<1>1. Conv /\ ShapeInv /\ outcome = "going" /\ todo # Nil /\ todo[1].op = "read"
  BY DEF TalkInv, Doing, Nil
<1>2. PICK p, d : /\ Ghost(p, d) /\ AllOp(p, "write") /\ ASequence(Later(d)) /\ Next1.op = "send"
                  /\ Next1.what = inbox[1].what
                  /\ Talking(p ++ (R(todo[1].what) & Tail(todo)), Next1 & Later(d))
  BY <1>1, ConvReads
<1> PICK t : t = Tail(todo)
  OBVIOUS
<1> PICK w : w = todo[1].what
  OBVIOUS
<1> PICK b : b = Next1
  OBVIOUS
<1> PICK s : s = Later(d)
  OBVIOUS
<1>3. /\ AllOp(p, "write") /\ ASequence(t) /\ b.op = "send" /\ ASequence(s)
      /\ Talking(p ++ (R(w) & t), b & s)
  BY <1>1, <1>2, Sequences, Rests DEF Nil
<1>4. b.what = w
  BY ONLY <1>3, TalkingReads
<1> QED BY <1>2, <1>4

LEMMA TalkHandshakeInStep ==
  ASSUME ChoiceInv, TalkInv, Doing("tls")
  PROVE  inbox = Nil /\ (toClient # Nil => toClient[1].what = "finished")
<1>1. Conv /\ ShapeInv /\ LayerInv /\ Busy
  BY DEF TalkInv, Doing, Busy, Nil
<1>2. inbox = Nil
  BY <1>1, BusyGoesOn DEF LayerInv, Unread
<1>3. ASSUME toClient # Nil PROVE toClient[1].what = "finished"
  <2> PICK t : t = Tail(todo)
    OBVIOUS
  <2> PICK m : m = Tail(toClient)
    OBVIOUS
  <2> PICK b : b = S(toClient[1].what, toClient[1].val)
    OBVIOUS
  <2>1. /\ ASequence(t) /\ b.op = "send" /\ b.what = toClient[1].what
        /\ \E p, d : /\ AllOp(p, "write") /\ ASequence(Sent(m) ++ d)
                     /\ Talking(p ++ (F & t), b & (Sent(m) ++ d))
    BY <1>1, <1>2, <1>3, ConvTls
  <2>2. PICK p, s : AllOp(p, "write") /\ ASequence(s) /\ Talking(p ++ (F & t), b & s)
    BY <2>1
  <2>3. b = S("finished", 0)
    <3> HIDE DEF Agreed
    <3> QED BY <2>1, <2>2, TalkingTls
  <2> QED BY <2>1, <2>3, Kinds
<1> QED BY <1>2, <1>3

LEMMA TalkGetsInStep ==
  ASSUME ChoiceInv, TalkInv, ~closed, steps # Nil, steps[1].op = "get", toServer # Nil, outcome = "going"
  PROVE  toServer[1].what = steps[1].what /\ toServer[1].layer = serverLayer
<1>1. Conv /\ LayerInv /\ Live
  BY DEF TalkInv, Live
<1> PICK w : w = First1
  OBVIOUS
<1> PICK c : c = Rest1
  OBVIOUS
<1> PICK r : r = Under
  OBVIOUS
<1> PICK g : g = steps[1]
  OBVIOUS
<1> PICK s : s = Tail(steps)
  OBVIOUS
<1>2. /\ w.op = "write" /\ ASequence(c) /\ AllOp(r, "send") /\ g.op = "get" /\ ASequence(s)
      /\ Talking(w & c, r ++ (g & s))
  BY <1>1, ConvGets
<1>3. g.what = w.what /\ serverLayer = layer
  BY ONLY <1>2, TalkingGets
<1>4. w.what = toServer[1].what
  BY <1>1, ConvGets
<1>5. toServer[1].layer = layer
  <2>1. Len(toServer) \in Nat \ {0}
    BY Sequences, Rests DEF Nil
  <2> QED BY <1>1, <2>1 DEF LayerInv, WrittenOn, AllOn
<1> QED BY <1>3, <1>4, <1>5

LEMMA TalkInStep ==
  ASSUME ChoiceInv, TalkInv
  PROVE  InStep
BY TalkReadsInStep, TalkHandshakeInStep, TalkGetsInStep DEF InStep, Nil

(* Once the client has joined, nothing is left of the opening.              *)
LEMMA JoinedAlone ==
  ASSUME ChoiceInv, NEW p, AllOp(p, "write"), NEW d, ASequence(d),
         Near(Ordinary, Ready & Nil, Nil, p ++ (Ready & Nil), Other(d))
  PROVE  inbox = Nil /\ toClient = Nil
<1> USE Lasts
<1>0. ASequence(Nil) /\ ASequence(inbox) /\ ASequence(toClient) /\ ASequence(p)
  BY NilSequence, Sequences, AllOpSequence
<1>1. CASE p = Nil
  <2>1. p ++ (Ready & Nil) = Ready & Nil
    BY <1>0, <1>1, JoinNil, ConsSequence
  <2>2. \/ Other(d) = Nil
        \/ Ready.op = "local"
        \/ \E b : Meets(Ready, b)
    BY <1>0, <2>1, NearCases
  <2>3. Other(d) = Nil
    BY <2>2 DEF Meets
  <2>4. ASequence(Sent(inbox)) /\ ASequence(Sent(toClient))
    BY <1>0, SentFacts
  <2>5. Sent(inbox) ++ Sent(toClient) = Nil
    BY <2>3, <2>4, JoinSequence, JoinNilBoth DEF Other
  <2> QED BY <1>0, <2>4, <2>5, JoinNilBoth, SentNil
<1>2. CASE p # Nil
  <2>1. PICK w, p1 : AllOp(p1, "write") /\ w.op = "write" /\ p = w & p1
    BY <1>2, AllOpCases
  <2> PICK c : c = p1 ++ (Ready & Nil)
    OBVIOUS
  <2>2. ASequence(c) /\ p ++ (Ready & Nil) = w & c
    BY <1>0, <2>1, AllOpSequence, ConsSequence, JoinSequence, JoinCons
  <2>3. w & c # Ready & Nil
    BY <1>0, <2>1, <2>2, ConsEqual
  <2>4. PICK b, s : ASequence(s) /\ Other(d) = b & s /\ Meets(w, b)
    BY <2>1, <2>2, <2>3, NearCases
  <2>5. b.op # "send"
    BY <2>1, <2>4, Kinds DEF Meets
  <2> QED BY <2>4, <2>5, NothingUnder
<1> QED BY <1>1, <1>2

(* A client that is ready has gone on with a type that the server knows of. *)
LEMMA JoinedStraight ==
  ASSUME ChoiceInv, NEW p, AllOp(p, "write"), NEW s, Talking(p ++ (Ready & Nil), s)
  PROVE  Agreed /\ taken = Both /\ Both # Nil /\ Joining(p ++ (Ready & Nil), s)
<1> USE Lasts
<1>0. ASequence(Nil)
  BY NilSequence
<1> PICK c : c = p ++ (Ready & Nil)
  OBVIOUS
<1>1. Finishes(c)
  BY DEF Finishes
<1>2. ~Ends(c)
  BY <1>0, EndsNext
<1>3. ~Greeting(c, s)
  BY <1>0, GreetingNext
<1>4. ~WordTalk(c, s)
  <2>1. \A w : c # R(w) & Z /\ c # L(w) & Z
    BY <1>0, ZFacts, NextIs, Kinds
  <2> QED BY <2>1 DEF WordTalk
<1>5. ~Listing(c, s)
  BY <1>0, ListingDone, Kinds
<1>6. ~VeListing(c, s)
  BY <1>0, VeListingDone, Kinds
<1>7. ~Pending(c, s)
  <2> SUFFICES ASSUME Pending(c, s) PROVE FALSE
    OBVIOUS
  <2>1. PICK p1 : AllOp(p1, "write") /\ Early(Both, p1 ++ (Ready & Nil), ServerHandler(Type))
    BY <1>0, PendingParts
  <2>2. Finishes(p1 ++ (Ready & Nil))
    BY <2>1 DEF Finishes
  <2> QED BY <2>1, <2>2, EarlyFacts
<1>8. Agreed /\ Straight(c, s)
  <2> HIDE DEF Agreed
  <2> QED BY <1>2, <1>3, <1>4, <1>5, <1>6, <1>7 DEF Talking
<1> QED BY <1>1, <1>8, TalkFacts DEF Straight

LEMMA TalkJoined ==
  ASSUME ChoiceInv, TalkInv
  PROVE  JoinedTogether
<1> SUFFICES ASSUME outcome = "ready" PROVE JoinedTogether
  BY DEF JoinedTogether
<1>1. PICK p, d : Ghost(p, d) /\ Talking(p ++ (Ready & Nil), Other(d))
  BY DEF TalkInv, Conv, Side, Remaining
<1>2. AllOp(p, "write") /\ ASequence(d)
  BY <1>1 DEF Ghost
<1>3. Agreed /\ taken = Both /\ Both # Nil /\ Joining(p ++ (Ready & Nil), Other(d))
  <2> HIDE DEF Agreed
  <2> QED BY <1>1, <1>2, JoinedStraight
<1>4. verdict = "ok" /\ serverLayer = layer /\ inbox = Nil /\ toClient = Nil
  BY <1>2, <1>3, JoinedAlone DEF Joining
<1>5. reply = version
  BY <1>3 DEF Agreed
<1>6. taken = IF sub = NoType THEN <<scheme>> ELSE <<scheme, sub>>
  BY <1>3 DEF Both, One, Two
<1> QED BY <1>4, <1>5, <1>6 DEF JoinedTogether, Nil

(* In every behaviour, what the client reads is what it waits for, what it  *)
(* finds in the handshake is the server's last part of it and nothing it    *)
(* has read ahead, and what the server takes from a client that is still    *)
(* there is the message it expects, on the layer it expects it on.          *)
THEOREM InStepAlways == Spec => []InStep
<1>1. ChoiceInv /\ TalkInv => InStep
  BY TalkInStep
<1> QED BY <1>1, ChoiceAlways, TalkAlways, PTL

(* In every behaviour, a client that has joined agrees with its server on   *)
(* the version, the authentication and the layer, was let in, and has read  *)
(* everything it has been sent.                                             *)
THEOREM JoinedAlways == Spec => []JoinedTogether
<1>1. ChoiceInv /\ TalkInv => JoinedTogether
  BY TalkJoined
<1> QED BY <1>1, ChoiceAlways, TalkAlways, PTL

(* In every behaviour, the library of SASL has completed the exchange, and  *)
(* has been given every message of the server's, before the client asks it  *)
(* for a strength or lets it protect the connection.                        *)
THEOREM VerifiedAlways == Spec => []NothingUnverified
<1>1. ChoiceInv /\ TalkInv => NothingUnverified
  BY TalkUnverified
<1> QED BY <1>1, ChoiceAlways, TalkAlways, PTL
===============================================================================
