----------------------------- MODULE SessionProofs -----------------------------
(***************************************************************************)
(* Proofs about Session: whatever versions servers announce, whatever       *)
(* security types and VeNCrypt types they list, and wherever the connection *)
(* is lost,                                                                 *)
(*   - the client gives up over the security types only for want of one it  *)
(*     knows, and                                                           *)
(*   - it crashes only in the command of --auth-command, where a password,  *)
(*     or a name and password of fixed size, is asked for.                  *)
(*                                                                         *)
(* Both are about the steps the client still has ahead: which of them may   *)
(* follow which, and in which state of the choice of types each may be      *)
(* reached.  What the server sends matters only for the lengths of lists.   *)
(*                                                                          *)
(* The second part says what a conversation is: a relation Talking between  *)
(* what the client still does and what the server still does, and a lemma   *)
(* for each way in which one of the two goes on.  It is without states of   *)
(* the wire; ConversationProofs puts it to use.                             *)
(***************************************************************************)
EXTENDS Session, SequenceTheorems, TLAPS

-------------------------------------------------------------------------------
(* What the client's steps depend on. *)

Deciding == {"version", "word", "count", "type", "switch", "veVersion", "veStatus",
             "veCount", "veType", "veSwitch", "veAccepted"}

(* A step that the choice of a security type, or of a VeNCrypt type, needs; *)
(* one after which a password may be asked for; the end for lack of a type. *)
Decides(x) == x.op \in {"read", "local"} /\ x.what \in Deciding
Asks(x) ==
  /\ x.op \in {"read", "local"}
  /\ x.what \in {"password", "credential", "saslStart", "saslStep", "saslComplete"}
Hopeless(x) == x.op = "stop" /\ x.what = "unknown"

(* The only deciding steps that others may follow. *)
After(what) ==
  CASE what = "type" -> {"type", "switch"}
    [] what = "veType" -> {"veType", "veSwitch"}
    [] what = "veStatus" -> {"veCount"}
    [] OTHER -> {}
Settles(x) == Decides(x) /\ x.what \notin {"type", "veType", "veStatus"}

Ordered(t) ==
  \A i, j \in 1 .. Len(t) : Decides(t[i]) =>
    /\ i < j /\ Decides(t[j]) => t[j].what \in After(t[i].what)
    /\ ~Asks(t[j]) /\ ~Hopeless(t[j])

(* What the client sends that the server's steps depend on. *)
Sound(what, val) ==
  /\ what = "lengths" => val[1] \in 0 .. 1 /\ val[2] \in 0 .. 1
  /\ what = "veChoice" => val \in VeNCryptTypes
Proper(x) ==
  /\ x.op = "write" => x = W(x.what, x.val) /\ Sound(x.what, x.val)
  /\ x.op = "stop" => x.what \in {"refused", "unknown"}

Type == IF sub # NoType THEN sub ELSE scheme
Crashing == {"VNC", "SASL", "ARD", "MSLogon", "MSLogonII"} \cup VNCTypes \cup SASLTypes

(* The state in which a step may be ahead. *)
Fits(x) ==
  /\ Decides(x) =>
       /\ sub = NoType
       /\ x.what = "version" => version = <<0, 0>>
       /\ x.what = "word" => ~Listed(version)
       /\ x.what \in {"type", "switch"} /\ Listed(version) =>
            picked = NoType \/ Selectable(picked, SubAuth)
       /\ x.what = "veVersion" => picked = "VeNCrypt"
       /\ x.what \in {"veType", "veSwitch"} => picked \in VeNCryptTypes \cup {NoType}
       /\ x.what = "veAccepted" => picked \in VeNCryptTypes
  /\ Asks(x) => Type \in Crashing
  /\ Hopeless(x) /\ Listed(version) =>
       picked = NoType \/ (SubAuth /\ picked \in {"ARD", "MSLogonII"})
  /\ Proper(x)

ASequence(q) == \E E : q \in Seq(E)

TodoInv ==
  /\ ASequence(todo)
  /\ Ordered(todo)
  /\ \A i \in 1 .. Len(todo) : Fits(todo[i])

(* Counts are numbers, on the wire and where the server has them from. *)
Counts(what, val) == what \in {"count", "veCount"} => val \in Nat
Message(m) == m = [what |-> m.what, val |-> m.val, layer |-> m.layer]
Counted(ms) == \E E : ms \in Seq(E) /\ \A m \in E : Message(m) /\ Counts(m.what, m.val)
Serving(x) == x.op = "send" => x = S(x.what, x.val) /\ Counts(x.what, x.val)
Serves(q) == \E E : q \in Seq(E) /\ \A x \in E : Serving(x)
Answers(ms) == \E E : ms \in Seq(E) /\ \A m \in E : Sound(m.what, m.val)

WireInv ==
  /\ Counted(inbox) /\ Counted(toClient)
  /\ Serves(steps)
  /\ Answers(toServer)

ChoiceInv == TodoInv /\ WireInv /\ ChoiceHandled /\ CrashesOnly

-------------------------------------------------------------------------------
(* Sequences. *)

LEMMA Concats ==
  ASSUME NEW q, ASequence(q), NEW r, ASequence(r)
  PROVE  /\ ASequence(q \o r)
         /\ Len(q) \in Nat /\ Len(r) \in Nat /\ Len(q \o r) = Len(q) + Len(r)
         /\ \A i \in 1 .. Len(q) + Len(r) :
              (q \o r)[i] = IF i <= Len(q) THEN q[i] ELSE r[i - Len(q)]
<1> PICK E1 : q \in Seq(E1)
  BY DEF ASequence
<1> PICK E2 : r \in Seq(E2)
  BY DEF ASequence
<1>1. q \in Seq(E1 \cup E2) /\ r \in Seq(E1 \cup E2)
  BY SeqMonotonic
<1> HIDE DEF ASequence
<1>2. ASequence(q \o r)
  BY <1>1, ConcatProperties DEF ASequence
<1>3. Len(q) \in Nat /\ Len(r) \in Nat
  BY LenProperties
<1> QED
  BY <1>1, <1>2, <1>3, ConcatProperties

LEMMA Rests ==
  ASSUME NEW q, ASequence(q), q # <<>>
  PROVE  /\ ASequence(Tail(q))
         /\ Len(q) \in Nat \ {0} /\ Len(Tail(q)) = Len(q) - 1
         /\ \A i \in 1 .. Len(q) - 1 : Tail(q)[i] = q[i + 1]
<1> PICK E : q \in Seq(E)
  BY DEF ASequence
<1> QED
  BY HeadTailProperties, LenProperties, EmptySeq DEF ASequence

LEMMA EmptySequence == ASequence(<<>>) /\ Len(<<>>) = 0
BY EmptySeq DEF ASequence

-------------------------------------------------------------------------------
(* Steps that no decision depends on. *)

Bare(x) == ~Decides(x) /\ ~Asks(x) /\ ~Hopeless(x) /\ Proper(x)
AllBare(q) == ASequence(q) /\ \A i \in 1 .. Len(q) : Bare(q[i])
Undeciding(q) ==
  ASequence(q) /\ \A i \in 1 .. Len(q) : ~Decides(q[i]) /\ ~Hopeless(q[i]) /\ Proper(q[i])

LEMMA BareOrdered ==
  ASSUME NEW q, AllBare(q) \/ Undeciding(q)
  PROVE  ASequence(q) /\ Ordered(q)
BY DEF AllBare, Undeciding, Bare, Ordered

LEMMA BareConcat ==
  ASSUME NEW q, AllBare(q), NEW r, AllBare(r)
  PROVE  AllBare(q \o r)
<1>1. ASequence(q) /\ ASequence(r)
  BY DEF AllBare
<1> DEFINE x == q \o r
<1>2. ASequence(x) /\ Len(x) = Len(q) + Len(r) /\ Len(q) \in Nat /\ Len(r) \in Nat
      /\ \A i \in 1 .. Len(q) + Len(r) : x[i] = IF i <= Len(q) THEN q[i] ELSE r[i - Len(q)]
  BY <1>1, Concats
<1> HIDE DEF x
<1>3. ASSUME NEW i \in 1 .. Len(x) PROVE Bare(x[i])
  <2>1. CASE i <= Len(q)
    BY <2>1, <1>2 DEF AllBare
  <2>2. CASE i > Len(q)
    <3>1. i - Len(q) \in 1 .. Len(r)
      BY <2>2, <1>2
    <3> QED BY <2>2, <3>1, <1>2 DEF AllBare
  <2> QED BY <2>1, <2>2, <1>2
<1>4. AllBare(x)
  BY <1>2, <1>3 DEF AllBare
<1> QED BY <1>4 DEF x

(* Once that is settled, nothing that is ahead depends on the choice. *)
LEMMA SettledRest ==
  ASSUME TodoInv, todo # <<>>, Settles(todo[1])
  PROVE  \A j \in 2 .. Len(todo) : Bare(todo[j])
<1>1. Len(todo) \in Nat \ {0}
  BY Rests DEF TodoInv
<1>2. \A j \in 2 .. Len(todo) : ~Asks(todo[j]) /\ ~Hopeless(todo[j]) /\ Proper(todo[j])
  BY <1>1 DEF Settles, TodoInv, Ordered, Fits
<1>3. After(todo[1].what) = {}
  BY DEF Settles, After
<1>4. \A j \in 2 .. Len(todo) : ~Decides(todo[j])
  BY <1>1, <1>3 DEF Settles, TodoInv, Ordered
<1> QED BY <1>2, <1>4 DEF Bare

(* The first step is done, and others take its place. *)
LEMMA Replaced ==
  ASSUME TodoInv, todo # <<>>, NEW next, ASequence(next), Ordered(next),
         \/ \A i \in 1 .. Len(next) : ~Decides(next[i]) /\ ~Asks(next[i]) /\ ~Hopeless(next[i])
         \/ Asks(todo[1]) /\ \A i \in 1 .. Len(next) : ~Decides(next[i]) /\ ~Hopeless(next[i])
         \/ Settles(todo[1])
  PROVE  LET new == next \o Tail(todo)
         IN /\ ASequence(new) /\ Ordered(new)
            /\ \A i \in 1 .. Len(new) :
                 \/ \E j \in 1 .. Len(next) : new[i] = next[j]
                 \/ \E j \in 2 .. Len(todo) : new[i] = todo[j]
<1> DEFINE rest == Tail(todo)
           new == next \o rest
<1>1. /\ ASequence(rest) /\ Len(todo) \in Nat \ {0} /\ Len(rest) = Len(todo) - 1
      /\ \A i \in 1 .. Len(todo) - 1 : rest[i] = todo[i + 1]
  BY Rests DEF TodoInv
<1> HIDE DEF rest
<1>2. /\ ASequence(new) /\ Len(next) \in Nat /\ Len(new) = Len(next) + Len(rest)
      /\ \A i \in 1 .. Len(next) + Len(rest) :
           new[i] = IF i <= Len(next) THEN next[i] ELSE rest[i - Len(next)]
  BY <1>1, Concats
<1> HIDE DEF new
<1>3. \A i \in 1 .. Len(new) :
        \/ i <= Len(next) /\ i \in 1 .. Len(next) /\ new[i] = next[i]
        \/ /\ i > Len(next) /\ (i - Len(next)) + 1 \in 2 .. Len(todo)
           /\ new[i] = todo[(i - Len(next)) + 1]
  <2> TAKE i \in 1 .. Len(new)
  <2>1. CASE i <= Len(next)
    BY <2>1, <1>1, <1>2
  <2>2. CASE i > Len(next)
    <3>1. i - Len(next) \in 1 .. Len(todo) - 1
      BY <2>2, <1>1, <1>2
    <3> QED BY <2>2, <3>1, <1>1, <1>2
  <2> QED BY <2>1, <2>2, <1>1, <1>2
<1>4. ASSUME Settles(todo[1]) PROVE \A j \in 2 .. Len(todo) : Bare(todo[j])
  BY <1>4, SettledRest
<1>5. ASSUME Asks(todo[1]) PROVE \A j \in 2 .. Len(todo) : ~Decides(todo[j])
  BY <1>1, <1>5 DEF TodoInv, Ordered
<1>6. Ordered(todo)
  BY DEF TodoInv
<1>7. ASSUME NEW i \in 1 .. Len(new), NEW j \in 1 .. Len(new), Decides(new[i])
      PROVE  /\ i < j /\ Decides(new[j]) => new[j].what \in After(new[i].what)
             /\ ~Asks(new[j]) /\ ~Hopeless(new[j])
  <2>1. CASE i <= Len(next) /\ j <= Len(next)
    BY <2>1, <1>3, <1>7 DEF Ordered
  <2>2. CASE i > Len(next) /\ j > Len(next)
    <3> DEFINE k == (i - Len(next)) + 1
               l == (j - Len(next)) + 1
    <3>1. k \in 1 .. Len(todo) /\ l \in 1 .. Len(todo) /\ new[i] = todo[k] /\ new[j] = todo[l]
          /\ (i < j => k < l)
      BY <2>2, <1>1, <1>2, <1>3
    <3> HIDE DEF k, l
    <3> QED BY <3>1, <1>6, <1>7 DEF Ordered
  <2>3. CASE i <= Len(next) /\ j > Len(next)
    <3> DEFINE l == (j - Len(next)) + 1
    <3>1. new[i] = next[i] /\ i \in 1 .. Len(next) /\ l \in 2 .. Len(todo) /\ new[j] = todo[l]
      BY <2>3, <1>3
    <3>2. Settles(todo[1])
      BY <3>1, <1>7
    <3> HIDE DEF l
    <3> QED BY <3>1, <3>2, <1>4 DEF Bare
  <2>4. CASE i > Len(next) /\ j <= Len(next)
    <3> DEFINE k == (i - Len(next)) + 1
    <3>1. new[j] = next[j] /\ j \in 1 .. Len(next) /\ k \in 2 .. Len(todo) /\ new[i] = todo[k]
          /\ ~(i < j)
      BY <2>4, <1>2, <1>3
    <3> HIDE DEF k
    <3>2. ~Settles(todo[1]) /\ ~Asks(todo[1])
      BY <3>1, <1>4, <1>5, <1>7 DEF Bare
    <3> QED BY <3>1, <3>2
  <2> QED BY <2>1, <2>2, <2>3, <2>4, <1>2
<1>8. Ordered(new)
  BY <1>7 DEF Ordered
<1>9. \A i \in 1 .. Len(new) :
        \/ \E j \in 1 .. Len(next) : new[i] = next[j]
        \/ \E j \in 2 .. Len(todo) : new[i] = todo[j]
  BY <1>3
<1> QED
  BY <1>2, <1>8, <1>9 DEF new, rest

LEMMA BareFits == \A x : Bare(x) => Fits(x)'
BY DEF Bare, Fits

LEMMA OnlyBare == AllBare(todo') => TodoInv'
<1> SUFFICES ASSUME AllBare(todo') PROVE TodoInv'
  OBVIOUS
<1>1. ASSUME NEW i \in 1 .. Len(todo') PROVE Fits(todo[i])'
  BY BareFits DEF AllBare
<1> QED
  BY <1>1, BareOrdered DEF TodoInv

LEMMA KeptFits == UNCHANGED choice => \A x : Fits(x) => Fits(x)'
BY DEF choice, Fits, Type, SubAuth

(* The choice of types stays as it is, and no more steps depend on it. *)
LEMMA GoesOn ==
  ASSUME TodoInv, todo # <<>>, UNCHANGED choice, NEW next, todo' = next \o Tail(todo),
         AllBare(next) \/ (Asks(todo[1]) /\ Undeciding(next))
  PROVE  TodoInv'
<1>1. ASequence(next) /\ Ordered(next)
  BY BareOrdered
<1>2. /\ ASequence(todo') /\ Ordered(todo')
      /\ \A i \in 1 .. Len(todo') :
           \/ \E j \in 1 .. Len(next) : todo'[i] = next[j]
           \/ \E j \in 2 .. Len(todo) : todo'[i] = todo[j]
  BY <1>1, Replaced DEF AllBare, Undeciding, Bare
<1>3. Len(todo) \in Nat \ {0}
  BY Rests DEF TodoInv
<1>4. \A j \in 1 .. Len(todo) : Fits(todo[j])
  BY DEF TodoInv
<1>5. ASSUME NEW j \in 1 .. Len(next), NEW x, x = next[j] PROVE Fits(x)'
  <2>1. CASE AllBare(next)
    BY <1>5, <2>1, BareFits DEF AllBare
  <2>2. CASE Asks(todo[1]) /\ Undeciding(next)
    <3>1. Type \in Crashing
      BY <1>3, <1>4, <2>2 DEF Fits
    <3>2. Type' \in Crashing
      BY <3>1 DEF choice, Type, Crashing
    <3> QED BY <1>5, <2>2, <3>2 DEF Undeciding, Fits
  <2> QED BY <2>1, <2>2
<1>6. ASSUME NEW i \in 1 .. Len(todo') PROVE Fits(todo[i])'
  <2> PICK x : x = todo'[i]
    OBVIOUS
  <2>1. CASE \E j \in 1 .. Len(next) : x = next[j]
    <3> Fits(x)'
      BY <2>1, <1>5
    <3> QED BY DEF Fits
  <2>2. CASE \E j \in 2 .. Len(todo) : x = todo[j]
    <3> Fits(x)
      BY <2>2, <1>3, <1>4
    <3> Fits(x)'
      BY KeptFits
    <3> QED BY DEF Fits
  <2> QED BY <1>2, <2>1, <2>2
<1> QED
  BY <1>2, <1>6 DEF TodoInv

(* Something is settled, and what comes next depends on that. *)
LEMMA Settled ==
  ASSUME TodoInv, todo # <<>>, Settles(todo[1]), NEW next, todo' = next \o Tail(todo),
         ASequence(next), Ordered(next),
         \A x : (\E j \in 1 .. Len(next) : x = next[j]) => Fits(x)'
  PROVE  TodoInv'
<1>1. /\ ASequence(todo') /\ Ordered(todo')
      /\ \A i \in 1 .. Len(todo') :
           \/ \E j \in 1 .. Len(next) : todo'[i] = next[j]
           \/ \E j \in 2 .. Len(todo) : todo'[i] = todo[j] /\ Bare(todo[j])
  BY Replaced, SettledRest
<1>2. ASSUME NEW i \in 1 .. Len(todo') PROVE Fits(todo[i])'
  <2> PICK x : x = todo'[i]
    OBVIOUS
  <2>1. (\E j \in 1 .. Len(next) : x = next[j]) \/ Bare(x)
    BY <1>1
  <2> Fits(x)'
    BY <2>1, BareFits
  <2> QED BY DEF Fits
<1> QED
  BY <1>1, <1>2 DEF TodoInv

(* An entry of a list is read. *)
LEMMA EntryRead ==
  ASSUME TodoInv, todo # <<>>, todo' = Tail(todo),
         NEW x, x = todo[1], Decides(x), x.what \in {"type", "veType"},
         UNCHANGED <<version, scheme, sub>>,
         x.what = "type" => Selectable(picked', SubAuth),
         x.what = "veType" => picked' \in VeNCryptTypes
  PROVE  TodoInv'
<1>1. /\ ASequence(Tail(todo)) /\ Len(todo) \in Nat \ {0} /\ Len(Tail(todo)) = Len(todo) - 1
      /\ \A i \in 1 .. Len(todo) - 1 : Tail(todo)[i] = todo[i + 1]
  BY Rests DEF TodoInv
<1>2. ASequence(todo') /\ Ordered(todo')
  <2>1. Ordered(todo)
    BY DEF TodoInv
  <2>2. \A i \in 1 .. Len(todo') : i + 1 \in 1 .. Len(todo) /\ todo'[i] = todo[i + 1]
    BY <1>1
  <2>3. ASSUME NEW i \in 1 .. Len(todo'), NEW j \in 1 .. Len(todo'), Decides(todo'[i])
        PROVE  /\ i < j /\ Decides(todo'[j]) => todo'[j].what \in After(todo'[i].what)
               /\ ~Asks(todo'[j]) /\ ~Hopeless(todo'[j])
    <3> DEFINE k == i + 1
               l == j + 1
    <3>1. k \in 1 .. Len(todo) /\ l \in 1 .. Len(todo) /\ todo'[i] = todo[k] /\ todo'[j] = todo[l]
          /\ (i < j => k < l)
      BY <2>2, <1>1
    <3> HIDE DEF k, l
    <3> QED BY <2>1, <2>3, <3>1 DEF Ordered
  <2> QED BY <1>1, <2>3 DEF Ordered
<1>3. sub = NoType
  BY <1>1 DEF TodoInv, Fits
<1>4. ASSUME NEW j \in 2 .. Len(todo), NEW y, y = todo[j] PROVE Fits(y)'
  <2>1. ~Asks(y) /\ ~Hopeless(y) /\ Proper(y)
    BY <1>1, <1>4 DEF TodoInv, Ordered, Fits
  <2>2. Decides(y) => y.what \in After(x.what)
    BY <1>1, <1>4 DEF TodoInv, Ordered
  <2>3. Decides(y) => IF x.what = "type" THEN y.what \in {"type", "switch"}
                                         ELSE y.what \in {"veType", "veSwitch"}
    BY <2>2 DEF After
  <2>4. SubAuth' = SubAuth
    BY DEF SubAuth
  <2> QED BY <2>1, <2>3, <2>4, <1>3 DEF Fits
<1>5. ASSUME NEW i \in 1 .. Len(todo') PROVE Fits(todo[i])'
  <2>1. i + 1 \in 2 .. Len(todo) /\ todo'[i] = todo[i + 1]
    BY <1>1
  <2> PICK y : y = todo'[i]
    OBVIOUS
  <2>2. \E j \in 2 .. Len(todo) : y = todo[j]
    BY <2>1
  <2> Fits(y)'
    BY <2>2, <1>4
  <2> QED BY DEF Fits
<1> QED
  BY <1>2, <1>5 DEF TodoInv

-------------------------------------------------------------------------------
(* The steps of each handler. *)

LEMMA BareEmpty == AllBare(<<>>)
BY EmptySequence DEF AllBare

LEMMA BareOne ==
  ASSUME NEW x, Bare(x)
  PROVE  AllBare(<<x>>)
<1> DEFINE q == <<x>>
<1>1. q \in Seq({x}) /\ \A i \in 1 .. Len(q) : q[i] = x
  OBVIOUS
<1> HIDE DEF q
<1>2. AllBare(q)
  BY <1>1 DEF AllBare, ASequence
<1> QED BY <1>2 DEF q

LEMMA BareRepeat ==
  ASSUME NEW n \in Nat, NEW x, Bare(x)
  PROVE  AllBare(Repeat(n, x))
<1> DEFINE q == Repeat(n, x)
<1>1. q \in [1 .. n -> {x}] /\ Len(q) = n /\ q \in Seq({x})
  BY DEF Repeat
<1>2. \A i \in 1 .. n : q[i] = x
  BY DEF Repeat
<1> HIDE DEF q
<1>3. AllBare(q)
  BY <1>1, <1>2 DEF AllBare, ASequence
<1> QED BY <1>3 DEF q

LEMMA BareSteps ==
  /\ \A what :
       what \notin Deciding \cup
           {"password", "credential", "saslStart", "saslStep", "saslComplete"}
         => Bare(R(what)) /\ Bare(L(what))
  /\ \A what, val : Sound(what, val) => Bare(W(what, val))
  /\ Bare(GiveUp("refused"))
BY DEF Bare, Decides, Asks, Hopeless, Proper, R, L, W, GiveUp

LEMMA UndecidingSteps ==
  /\ \A what : what \notin Deciding =>
       /\ ~Decides(R(what)) /\ ~Hopeless(R(what)) /\ Proper(R(what))
       /\ ~Decides(L(what)) /\ ~Hopeless(L(what)) /\ Proper(L(what))
  /\ \A what, val : Sound(what, val) =>
       ~Decides(W(what, val)) /\ ~Hopeless(W(what, val)) /\ Proper(W(what, val))
BY DEF Decides, Hopeless, Proper, R, L, W

LEMMA Reasons == AllBare(ReadReason)
<1> DEFINE a == R("reasonLength")
           b == R("reason")
           c == GiveUp("refused")
<1>1. Bare(a) /\ Bare(b) /\ Bare(c)
  BY BareSteps DEF Deciding
<1> HIDE DEF a, b, c
<1>2. <<a, b, c>> \in Seq({a, b, c}) /\
     \A i \in 1 .. Len(<<a, b, c>>) : <<a, b, c>>[i] \in {a, b, c}
  OBVIOUS
<1>3. AllBare(<<a, b, c>>)
  BY <1>1, <1>2 DEF AllBare, ASequence
<1> QED BY <1>3 DEF ReadReason, a, b, c

LEMMA Results == AllBare(rfbHandleAuthResult)
BY BareOne, BareSteps DEF rfbHandleAuthResult, Deciding

LEMMA UndecidingConcat ==
  ASSUME NEW q, Undeciding(q), NEW r, Undeciding(r)
  PROVE  Undeciding(q \o r)
<1>1. ASequence(q) /\ ASequence(r)
  BY DEF Undeciding
<1> DEFINE x == q \o r
<1>2. ASequence(x) /\ Len(x) = Len(q) + Len(r) /\ Len(q) \in Nat /\ Len(r) \in Nat
      /\ \A i \in 1 .. Len(q) + Len(r) : x[i] = IF i <= Len(q) THEN q[i] ELSE r[i - Len(q)]
  BY <1>1, Concats
<1> HIDE DEF x
<1>3. ASSUME NEW i \in 1 .. Len(x)
      PROVE  ~Decides(x[i]) /\ ~Hopeless(x[i]) /\ Proper(x[i])
  <2>1. CASE i <= Len(q)
    BY <2>1, <1>2 DEF Undeciding
  <2>2. CASE i > Len(q)
    <3>1. i - Len(q) \in 1 .. Len(r)
      BY <2>2, <1>2
    <3> QED BY <2>2, <3>1, <1>2 DEF Undeciding
  <2> QED BY <2>1, <2>2, <1>2
<1>4. Undeciding(x)
  BY <1>2, <1>3 DEF Undeciding
<1> QED BY <1>4 DEF x

LEMMA BareUndeciding == \A q : AllBare(q) => Undeciding(q)
BY DEF AllBare, Undeciding, Bare

(* Each of the handlers that ask for a password, or a name and password. *)
LEMMA AsksVnc == Undeciding(HandleVncAuth)
<1> DEFINE a == R("challenge")
           b == L("password")
           c == W("response", 0)
           q == <<a, b, c>>
<1>1. \A x \in {a, b, c} : ~Decides(x) /\ ~Hopeless(x) /\ Proper(x)
  BY UndecidingSteps DEF Deciding, Sound
<1> HIDE DEF a, b, c
<1>2. q \in Seq({a, b, c}) /\ \A i \in 1 .. Len(q) : q[i] \in {a, b, c}
  OBVIOUS
<1> HIDE DEF q
<1>3. Undeciding(q)
  BY <1>1, <1>2 DEF Undeciding, ASequence
<1>4. Undeciding(q \o rfbHandleAuthResult)
  BY <1>3, Results, BareUndeciding, UndecidingConcat
<1> QED BY <1>4 DEF HandleVncAuth, q, a, b, c

LEMMA AsksMSLogonII == Undeciding(HandleUltraMSLogonIIAuth)
<1> DEFINE a == R("gen")
           b == R("mod")
           c == R("resp")
           d == L("keys")
           e == L("credential")
           f == W("pub", 0)
           g == W("user", 0)
           h == W("password", 0)
           q == <<a, b, c, d, e, f, g, h>>
<1>1. \A x \in {a, b, c, d, e, f, g, h} : ~Decides(x) /\ ~Hopeless(x) /\ Proper(x)
  BY UndecidingSteps DEF Deciding, Sound
<1> HIDE DEF a, b, c, d, e, f, g, h
<1>2. q \in Seq({a, b, c, d, e, f, g, h}) /\
     \A i \in 1 .. Len(q) : q[i] \in {a, b, c, d, e, f, g, h}
  OBVIOUS
<1> HIDE DEF q
<1>3. Undeciding(q)
  BY <1>1, <1>2 DEF Undeciding, ASequence
<1>4. Undeciding(q \o rfbHandleAuthResult)
  BY <1>3, Results, BareUndeciding, UndecidingConcat
<1> QED BY <1>4 DEF HandleUltraMSLogonIIAuth, q, a, b, c, d, e, f, g, h

LEMMA AsksMSLogon == Undeciding(HandleMSLogonAuth)
<1> DEFINE a == R("gen")
           b == R("mod")
           c == R("resp")
           d == L("credential")
           e == W("pub", 0)
           f == W("user", 0)
           g == W("password", 0)
           q == <<a, b, c, d, e, f, g>>
<1>1. \A x \in {a, b, c, d, e, f, g} : ~Decides(x) /\ ~Hopeless(x) /\ Proper(x)
  BY UndecidingSteps DEF Deciding, Sound
<1> HIDE DEF a, b, c, d, e, f, g
<1>2. q \in Seq({a, b, c, d, e, f, g}) /\ \A i \in 1 .. Len(q) : q[i] \in {a, b, c, d, e, f, g}
  OBVIOUS
<1> HIDE DEF q
<1>3. Undeciding(q)
  BY <1>1, <1>2 DEF Undeciding, ASequence
<1>4. Undeciding(q \o rfbHandleAuthResult)
  BY <1>3, Results, BareUndeciding, UndecidingConcat
<1> QED BY <1>4 DEF HandleMSLogonAuth, q, a, b, c, d, e, f, g

LEMMA AsksARD == Undeciding(HandleARDAuth)
<1> DEFINE a == R("gen")
           b == R("keyLength")
           c == L("keys")
           d == R("mod")
           e == R("resp")
           f == L("credential")
           g == W("ciphertext", 0)
           h == W("pub", 0)
           q == <<a, b, c, d, e, c, f, c, g, h>>
<1>1. \A x \in {a, b, c, d, e, f, g, h} : ~Decides(x) /\ ~Hopeless(x) /\ Proper(x)
  BY UndecidingSteps DEF Deciding, Sound
<1> HIDE DEF a, b, c, d, e, f, g, h
<1>2. q \in Seq({a, b, c, d, e, f, g, h}) /\
     \A i \in 1 .. Len(q) : q[i] \in {a, b, c, d, e, f, g, h}
  OBVIOUS
<1> HIDE DEF q
<1>3. Undeciding(q)
  BY <1>1, <1>2 DEF Undeciding, ASequence
<1>4. Undeciding(q \o rfbHandleAuthResult)
  BY <1>3, Results, BareUndeciding, UndecidingConcat
<1> QED BY <1>4 DEF HandleARDAuth, q, a, b, c, d, e, f, g, h

LEMMA AsksSASL == Undeciding(HandleSASLAuth)
<1> DEFINE a == L("saslSetup")
           b == R("mechlistLength")
           c == R("mechlist")
           d == L("saslStart")
           q == <<a, b, c, d>>
<1>1. \A x \in {a, b, c, d} : ~Decides(x) /\ ~Hopeless(x) /\ Proper(x)
  BY UndecidingSteps DEF Deciding, Sound
<1> HIDE DEF a, b, c, d
<1>2. q \in Seq({a, b, c, d}) /\ \A i \in 1 .. Len(q) : q[i] \in {a, b, c, d}
  OBVIOUS
<1> HIDE DEF q
<1>3. Undeciding(q)
  BY <1>1, <1>2 DEF Undeciding, ASequence
<1> QED BY <1>3 DEF HandleSASLAuth, q, a, b, c, d

(* What a list of so many entries is read with. *)
LEMMA ListSteps ==
  ASSUME NEW n \in Nat, NEW entry, NEW last,
         <<entry, last>> \in {<<R("type"), L("switch")>>, <<R("veType"), L("veSwitch")>>}
  PROVE  LET q == Repeat(n, entry) \o <<last>>
         IN /\ ASequence(q) /\ Ordered(q)
            /\ \A i \in 1 .. Len(q) : q[i] = entry \/ q[i] = last
<1>a. ~Asks(entry) /\ ~Hopeless(entry) /\ ~Asks(last) /\ ~Hopeless(last)
  BY DEF Asks, Hopeless, R, L
<1>b. entry.what \in After(entry.what) /\ last.what \in After(entry.what)
  BY DEF R, L, After
<1> DEFINE p == Repeat(n, entry)
           l == <<last>>
           q == p \o l
<1>1. p \in Seq({entry}) /\ Len(p) = n /\ \A i \in 1 .. n : p[i] = entry
  <2>1. p \in [1 .. n -> {entry}] /\ \A i \in 1 .. n : p[i] = entry
    BY DEF Repeat
  <2> HIDE DEF p
  <2>2. p \in Seq({entry}) /\ Len(p) = n
    BY <2>1
  <2> QED BY <2>1, <2>2
<1>2. l \in Seq({last}) /\ Len(l) = 1 /\ l[1] = last
  OBVIOUS
<1>3. ASequence(p) /\ ASequence(l)
  BY <1>1, <1>2 DEF ASequence
<1> HIDE DEF p, l
<1>4. /\ ASequence(q) /\ Len(q) = n + 1
      /\ \A i \in 1 .. n + 1 : q[i] = IF i <= n THEN p[i] ELSE l[i - n]
  BY <1>1, <1>2, <1>3, Concats, ZenonT(40)
<1> HIDE DEF q
<1>5. \A i \in 1 .. Len(q) : q[i] = IF i <= n THEN entry ELSE last
  BY <1>1, <1>2, <1>4
<1>6. ASSUME NEW i \in 1 .. Len(q), NEW j \in 1 .. Len(q), i < j
      PROVE  q[j].what \in After(q[i].what)
  <2>1. i <= n
    BY <1>4, <1>6
  <2>2. q[i] = entry
    BY <1>5, <2>1
  <2>3. q[j] = entry \/ q[j] = last
    BY <1>5
  <2> QED BY <1>b, <2>2, <2>3
<1>7. Ordered(q)
  <2>1. \A i \in 1 .. Len(q) : ~Asks(q[i]) /\ ~Hopeless(q[i])
    BY <1>5, <1>a
  <2> QED BY <1>6, <2>1 DEF Ordered
<1>8. \A i \in 1 .. Len(q) : q[i] = entry \/ q[i] = last
  BY <1>5
<1> QED
  BY <1>4, <1>7, <1>8 DEF q, p, l

(* Two steps, at most one of which depends on the choice. *)
LEMMA TwoSteps ==
  ASSUME NEW a, NEW b, ~Decides(a), ~Asks(a), ~Hopeless(a), ~Asks(b), ~Hopeless(b)
  PROVE  /\ ASequence(<<a, b>>) /\ Ordered(<<a, b>>)
         /\ \A i \in 1 .. Len(<<a, b>>) : <<a, b>>[i] = a \/ <<a, b>>[i] = b
<1> DEFINE q == <<a, b>>
<1>1. q \in Seq({a, b}) /\ Len(q) = 2 /\ q[1] = a /\ q[2] = b
  OBVIOUS
<1> HIDE DEF q
<1>2. ASequence(q)
  BY <1>1 DEF ASequence
<1>3. \A i \in 1 .. Len(q) : (i = 1 /\ q[i] = a) \/ (i = 2 /\ q[i] = b)
  BY <1>1
<1>4. Ordered(q)
  BY <1>1, <1>3 DEF Ordered
<1> QED BY <1>2, <1>3, <1>4 DEF q

LEMMA OneStep ==
  ASSUME NEW a, ~Decides(a) \/ (~Asks(a) /\ ~Hopeless(a))
  PROVE  /\ ASequence(<<a>>) /\ Ordered(<<a>>)
         /\ \A i \in 1 .. Len(<<a>>) : <<a>>[i] = a
<1> DEFINE q == <<a>>
<1>1. q \in Seq({a}) /\ Len(q) = 1 /\ q[1] = a
  OBVIOUS
<1> HIDE DEF q
<1>2. ASequence(q)
  BY <1>1 DEF ASequence
<1>3. \A i \in 1 .. Len(q) : i = 1 /\ q[i] = a
  BY <1>1
<1>4. Ordered(q)
  BY <1>3 DEF Ordered
<1> QED BY <1>2, <1>3, <1>4 DEF q

LEMMA Pair == \A a, b : <<a>> \o <<b>> = <<a, b>>
<1> TAKE a, b
<1> DEFINE p == <<a>>
           q == <<b>>
           x == p \o q
           y == <<a, b>>
           E == {a, b}
<1>1. /\ p \in Seq(E) /\ Len(p) = 1 /\ p[1] = a
      /\ q \in Seq(E) /\ Len(q) = 1 /\ q[1] = b
      /\ y \in Seq(E) /\ Len(y) = 2 /\ y[1] = a /\ y[2] = b
  OBVIOUS
<1> HIDE DEF p, q, y, E
<1>2. /\ x \in Seq(E) /\ Len(x) = 1 + 1
      /\ \A i \in 1 .. 1 + 1 : x[i] = IF i <= 1 THEN p[i] ELSE q[i - 1]
  BY <1>1, ConcatProperties
<1> HIDE DEF x
<1>3. \A i \in 1 .. Len(x) : x[i] = y[i]
  BY <1>1, <1>2
<1>4. x = y
  BY <1>1, <1>2, <1>3, SeqEqual
<1> QED BY <1>4 DEF x, y, p, q

(* The switch on the type knows all that Selectable lets through, *)
LEMMA Handlers ==
  ASSUME NEW type
  PROVE  LET h == Handler(type)
         IN \/ AllBare(h)
            \/ type \in {"VNC", "SASL", "MSLogonII", "MSLogon", "ARD"} /\ Undeciding(h)
            \/ type = "TLS" /\ h = <<L("tls"), R("count")>>
            \/ type = "VeNCrypt" /\ h = <<L("library"), R("veVersion")>>
            \/ h = <<GiveUp("unknown")>> /\ ~Selectable(type, FALSE)
<1>1. CASE type = "Invalid"
  BY <1>1, Reasons DEF Handler
<1>2. CASE type = "None"
  <2>1. Handler(type) = IF Explains(version) THEN rfbHandleAuthResult ELSE <<>>
    BY <1>2 DEF Handler
  <2> QED BY <2>1, Results, BareEmpty
<1>3. CASE type = "VNC"
  BY <1>3, AsksVnc DEF Handler
<1>4. CASE type = "SASL" /\ HaveSASL
  BY <1>4, AsksSASL DEF Handler
<1>5. CASE type = "MSLogonII"
  BY <1>5, AsksMSLogonII DEF Handler
<1>6. CASE type = "MSLogon"
  BY <1>6, AsksMSLogon DEF Handler
<1>7. CASE type = "ARD"
  BY <1>7, AsksARD DEF Handler
<1>8. CASE type = "TLS"
  <2>1. Handler(type) = HandleAnonTLSAuth \o <<R("count")>>
    BY <1>8 DEF Handler
  <2>2. HandleAnonTLSAuth \o <<R("count")>> = <<L("tls"), R("count")>>
    BY Pair DEF HandleAnonTLSAuth
  <2> QED BY <1>8, <2>1, <2>2
<1>9. CASE type = "VeNCrypt"
  BY <1>9 DEF Handler, HandleVeNCryptAuth
<1>10. CASE type \notin {"Invalid", "None", "VNC", "MSLogonII", "MSLogon", "ARD", "TLS", "VeNCrypt"}
            /\ ~(type = "SASL" /\ HaveSASL)
  <2>1. Handler(type) = <<GiveUp("unknown")>>
    BY <1>10 DEF Handler
  <2>2. ~Selectable(type, FALSE)
    <3>1. CASE HaveSASL
      BY <1>10, <3>1 DEF Selectable
    <3>2. CASE ~HaveSASL
      BY <1>10, <3>2 DEF Selectable
    <3> QED BY <3>1, <3>2
  <2> QED BY <2>1, <2>2
<1> QED
  BY <1>1, <1>2, <1>3, <1>4, <1>5, <1>6, <1>7, <1>8, <1>9, <1>10

(* ... and the one after TLS all but two. *)
LEMMA SubHandlers ==
  ASSUME NEW type
  PROVE  LET h == SubHandler(type)
         IN \/ AllBare(h)
            \/ type \in {"VNC", "SASL"} /\ Undeciding(h)
            \/ h = <<GiveUp("unknown")>> /\
                 (Selectable(type, TRUE) => type \in {"ARD", "MSLogonII"})
<1>1. CASE type \in {"Invalid", "None", "VNC", "SASL"}
  <2>1. SubHandler(type) = Handler(type)
    BY <1>1 DEF SubHandler
  <2>2. Selectable(type, FALSE) \/ ~Selectable(type, TRUE)
    BY DEF Selectable
  <2>3. type \notin {"MSLogonII", "MSLogon", "ARD", "TLS", "VeNCrypt"}
    BY <1>1
  <2> QED BY <2>1, <2>2, <2>3, Handlers
<1>2. CASE type \notin {"Invalid", "None", "VNC", "SASL"}
  <2>1. SubHandler(type) = <<GiveUp("unknown")>>
    BY <1>2 DEF SubHandler
  <2>2. Selectable(type, TRUE) => type \in {"ARD", "MSLogonII"}
    <3>1. CASE HaveSASL
      BY <1>2, <3>1 DEF Selectable
    <3>2. CASE ~HaveSASL
      BY <1>2, <3>2 DEF Selectable
    <3> QED BY <3>1, <3>2
  <2> QED BY <2>1, <2>2
<1> QED BY <1>1, <1>2

LEMMA SwitchKeeps ==
  ASSUME TodoInv, Switch
  PROVE  TodoInv'
<1> DEFINE handler == IF SubAuth THEN SubHandler(picked) ELSE Handler(picked)
<1>1. /\ todo # <<>> /\ todo[1].op = "local" /\ todo[1].what = "switch"
      /\ todo' = handler \o Tail(todo)
      /\ UNCHANGED <<version, picked>>
  BY DEF Switch, At, Continue
<1>2. IF SubAuth THEN sub' = picked /\ scheme' = scheme ELSE scheme' = picked /\ sub' = sub
  BY DEF Switch
<1>3. Settles(todo[1])
  BY <1>1 DEF Settles, Decides, Deciding
<1>4. /\ sub = NoType
      /\ Listed(version) => picked = NoType \/ Selectable(picked, SubAuth)
  <2>1. Fits(todo[1])
    BY <1>1, Rests DEF TodoInv
  <2> QED BY <1>1, <1>3, <2>1 DEF Fits, Settles
<1> PICK next : next = handler
  OBVIOUS
<1>5. /\ ASequence(next) /\ Ordered(next)
      /\ \A x : (\E i \in 1 .. Len(next) : x = next[i]) => Fits(x)'
  <2>1. CASE AllBare(next)
    BY <2>1, BareOrdered, BareFits DEF AllBare
  <2>2. CASE Undeciding(next) /\ picked \in {"VNC", "SASL", "MSLogonII", "MSLogon", "ARD"}
    <3>1. Type' \in Crashing
      <4>1. Type' = picked
        BY <1>2, <1>4, <2>2 DEF Type, NoType
      <4> QED BY <2>2, <4>1 DEF Crashing
    <3>2. ASSUME NEW x, \E i \in 1 .. Len(next) : x = next[i] PROVE Fits(x)'
      BY <2>2, <3>1, <3>2 DEF Undeciding, Fits
    <3> QED BY <2>2, <3>2, BareOrdered
  <2>3. CASE ~SubAuth /\ picked = "TLS" /\ next = <<L("tls"), R("count")>>
    <3> DEFINE a == L("tls")
               b == R("count")
    <3>1. Bare(a) /\ ~Asks(b) /\ ~Hopeless(b)
      BY BareSteps DEF Deciding, Asks, Hopeless, R, a
    <3>2. Fits(b)'
      BY <1>2, <1>4, <2>3 DEF Fits, Decides, Asks, Hopeless, Proper, R
    <3>3. Fits(a)'
      BY <3>1, BareFits
    <3> HIDE DEF a, b
    <3>4. next = <<a, b>>
      BY <2>3 DEF a, b
    <3>5. ASequence(next) /\ Ordered(next) /\ \A i \in 1 .. Len(next) : next[i] = a \/ next[i] = b
      BY <3>1, <3>4, TwoSteps DEF Bare
    <3> QED BY <3>2, <3>3, <3>5
  <2>4. CASE ~SubAuth /\ picked = "VeNCrypt" /\ next = <<L("library"), R("veVersion")>>
    <3> DEFINE a == L("library")
               b == R("veVersion")
    <3>1. Bare(a) /\ ~Asks(b) /\ ~Hopeless(b)
      BY BareSteps DEF Deciding, Asks, Hopeless, R, a
    <3>2. Fits(b)'
      BY <1>1, <1>2, <1>4, <2>4 DEF Fits, Decides, Asks, Hopeless, Proper, R
    <3>3. Fits(a)'
      BY <3>1, BareFits
    <3> HIDE DEF a, b
    <3>4. next = <<a, b>>
      BY <2>4 DEF a, b
    <3>5. ASequence(next) /\ Ordered(next) /\ \A i \in 1 .. Len(next) : next[i] = a \/ next[i] = b
      BY <3>1, <3>4, TwoSteps DEF Bare
    <3> QED BY <3>2, <3>3, <3>5
  <2>5. CASE /\ next = <<GiveUp("unknown")>>
             /\ Selectable(picked, SubAuth) => SubAuth /\ picked \in {"ARD", "MSLogonII"}
    <3> DEFINE a == GiveUp("unknown")
    <3>1. ~Decides(a)
      BY DEF Decides, GiveUp
    <3>2. Fits(a)'
      BY <1>1, <1>2, <1>4, <2>5 DEF Fits, Decides, Asks, Proper, GiveUp, SubAuth
    <3> HIDE DEF a
    <3>3. next = <<a>>
      BY <2>5 DEF a
    <3> QED BY <3>1, <3>2, <3>3, OneStep
  <2>6. CASE SubAuth
    BY <2>1, <2>2, <2>5, <2>6, SubHandlers
  <2>7. CASE ~SubAuth
    <3>1. Selectable(picked, SubAuth) = Selectable(picked, FALSE)
      BY <2>7 DEF Selectable
    <3>2. CASE next = <<GiveUp("unknown")>> /\ ~Selectable(picked, FALSE)
      BY <2>5, <3>1, <3>2
    <3> QED BY <2>1, <2>2, <2>3, <2>4, <2>7, <3>2, Handlers
  <2> QED BY <2>6, <2>7
<1> QED
  BY <1>1, <1>3, <1>5, Settled

-------------------------------------------------------------------------------
(* The messages, and the server's steps. *)

LEMMA NoMessages == Counted(<<>>) /\ Answers(<<>>) /\ Serves(<<>>)
<1> DEFINE q == <<>>
           E == {}
<1>1. q \in Seq(E)
  OBVIOUS
<1>2. \A x \in E : FALSE
  OBVIOUS
<1> HIDE DEF q, E
<1>3. Counted(q) /\ Answers(q) /\ Serves(q)
  BY <1>1, <1>2 DEF Counted, Answers, Serves
<1> QED BY <1>3 DEF q

LEMMA CountedRest ==
  ASSUME NEW ms, Counted(ms), ms # <<>>
  PROVE  Counted(Tail(ms)) /\ Counts(ms[1].what, ms[1].val)
<1> PICK E : ms \in Seq(E) /\ \A m \in E : Message(m) /\ Counts(m.what, m.val)
  BY DEF Counted
<1>1. Tail(ms) \in Seq(E) /\ ms[1] \in E
  BY HeadTailProperties, EmptySeq, LenProperties
<1> QED BY <1>1 DEF Counted

LEMMA CountedPart ==
  ASSUME NEW ms, Counted(ms), NEW i \in Nat \ {0}, NEW n \in 0 .. Len(ms)
  PROVE  Counted(SubSeq(ms, i, n))
<1> PICK E : ms \in Seq(E) /\ \A m \in E : Message(m) /\ Counts(m.what, m.val)
  BY DEF Counted
<1>1. SubSeq(ms, i, n) \in Seq(E)
  <2>1. Len(ms) \in Nat /\ \A k \in i .. n : ms[k] \in E
    <3>1. Len(ms) \in Nat /\ \A k \in 1 .. Len(ms) : ms[k] \in E
      BY LenProperties, ElementOfSeq
    <3> QED BY <3>1
  <2>2. i \in Int /\ n \in Int
    BY <2>1
  <2> QED BY <2>1, <2>2, SubSeqProperties
<1> QED BY <1>1 DEF Counted

LEMMA CountedAppend ==
  ASSUME NEW ms, Counted(ms), NEW what, NEW val, NEW on, Counts(what, val)
  PROVE  Counted(Append(ms, [what |-> what, val |-> val, layer |-> on]))
<1> PICK E : ms \in Seq(E) /\ \A m \in E : Message(m) /\ Counts(m.what, m.val)
  BY DEF Counted
<1> DEFINE new == [what |-> what, val |-> val, layer |-> on]
           F == E \cup {new}
<1>1. Message(new) /\ Counts(new.what, new.val)
  BY DEF Message
<1>2. \A m \in F : Message(m) /\ Counts(m.what, m.val)
  BY <1>1
<1> HIDE DEF new
<1>3. ms \in Seq(F) /\ new \in F
  BY SeqMonotonic
<1>4. Append(ms, new) \in Seq(F)
  BY <1>3, AppendProperties
<1>5. Counted(Append(ms, new))
  BY <1>2, <1>4 DEF Counted
<1> QED BY <1>5 DEF new

(* Fill *)
LEMMA CountedGarbled ==
  ASSUME NEW ms, Counted(ms), NEW n \in 0 .. Len(ms), NEW on
  PROVE  Counted([i \in 1 .. n |-> IF ms[i].layer = on THEN ms[i]
                                   ELSE [ms[i] EXCEPT !.what = "garbage"]])
<1> PICK E : ms \in Seq(E) /\ \A m \in E : Message(m) /\ Counts(m.what, m.val)
  BY DEF Counted
<1> DEFINE bad(m) == [m EXCEPT !.what = "garbage"]
           F == E \cup {bad(m) : m \in E}
           new == [i \in 1 .. n |-> IF ms[i].layer = on THEN ms[i] ELSE bad(ms[i])]
<1>1. \A m \in E : Message(bad(m)) /\ Counts(bad(m).what, bad(m).val)
  <2> TAKE m \in E
  <2>1. m = [what |-> m.what, val |-> m.val, layer |-> m.layer]
    BY DEF Message
  <2>2. bad(m) = [what |-> "garbage", val |-> m.val, layer |-> m.layer]
    BY <2>1
  <2> QED BY <2>2 DEF Message, Counts
<1>2. n \in Nat /\ \A i \in 1 .. n : ms[i] \in E
  BY LenProperties, ElementOfSeq
<1>3. \A i \in 1 .. n : (IF ms[i].layer = on THEN ms[i] ELSE bad(ms[i])) \in F
  BY <1>2
<1> HIDE DEF bad
<1>4. \A m \in F : Message(m) /\ Counts(m.what, m.val)
  BY <1>1
<1> HIDE DEF F
<1>5. new \in Seq(F)
  <2>1. new \in [1 .. n -> F]
    BY <1>3
  <2> HIDE DEF new
  <2> QED BY <1>2, <2>1
<1>6. Counted(new)
  BY <1>4, <1>5 DEF Counted
<1> QED BY <1>6 DEF new, bad

LEMMA AnswersRest ==
  ASSUME NEW ms, Answers(ms), ms # <<>>
  PROVE  Answers(Tail(ms)) /\ Sound(ms[1].what, ms[1].val)
<1> PICK E : ms \in Seq(E) /\ \A m \in E : Sound(m.what, m.val)
  BY DEF Answers
<1>1. Tail(ms) \in Seq(E) /\ ms[1] \in E
  BY HeadTailProperties, EmptySeq, LenProperties
<1> QED BY <1>1 DEF Answers

LEMMA AnswersPut ==
  ASSUME Answers(toServer), NEW what, NEW val, Sound(what, val), Put(what, val)
  PROVE  Answers(toServer')
<1> DEFINE new == [what |-> what, val |-> val, layer |-> layer]
<1>1. toServer' = toServer \/ toServer' = Append(toServer, new)
  BY DEF Put
<1>2. Sound(new.what, new.val)
  OBVIOUS
<1> HIDE DEF new
<1>3. Answers(Append(toServer, new))
  <2> PICK E : toServer \in Seq(E) /\ \A m \in E : Sound(m.what, m.val)
    BY DEF Answers
  <2> DEFINE F == E \cup {new}
  <2>1. \A m \in F : Sound(m.what, m.val)
    BY <1>2
  <2>2. toServer \in Seq(F) /\ new \in F
    BY SeqMonotonic
  <2>3. Append(toServer, new) \in Seq(F)
    BY <2>2, AppendProperties
  <2> QED BY <2>1, <2>3 DEF Answers
<1> QED BY <1>1, <1>3

LEMMA ServesRest ==
  ASSUME NEW q, Serves(q), q # <<>>
  PROVE  Serves(Tail(q)) /\ Serving(q[1])
<1> PICK E : q \in Seq(E) /\ \A x \in E : Serving(x)
  BY DEF Serves
<1>1. Tail(q) \in Seq(E) /\ q[1] \in E
  BY HeadTailProperties, EmptySeq, LenProperties
<1> QED BY <1>1 DEF Serves

LEMMA ServesConcat ==
  ASSUME NEW q, Serves(q), NEW r, Serves(r)
  PROVE  Serves(q \o r)
<1> PICK E : q \in Seq(E) /\ \A x \in E : Serving(x)
  BY DEF Serves
<1> PICK F : r \in Seq(F) /\ \A x \in F : Serving(x)
  BY DEF Serves
<1>1. q \in Seq(E \cup F) /\ r \in Seq(E \cup F)
  BY SeqMonotonic
<1>2. q \o r \in Seq(E \cup F)
  BY <1>1, ConcatProperties
<1> QED BY <1>2 DEF Serves

LEMMA ServingSteps ==
  /\ \A what, val : Counts(what, val) => Serving(S(what, val))
  /\ \A what : Serving(G(what)) /\ Serving(D(what)) /\ Serving(Chosen(what))
BY DEF Serving, S, G, D, Chosen

LEMMA ServesOne ==
  \A a :
    Serving(a)
      => Serves(<<a>>)
<1> TAKE a
<1> HAVE Serving(a)
<1> DEFINE q == <<a>>
           E == {a}
<1>1. q \in Seq(E)
  OBVIOUS
<1>2. \A x \in E : Serving(x)
  OBVIOUS
<1> HIDE DEF q, E
<1>3. Serves(q)
  BY <1>1, <1>2 DEF Serves
<1> QED BY <1>3 DEF q

LEMMA ServesTwo ==
  \A a, b :
    Serving(a) /\ Serving(b)
      => Serves(<<a, b>>)
<1> TAKE a, b
<1> HAVE Serving(a) /\ Serving(b)
<1> DEFINE q == <<a, b>>
           E == {a, b}
<1>1. q \in Seq(E)
  OBVIOUS
<1>2. \A x \in E : Serving(x)
  OBVIOUS
<1> HIDE DEF q, E
<1>3. Serves(q)
  BY <1>1, <1>2 DEF Serves
<1> QED BY <1>3 DEF q

LEMMA ServesThree ==
  \A a, b, c :
    Serving(a) /\ Serving(b) /\ Serving(c)
      => Serves(<<a, b, c>>)
<1> TAKE a, b, c
<1> HAVE Serving(a) /\ Serving(b) /\ Serving(c)
<1> DEFINE q == <<a, b, c>>
           E == {a, b, c}
<1>1. q \in Seq(E)
  OBVIOUS
<1>2. \A x \in E : Serving(x)
  OBVIOUS
<1> HIDE DEF q, E
<1>3. Serves(q)
  BY <1>1, <1>2 DEF Serves
<1> QED BY <1>3 DEF q

LEMMA ServesFour ==
  \A a, b, c, d :
    Serving(a) /\ Serving(b) /\ Serving(c) /\ Serving(d)
      => Serves(<<a, b, c, d>>)
<1> TAKE a, b, c, d
<1> HAVE Serving(a) /\ Serving(b) /\ Serving(c) /\ Serving(d)
<1> DEFINE q == <<a, b, c, d>>
           E == {a, b, c, d}
<1>1. q \in Seq(E)
  OBVIOUS
<1>2. \A x \in E : Serving(x)
  OBVIOUS
<1> HIDE DEF q, E
<1>3. Serves(q)
  BY <1>1, <1>2 DEF Serves
<1> QED BY <1>3 DEF q

LEMMA ServesSeven ==
  \A a, b, c, d, e, f, g :
    Serving(a) /\ Serving(b) /\ Serving(c) /\ Serving(d) /\
      Serving(e) /\ Serving(f) /\ Serving(g)
      => Serves(<<a, b, c, d, e, f, g>>)
<1> TAKE a, b, c, d, e, f, g
<1> HAVE Serving(a) /\ Serving(b) /\ Serving(c) /\ Serving(d) /\
         Serving(e) /\ Serving(f) /\ Serving(g)
<1> DEFINE q == <<a, b, c, d, e, f, g>>
           E == {a, b, c, d, e, f, g}
<1>1. q \in Seq(E)
  OBVIOUS
<1>2. \A x \in E : Serving(x)
  OBVIOUS
<1> HIDE DEF q, E
<1>3. Serves(q)
  BY <1>1, <1>2 DEF Serves
<1> QED BY <1>3 DEF q

LEMMA ServesEight ==
  \A a, b, c, d, e, f, g, h :
    Serving(a) /\ Serving(b) /\ Serving(c) /\ Serving(d) /\
      Serving(e) /\ Serving(f) /\ Serving(g) /\ Serving(h)
      => Serves(<<a, b, c, d, e, f, g, h>>)
<1> TAKE a, b, c, d, e, f, g, h
<1> HAVE Serving(a) /\ Serving(b) /\ Serving(c) /\ Serving(d) /\
         Serving(e) /\ Serving(f) /\ Serving(g) /\ Serving(h)
<1> DEFINE q == <<a, b, c, d, e, f, g, h>>
           E == {a, b, c, d, e, f, g, h}
<1>1. q \in Seq(E)
  OBVIOUS
<1>2. \A x \in E : Serving(x)
  OBVIOUS
<1> HIDE DEF q, E
<1>3. Serves(q)
  BY <1>1, <1>2 DEF Serves
<1> QED BY <1>3 DEF q

LEMMA ServesRepeat == \A n \in Nat : \A x : Serving(x) => Serves(Repeat(n, x))
<1> TAKE n \in Nat
<1> TAKE x
<1> HAVE Serving(x)
<1> DEFINE q == Repeat(n, x)
           E == {x}
<1>1. q \in Seq(E)
  BY DEF Repeat
<1>2. \A y \in E : Serving(y)
  OBVIOUS
<1> HIDE DEF q, E
<1>3. Serves(q)
  BY <1>1, <1>2 DEF Serves
<1> QED BY <1>3 DEF q

(* The scripts of the server, each with the numbers it counts with. *)
LEMMA ServerScripts ==
  /\ \A length : Serves(ServerReason(length))
  /\ \A minor : Serves(ServerNone(minor))
  /\ Serves(ServerVNC) /\ Serves(ServerPlain) /\ Serves(ServerMSLogon) /\ Serves(ServerARD)
  /\ \A length : Serves(ServerSASL(length))
  /\ \A v : Serves(ServerVeNCrypt(v))
  /\ \A length : Serves(ServerJoin(length))
<1> USE ServingSteps DEF Counts
<1>1. \A length : Serves(ServerReason(length))
  BY ServesThree DEF ServerReason
<1>2. \A minor : Serves(ServerNone(minor))
  BY ServesOne DEF ServerNone
<1>3. Serves(ServerVNC)
  BY ServesThree DEF ServerVNC
<1>4. Serves(ServerPlain)
  BY ServesOne DEF ServerPlain
<1>5. Serves(ServerMSLogon)
  BY ServesSeven DEF ServerMSLogon
<1>6. Serves(ServerARD)
  BY ServesSeven DEF ServerARD
<1>7. \A length : Serves(ServerSASL(length))
  BY ServesFour DEF ServerSASL
<1>8. \A v : Serves(ServerVeNCrypt(v))
  BY ServesThree DEF ServerVeNCrypt
<1>9. \A length : Serves(ServerJoin(length))
  BY ServesEight DEF ServerJoin
<1> QED
  BY <1>1, <1>2, <1>3, <1>4, <1>5, <1>6, <1>7, <1>8, <1>9

LEMMA ServesLists ==
  ASSUME NEW list \in Lists \cup SubLists \cup VeNCryptLists, NEW count, NEW entry, NEW answer,
         entry \notin {"count", "veCount"}
  PROVE  Serves(ServerList(count, entry, answer, list))
<1> DEFINE p == <<S(count, Len(list))>>
           q == [i \in 1 .. Len(list) |-> S(entry, list[i])]
           r == <<G(answer)>>
<1>1. Len(list) \in Nat
  <2>1. list \in Seq(STRING)
    BY SessionAssumption
  <2> HIDE DEF p, q, r
  <2> QED BY <2>1, LenProperties
<1>2. Serves(p) /\ Serves(r)
  BY <1>1, ServesOne, ServingSteps DEF Counts
<1>3. Serves(q)
  <2> DEFINE E == {S(entry, list[i]) : i \in 1 .. Len(list)}
  <2>1. q \in Seq(E)
    <3>1. q \in [1 .. Len(list) -> E]
      OBVIOUS
    <3> HIDE DEF q, E
    <3> QED BY <1>1, <3>1
  <2>2. \A x \in E : Serving(x)
    BY ServingSteps DEF Counts
  <2> HIDE DEF q, E
  <2> QED BY <2>1, <2>2 DEF Serves
<1> HIDE DEF p, q, r
<1>4. Serves(p \o q)
  BY <1>2, <1>3, ServesConcat
<1>5. Serves((p \o q) \o r)
  BY <1>2, <1>4, ServesConcat
<1> QED BY <1>5 DEF ServerList, p, q, r

LEMMA ServesHandler == \A type : Serves(ServerHandler(type))
<1> TAKE type
<1>1. Serves(<<G("hello"), S("finished", 0), D("tls")>>)
  BY ServesThree, ServingSteps DEF Counts
<1>2. Serves(<<D("veAnnounce")>>) /\ Serves(<<D("close")>>)
  BY ServesOne, ServingSteps
<1>3. \/ ServerHandler(type) \in {ServerReason("fits"), ServerNone(Minor), ServerVNC,
                                  ServerSASL("fits"), ServerMSLogon, ServerARD}
      \/ ServerHandler(type) = <<G("hello"), S("finished", 0), D("tls")>>
      \/ ServerHandler(type) = <<D("veAnnounce")>>
      \/ ServerHandler(type) = <<D("close")>>
  BY DEF ServerHandler
<1> QED BY <1>1, <1>2, <1>3, ServerScripts

(* The server goes on: its steps are always steps of a script. *)
LEMMA StepsGoOn ==
  ASSUME WireInv, steps # <<>>, NEW next, Serves(next), Then(next) \/ Instead(next)
  PROVE  Serves(steps')
BY ServesRest, ServesConcat DEF WireInv, Then, Instead

LEMMA ServerKeeps ==
  ASSUME WireInv, ServerNext
  PROVE  WireInv' /\ UNCHANGED <<command, client>>
<1> USE ServingSteps
<1>a. Serves(<<>>)
  BY NoMessages
<1>b. ASSUME NEW what, ServerGet(what)
      PROVE  /\ steps # <<>> /\ Answers(toServer') /\ Sound(what, Got)
             /\ UNCHANGED <<command, client, inbox, toClient>>
  BY <1>b, AnswersRest DEF ServerGet, ServerAt, Got, WireInv
<1>c. ASSUME steps # <<>>, Answers(toServer'), Counted(toClient'),
             UNCHANGED <<command, client, inbox>>,
             NEW next, Serves(next), Then(next) \/ Instead(next)
      PROVE  WireInv' /\ UNCHANGED <<command, client>>
  BY <1>c, StepsGoOn DEF WireInv
<1>d. Answers(toServer) /\ Counted(toClient)
  BY DEF WireInv
<1>e. \A what : ServerAt("decide", what) => steps # <<>>
  BY DEF ServerAt
<1>f. ASSUME UNCHANGED wire PROVE Answers(toServer') /\ Counted(toClient') /\ inbox' = inbox
  BY <1>d, <1>f DEF wire
<1>1. CASE ServerSend
  <2>1. Counts(steps[1].what, steps[1].val) /\ steps # <<>>
    BY <1>1, ServesRest DEF ServerSend, WireInv, Serving
  <2>2. Counted(toClient')
    BY <1>1, <1>d, <2>1, CountedAppend DEF ServerSend
  <2> QED BY <1>1, <1>a, <1>c, <1>d, <2>1, <2>2 DEF ServerSend
<1>2. CASE ServerData
  BY <1>2, <1>a, <1>b, <1>c, <1>d DEF ServerData
<1>3. CASE ServerVersion
  <2>1. /\ steps # <<>> /\ Answers(toServer') /\ Counted(toClient')
        /\ UNCHANGED <<command, client, inbox>>
    BY <1>3, <1>b, <1>d DEF ServerVersion
  <2>2. CASE \E list \in Lists : Then(IF list = <<>> THEN <<S("count", 0), D("reason")>>
                                      ELSE ServerList("count", "type", "choice", list))
    <3>1. \A list \in Lists : Serves(ServerList("count", "type", "choice", list))
      BY ServesLists
    <3>2. Serves(<<S("count", 0), D("reason")>>)
      BY ServesTwo DEF Counts
    <3> QED BY <1>c, <2>1, <2>2, <3>1, <3>2
  <2>3. CASE \E word \in Words : Then(<<S("word", word), Chosen(word)>>)
    <3>1. \A word : Serves(<<S("word", word), Chosen(word)>>)
      BY ServesTwo DEF Counts
    <3> QED BY <1>c, <2>1, <2>3, <3>1
  <2> QED BY <1>3, <2>2, <2>3 DEF ServerVersion
<1>4. CASE ServerChoice
  <2>1. Then(ServerHandler(Got)) /\ ServerGet("choice")
    BY <1>4 DEF ServerChoice
  <2> QED BY <2>1, <1>b, <1>c, <1>d, ServesHandler
<1>5. CASE ServerWord
  <2>1. steps # <<>> /\ UNCHANGED <<command, client, wire>> /\ \E word : Then(ServerHandler(word))
    BY <1>5 DEF ServerWord, ServerAt
  <2> QED BY <2>1, <1>c, <1>f, ServesHandler
<1>6. CASE ServerExplains
  <2>1. steps # <<>> /\ UNCHANGED <<command, client, wire>> /\ \E size : Instead(ServerReason(size))
    BY <1>6 DEF ServerExplains, ServerAt
  <2> QED BY <2>1, <1>c, <1>f, ServerScripts
<1>7. CASE ServerTLS
  <2>1. steps # <<>> /\ UNCHANGED <<command, client, wire>>
    BY <1>7 DEF ServerTLS, ServerAt
  <2>2. \A list \in SubLists : Serves(ServerList("count", "type", "choice", list))
    BY ServesLists
  <2>3. Serves(<<S("count", 0), D("reason")>>)
    BY ServesTwo DEF Counts
  <2>4. Then(<<>>) \/ \E list \in SubLists :
          Then(IF list = <<>> THEN <<S("count", 0), D("reason")>>
               ELSE ServerList("count", "type", "choice", list))
    BY <1>7 DEF ServerTLS
  <2> QED BY <1>a, <1>c, <1>f, <2>1, <2>2, <2>3, <2>4
<1>8. CASE ServerVeNCryptVersion
  <2>1. steps # <<>> /\ UNCHANGED <<command, client, wire>>
    BY <1>8 DEF ServerVeNCryptVersion, ServerAt
  <2>2. CASE \E v : Then(ServerVeNCrypt(v))
    BY <1>c, <1>f, <2>1, <2>2, ServerScripts
  <2>3. CASE \E list \in VeNCryptLists :
               Then(<<S("veStatus", 0)>> \o
                    IF list = <<>> THEN <<S("veCount", 0), D("close")>>
                    ELSE ServerList("veCount", "veType", "veChoice", list))
    <3>1. \A list \in VeNCryptLists : Serves(ServerList("veCount", "veType", "veChoice", list))
      BY ServesLists
    <3>2. Serves(<<S("veCount", 0), D("close")>>) /\ Serves(<<S("veStatus", 0)>>)
      BY ServesOne, ServesTwo DEF Counts
    <3>3. PICK list \in VeNCryptLists :
               Then(<<S("veStatus", 0)>> \o
                    IF list = <<>> THEN <<S("veCount", 0), D("close")>>
                    ELSE ServerList("veCount", "veType", "veChoice", list))
      BY <2>3
    <3> DEFINE more == IF list = <<>> THEN <<S("veCount", 0), D("close")>>
                       ELSE ServerList("veCount", "veType", "veChoice", list)
    <3>4. Serves(more)
      BY <3>1, <3>2
    <3>5. Then(<<S("veStatus", 0)>> \o more)
      BY <3>3
    <3> HIDE DEF more
    <3>6. Serves(<<S("veStatus", 0)>> \o more)
      BY <3>2, <3>4, ServesConcat
    <3> QED BY <1>c, <1>f, <2>1, <3>5, <3>6
  <2>4. CASE Then(<<S("veStatus", 1), D("close")>>)
    <3>1. Serves(<<S("veStatus", 1), D("close")>>)
      BY ServesTwo DEF Counts
    <3> QED BY <1>c, <1>f, <2>1, <2>4, <3>1
  <2> QED BY <1>8, <2>2, <2>3, <2>4 DEF ServerVeNCryptVersion
<1>9. CASE ServerVeNCryptChoice
  <2>1. ServerGet("veChoice") /\ Got \in VeNCryptTypes
    BY <1>9, <1>b DEF ServerVeNCryptChoice, Sound
  <2> DEFINE start == <<S("veAccepted", 1), G("hello"), S("finished", 0), D("tls")>>
             more == CASE Got \in NoneTypes -> <<D("verdict")>>
                       [] Got \in VNCTypes -> ServerVNC
                       [] Got \in PlainTypes -> ServerPlain
                       [] Got \in SASLTypes -> ServerSASL("fits")
  <2>2. Serves(start)
    BY ServesFour DEF Counts
  <2>3. Serves(more)
    <3>1. Serves(<<D("verdict")>>)
      BY ServesOne
    <3>2. CASE Got \in NoneTypes
      <4>1. more = <<D("verdict")>>
        BY <3>2 DEF NoneTypes, VNCTypes, PlainTypes, SASLTypes
      <4> QED BY <3>1, <4>1
    <3>3. CASE Got \in VNCTypes
      <4>1. more = ServerVNC
        BY <3>3 DEF NoneTypes, VNCTypes, PlainTypes, SASLTypes
      <4> QED BY <4>1, ServerScripts
    <3>4. CASE Got \in PlainTypes
      <4>1. more = ServerPlain
        BY <3>4 DEF NoneTypes, VNCTypes, PlainTypes, SASLTypes
      <4> QED BY <4>1, ServerScripts
    <3>5. CASE Got \in SASLTypes
      <4>1. more = ServerSASL("fits")
        BY <3>5 DEF NoneTypes, VNCTypes, PlainTypes, SASLTypes
      <4> QED BY <4>1, ServerScripts
    <3> QED BY <2>1, <3>2, <3>3, <3>4, <3>5 DEF VeNCryptTypes
  <2>4. Then(start \o more) \/ Then(<<S("veAccepted", 0), D("close")>>)
    BY <1>9 DEF ServerVeNCryptChoice
  <2> HIDE DEF start, more
  <2>5. Serves(start \o more)
    BY <2>2, <2>3, ServesConcat
  <2>6. Serves(<<S("veAccepted", 0), D("close")>>)
    BY ServesTwo DEF Counts
  <2> QED BY <1>b, <1>c, <1>d, <2>1, <2>4, <2>5, <2>6
<1>10. CASE ServerPlainLengths
  <2>1. ServerGet("lengths") /\ Got[1] \in Nat /\ Got[2] \in Nat /\ Then(ServerPlainMessage(Got))
    BY <1>10, <1>b DEF ServerPlainLengths, Sound
  <2> DEFINE p == Repeat(Got[1], G("user"))
             q == Repeat(Got[2], G("password"))
             r == <<D("verdict")>>
  <2>2. Serves(p) /\ Serves(q) /\ Serves(r)
    BY <2>1, ServesRepeat, ServesOne
  <2> HIDE DEF p, q, r
  <2>3. Serves(p \o q)
    BY <2>2, ServesConcat
  <2>4. Serves((p \o q) \o r)
    BY <2>2, <2>3, ServesConcat
  <2>5. ServerPlainMessage(Got) = (p \o q) \o r
    BY DEF ServerPlainMessage, p, q, r
  <2> QED BY <1>b, <1>c, <1>d, <2>1, <2>4, <2>5
<1>11. CASE ServerVerdict
  <2>1. steps # <<>> /\ UNCHANGED <<command, client, wire>>
    BY <1>11 DEF ServerVerdict, ServerAt
  <2>2. CASE \E size \in Sizes :
               Instead((IF steps[1].what = "admit" THEN <<>> ELSE <<S("result", "ok")>>)
                         \o ServerJoin(size))
    <3>1. PICK size : Instead((IF steps[1].what = "admit" THEN <<>> ELSE <<S("result", "ok")>>)
                                \o ServerJoin(size))
      BY <2>2
    <3> DEFINE p == IF steps[1].what = "admit" THEN <<>> ELSE <<S("result", "ok")>>
    <3>2. Serves(p)
      BY <1>a, ServesOne DEF Counts
    <3>3. Instead(p \o ServerJoin(size))
      BY <3>1
    <3> HIDE DEF p
    <3>4. Serves(p \o ServerJoin(size))
      BY <3>2, ServerScripts, ServesConcat
    <3> QED BY <1>c, <1>f, <2>1, <3>3, <3>4
  <2>3. CASE Instead(<<S("result", "failed"), D(IF Minor = 8 THEN "reason" ELSE "close")>>)
    <3>1. \A what : Serves(<<S("result", "failed"), D(what)>>)
      BY ServesTwo DEF Counts
    <3> QED BY <1>c, <1>f, <2>1, <2>3, <3>1
  <2>4. CASE Instead(<<S("result", "tooMany"), D("close")>>)
    <3>1. Serves(<<S("result", "tooMany"), D("close")>>)
      BY ServesTwo DEF Counts
    <3> QED BY <1>c, <1>f, <2>1, <2>4, <3>1
  <2> QED BY <1>11, <2>2, <2>3, <2>4 DEF ServerVerdict
<1>12. CASE ServerSaslStart
  BY <1>12, <1>a, <1>b, <1>c, <1>d DEF ServerSaslStart
<1>13. CASE ServerSaslData
  <2>1. ServerGet("saslData")
        /\ \E data, done : Then(<<S("saslData", data), S("saslComplete", done)>>
                                \o <<IF done THEN D("saslVerdict") ELSE G("saslData")>>)
    BY <1>13 DEF ServerSaslData
  <2>2. \A data, done : Serves(<<S("saslData", data), S("saslComplete", done)>>)
    BY ServesTwo DEF Counts
  <2>3. \A done : Serves(<<IF done THEN D("saslVerdict") ELSE G("saslData")>>)
    BY ServesOne
  <2>4. \A data, done : Serves(<<S("saslData", data), S("saslComplete", done)>>
                                \o <<IF done THEN D("saslVerdict") ELSE G("saslData")>>)
    BY <2>2, <2>3, ServesConcat
  <2> QED BY <1>b, <1>c, <1>d, <2>1, <2>4
<1>14. CASE ServerSaslVerdict
  <2>1. steps # <<>> /\ UNCHANGED <<command, client, wire>>
    BY <1>14 DEF ServerSaslVerdict, ServerAt
  <2>2. Serves(<<S("saslResult", "ok"), D("saslLayer")>>)
        /\ Serves(<<S("saslResult", "failed"), D("close")>>)
    BY ServesTwo DEF Counts
  <2>3. Serves(<<S("saslResult", "ok"), D("saslLayer")>> \o ServerJoin("fits"))
    BY <2>2, ServerScripts, ServesConcat
  <2> QED BY <1>14, <1>c, <1>f, <2>1, <2>2, <2>3 DEF ServerSaslVerdict
<1>15. CASE ServerSaslLayer
  BY <1>15, <1>a, <1>c, <1>e, <1>f DEF ServerSaslLayer
<1>16. CASE ServerClose
  BY <1>16, <1>a, <1>c, <1>e, <1>f DEF ServerClose
<1> QED
  BY <1>1, <1>2, <1>3, <1>4, <1>5, <1>6, <1>7, <1>8, <1>9, <1>10, <1>11, <1>12, <1>13,
     <1>14, <1>15, <1>16 DEF ServerNext

LEMMA LossKeeps ==
  ASSUME WireInv, ConnectionLost
  PROVE  WireInv' /\ UNCHANGED <<command, client>>
<1>1. Answers(toServer')
  BY NoMessages DEF ConnectionLost
<1>2. Counted(toClient')
  BY CountedPart DEF ConnectionLost, WireInv
<1> QED BY <1>1, <1>2 DEF ConnectionLost, WireInv, server

-------------------------------------------------------------------------------
(* The client's steps. *)

LEMMA Taken ==
  ASSUME WireInv, NEW what, Take(what)
  PROVE  /\ todo # <<>> /\ todo[1].op = "read" /\ todo[1].what = what /\ outcome = "going"
         /\ Counts(what, Front) /\ WireInv' /\ UNCHANGED command
<1>1. inbox # <<>> /\ inbox[1].what = what /\ inbox' = Tail(inbox)
      /\ UNCHANGED <<command, toClient, toServer, server>>
  BY DEF Take
<1>2. Counted(inbox') /\ Counts(what, Front)
  BY <1>1, CountedRest DEF WireInv, Front
<1> QED BY <1>1, <1>2 DEF Take, At, WireInv, server

LEMMA WireStays ==
  ASSUME WireInv, UNCHANGED <<wire, server>>
  PROVE  WireInv'
BY DEF WireInv, wire, server

LEMMA FirstFits == TodoInv /\ todo # <<>> => Fits(todo[1])
BY Rests DEF TodoInv

(* A client that has given up does no more. *)
LEMMA Failed ==
  ASSUME NEW why, Fail(why)
  PROVE  TodoInv'
BY BareEmpty, OnlyBare DEF Fail

LEMMA GoesOnWith ==
  ASSUME TodoInv, todo # <<>>, UNCHANGED choice, NEW next, Continue(next),
         AllBare(next) \/ (Asks(todo[1]) /\ Undeciding(next))
  PROVE  TodoInv'
BY GoesOn DEF Continue

(* What the client asks for comes with its authentication. *)
LEMMA Asked ==
  ASSUME TodoInv, todo # <<>>, Asks(todo[1]), UNCHANGED <<scheme, sub>>
  PROVE  LET type == IF sub' # NoType THEN sub' ELSE scheme'
         IN type \in {"VNC", "SASL", "ARD", "MSLogon", "MSLogonII"} \cup VNCTypes \cup SASLTypes
BY FirstFits DEF Fits, Type, Crashing

LEMMA EndsWell ==
  ASSUME NEW why, outcome' = "going" \/ outcome' = why, why \notin {"crashed", "unknown"}
  PROVE  CrashesOnly' /\ ChoiceHandled'
BY DEF CrashesOnly, ChoiceHandled

LEMMA Crashed ==
  ASSUME TodoInv, WireInv', todo # <<>>, Asks(todo[1]), command, UNCHANGED <<command, scheme, sub>>,
         Fail("crashed")
  PROVE  ChoiceInv'
<1>1. CrashesOnly'
  BY Asked DEF CrashesOnly
<1>2. ChoiceHandled'
  BY DEF ChoiceHandled, Fail
<1> QED BY <1>1, <1>2, Failed DEF ChoiceInv

LEMMA PlainMessages == \A user, password \in 0 .. 1 : AllBare(PlainMessage(user, password))
<1> TAKE user, password \in 0 .. 1
<1> DEFINE p == <<W("lengths", <<user, password>>)>>
           q == Repeat(user, W("user", 0))
           r == Repeat(password, W("password", 0))
<1>1. AllBare(p)
  <2>1. Sound("lengths", <<user, password>>)
    BY DEF Sound
  <2> QED BY <2>1, BareSteps, BareOne
<1>2. AllBare(q) /\ AllBare(r)
  BY BareSteps, BareRepeat DEF Sound
<1> HIDE DEF p, q, r
<1>3. AllBare(p \o q)
  BY <1>1, <1>2, BareConcat
<1>4. AllBare((p \o q) \o r)
  BY <1>2, <1>3, BareConcat
<1>5. AllBare(((p \o q) \o r) \o rfbHandleAuthResult)
  BY <1>4, Results, BareConcat
<1> QED BY <1>5 DEF PlainMessage, p, q, r

LEMMA ThreeSteps ==
  ASSUME NEW a, NEW b, NEW c, ~Decides(a), ~Asks(a), ~Hopeless(a), ~Asks(b), ~Hopeless(b),
         ~Asks(c), ~Hopeless(c), c.what \in After(b.what)
  PROVE  /\ ASequence(<<a, b, c>>) /\ Ordered(<<a, b, c>>)
         /\ \A i \in 1 .. Len(<<a, b, c>>) : <<a, b, c>>[i] \in {a, b, c}
<1> DEFINE q == <<a, b, c>>
<1>1. q \in Seq({a, b, c}) /\ Len(q) = 3 /\ q[1] = a /\ q[2] = b /\ q[3] = c
  OBVIOUS
<1> HIDE DEF q
<1>2. ASequence(q)
  BY <1>1 DEF ASequence
<1>3. ASSUME NEW i \in 1 .. Len(q)
      PROVE  (i = 1 /\ q[i] = a) \/ (i = 2 /\ q[i] = b) \/ (i = 3 /\ q[i] = c)
  <2>1. i = 1 \/ i = 2 \/ i = 3
    BY <1>1
  <2>2. CASE i = 1
    BY <1>1, <2>2
  <2>3. CASE i = 2
    BY <1>1, <2>3
  <2>4. CASE i = 3
    BY <1>1, <2>4
  <2> QED BY <2>1, <2>2, <2>3, <2>4
<1>4. Ordered(q)
  BY <1>1, <1>3 DEF Ordered
<1>5. \A i \in 1 .. Len(q) : q[i] \in {a, b, c}
  BY <1>3
<1> QED BY <1>2, <1>4, <1>5 DEF q

LEMMA SaslExchanges == \A m : Undeciding(SaslExchange(m))
<1> TAKE m
<1> DEFINE a == W("saslData", m)
           b == R("saslData")
           c == R("saslComplete")
           q == <<a, b, c>>
<1>1. \A x \in {a, b, c} : ~Decides(x) /\ ~Hopeless(x) /\ Proper(x)
  BY UndecidingSteps DEF Deciding, Sound
<1> HIDE DEF a, b, c
<1>2. q \in Seq({a, b, c}) /\ \A i \in 1 .. Len(q) : q[i] \in {a, b, c}
  OBVIOUS
<1> HIDE DEF q
<1>3. Undeciding(q)
  BY <1>1, <1>2 DEF Undeciding, ASequence
<1> QED BY <1>3 DEF SaslExchange, q, a, b, c

LEMMA SaslEnds == Undeciding(SaslEnd)
<1> DEFINE a == L("saslStrength")
           b == R("saslResult")
<1>1. Bare(a) /\ Bare(b)
  BY BareSteps DEF Deciding
<1> HIDE DEF a, b
<1>2. AllBare(<<a>>) /\ AllBare(<<b>>) /\ <<a>> \o <<b>> = <<a, b>>
  BY <1>1, BareOne, Pair
<1>3. Undeciding(<<a, b>>)
  BY <1>2, BareConcat, BareUndeciding
<1> QED BY <1>3 DEF SaslEnd, a, b

LEMMA PlainBare == AllBare(HandlePlainAuth)
BY BareOne, BareSteps DEF HandlePlainAuth, Deciding

(* The switch on the VeNCrypt type knows all that were let through. *)
LEMMA VeNCryptHandlers ==
  ASSUME NEW type \in VeNCryptTypes
  PROVE  \/ AllBare(VeNCryptHandler(type))
         \/ Undeciding(VeNCryptHandler(type)) /\ type \in Crashing
<1> USE DEF NoneTypes, VNCTypes, PlainTypes, SASLTypes
<1>1. CASE type \in NoneTypes
  <2>1. VeNCryptHandler(type) = rfbHandleAuthResult
    BY <1>1 DEF VeNCryptHandler
  <2> QED BY <2>1, Results
<1>2. CASE type \in VNCTypes
  <2>1. VeNCryptHandler(type) = HandleVncAuth
    BY <1>2 DEF VeNCryptHandler
  <2> QED BY <1>2, <2>1, AsksVnc DEF Crashing
<1>3. CASE type \in PlainTypes
  <2>1. VeNCryptHandler(type) = HandlePlainAuth
    BY <1>3 DEF VeNCryptHandler
  <2> QED BY <2>1, PlainBare
<1>4. CASE type \in SASLTypes
  <2>1. VeNCryptHandler(type) = HandleSASLAuth
    BY <1>4 DEF VeNCryptHandler
  <2> QED BY <1>4, <2>1, AsksSASL DEF Crashing
<1> QED BY <1>1, <1>2, <1>3, <1>4 DEF VeNCryptTypes

LEMMA ClientKeeps ==
  ASSUME ChoiceInv, ClientNext
  PROVE  ChoiceInv'
<1> USE DEF ChoiceInv
<1>a. ASSUME TodoInv', WireInv', NEW why, outcome' = "going" \/ outcome' = why,
             why \notin {"crashed", "unknown"}
      PROVE  ChoiceInv'
  BY <1>a, EndsWell
<1>g. ASSUME TodoInv', WireInv', outcome' = "going"
      PROVE  ChoiceInv'
  BY <1>g DEF CrashesOnly, ChoiceHandled
<1>b. ASSUME NEW op, Doing(op) PROVE todo # <<>> /\ todo[1].op = op /\ outcome = "going"
  BY <1>b DEF Doing
<1>c. ASSUME NEW op, NEW what, At(op, what)
      PROVE  todo # <<>> /\ todo[1].op = op /\ todo[1].what = what /\ outcome = "going"
  BY <1>c DEF At
<1>d. AllBare(<<>>)
  BY BareEmpty
<1>e. ASSUME UNCHANGED choice, todo # <<>>, outcome = "going",
             NEW next, Continue(next), AllBare(next), WireInv'
      PROVE  ChoiceInv'
  <2>1. TodoInv'
    BY <1>e, GoesOnWith
  <2>2. outcome' = "going"
    BY <1>e DEF Continue
  <2> QED BY <1>g, <1>e, <2>1, <2>2
<1>h. ASSUME UNCHANGED choice, todo # <<>>, outcome = "going", Asks(todo[1]),
             NEW next, Continue(next), Undeciding(next), WireInv'
      PROVE  ChoiceInv'
  <2>1. TodoInv'
    BY <1>h, GoesOnWith
  <2>2. outcome' = "going"
    BY <1>h DEF Continue
  <2> QED BY <1>g, <1>h, <2>1, <2>2
<1>f. ASSUME NEW why, Fail(why), why \notin {"crashed", "unknown"}, WireInv'
      PROVE  ChoiceInv'
  BY <1>a, <1>f, Failed DEF Fail
<1>1. CASE Fill
  <2>1. UNCHANGED client /\ Answers(toServer') /\ Serves(steps') /\ UNCHANGED command
    BY <1>1 DEF Fill, WireInv, server
  <2>2. Counted(inbox') /\ Counted(toClient')
    <3>1. PICK n \in 1 .. Len(toClient) :
             /\ inbox' = [i \in 1 .. n |-> IF toClient[i].layer = layer
                                             THEN toClient[i]
                                             ELSE [toClient[i] EXCEPT !.what = "garbage"]]
             /\ toClient' = SubSeq(toClient, n + 1, Len(toClient))
      BY <1>1 DEF Fill
    <3>2. Counted(toClient) /\ Len(toClient) \in Nat
      <4>1. Counted(toClient)
        BY DEF WireInv
      <4> QED BY <4>1, LenProperties DEF Counted
    <3>3. n \in 0 .. Len(toClient) /\ n + 1 \in Nat \ {0} /\ Len(toClient) \in 0 .. Len(toClient)
      BY <3>2
    <3> QED BY <3>1, <3>2, <3>3, CountedGarbled, CountedPart
  <2>3. TodoInv'
    BY <2>1 DEF client, choice, TodoInv, Fits, Type, SubAuth
  <2>4. CrashesOnly' /\ ChoiceHandled'
    BY <2>1 DEF client, choice, CrashesOnly, ChoiceHandled, SubAuth
  <2> QED BY <2>1, <2>2, <2>3, <2>4 DEF WireInv
<1>2. CASE ReadFails
  BY <1>2, <1>f, WireStays DEF ReadFails
<1>3. CASE Write
  <2>1. todo # <<>> /\ outcome = "going" /\ todo[1].op = "write"
    BY <1>3, <1>b DEF Write
  <2>2. Sound(todo[1].what, todo[1].val)
    BY <2>1, FirstFits DEF Fits, Proper
  <2>3. WireInv'
    BY <1>3, <2>2, AnswersPut DEF Write, WireInv, server
  <2> QED BY <1>3, <1>d, <1>e, <2>1, <2>3 DEF Write
<1>4. CASE WriteFails
  BY <1>4, <1>f, WireStays DEF WriteFails
<1>5. CASE ReadData
  <2>1. PICK what \in Data \cup Lengths :
          /\ Take(what)
          /\ \/ Continue(<<>>)
             \/ Fail("refused")
             \/ Fail("long")
          /\ UNCHANGED <<choice, tls, saslconn, saslState>>
    BY <1>5 DEF ReadData
  <2> QED BY <2>1, <1>d, <1>e, <1>f, Taken
<1>6. CASE Stop
  <2>1. todo # <<>> /\ todo[1].op = "stop" /\ Fail(todo[1].what) /\ UNCHANGED choice
        /\ WireInv'
    BY <1>6, <1>b, WireStays DEF Stop
  <2>2. Fits(todo[1])
    BY <2>1, FirstFits
  <2>3. TodoInv'
    BY <2>1, Failed
  <2>4. ChoiceHandled'
    BY <2>1, <2>2 DEF Fits, Hopeless, ChoiceHandled, Fail, choice, SubAuth
  <2>5. CrashesOnly'
    BY <2>1, <2>2 DEF Fits, Proper, CrashesOnly, Fail
  <2> QED BY <2>1, <2>3, <2>4, <2>5
<1>7. CASE ReadVersion
  <2>1. Take("version") /\ UNCHANGED <<scheme, sub, picked>>
    BY <1>7 DEF ReadVersion
  <2>2. todo # <<>> /\ Decides(todo[1]) /\ todo[1].what = "version" /\ outcome = "going" /\ WireInv'
    BY <2>1, Taken DEF Decides, Deciding
  <2>3. Settles(todo[1]) /\ sub = NoType /\ version = <<0, 0>>
    BY <2>2, FirstFits DEF Fits, Settles
  <2>4. CASE Fail("unknown") /\ UNCHANGED version
    <3>1. ChoiceHandled'
      BY <2>3, <2>4 DEF ChoiceHandled, Listed
    <3>2. CrashesOnly'
      BY <2>4 DEF CrashesOnly, Fail
    <3> QED BY <2>2, <2>4, <3>1, <3>2, Failed
  <2>5. CASE Continue(<<W("version", version'), R(IF Listed(version') THEN "count" ELSE "word")>>)
    <3> PICK x : x = W("version", version')
      OBVIOUS
    <3> PICK y : y = R(IF Listed(version') THEN "count" ELSE "word")
      OBVIOUS
    <3>1. Bare(x) /\ ~Asks(y) /\ ~Hopeless(y)
      BY BareSteps DEF Asks, Hopeless, R, Sound
    <3>2. Fits(y)'
      BY <2>1, <2>3 DEF Fits, Decides, Asks, Hopeless, Proper, R
    <3>3. Fits(x)'
      BY <3>1, BareFits
    <3>4. todo' = <<x, y>> \o Tail(todo) /\ outcome' = "going"
      BY <2>2, <2>5 DEF Continue
    <3>5. ASequence(<<x, y>>) /\ Ordered(<<x, y>>)
          /\ \A i \in 1 .. Len(<<x, y>>) : <<x, y>>[i] = x \/ <<x, y>>[i] = y
      BY <3>1, TwoSteps DEF Bare
    <3> PICK next : next = <<x, y>>
      OBVIOUS
    <3>6. \A z : (\E i \in 1 .. Len(next) : z = next[i]) => Fits(z)'
      BY <3>2, <3>3, <3>5
    <3>7. TodoInv'
      BY <2>2, <2>3, <3>4, <3>5, <3>6, Settled
    <3> QED BY <1>g, <2>2, <3>4, <3>7
  <2> QED BY <1>7, <2>4, <2>5 DEF ReadVersion
<1>8. CASE ReadWord
  <2>1. Take("word") /\ UNCHANGED <<version, scheme, sub>> /\ Continue(<<L("switch")>>)
    BY <1>8 DEF ReadWord
  <2>2. todo # <<>> /\ Decides(todo[1]) /\ todo[1].what = "word" /\ outcome = "going" /\ WireInv'
    BY <2>1, Taken DEF Decides, Deciding
  <2>3. Settles(todo[1]) /\ sub = NoType /\ ~Listed(version)
    BY <2>2, FirstFits DEF Fits, Settles
  <2> PICK x : x = L("switch")
    OBVIOUS
  <2>4. Fits(x)' /\ ~Asks(x) /\ ~Hopeless(x)
    BY <2>1, <2>3 DEF Fits, Decides, Asks, Hopeless, Proper, L
  <2>5. ASequence(<<x>>) /\ Ordered(<<x>>) /\ \A i \in 1 .. Len(<<x>>) : <<x>>[i] = x
    BY <2>4, OneStep
  <2>6. todo' = <<x>> \o Tail(todo) /\ outcome' = "going"
    BY <2>1, <2>2 DEF Continue
  <2>7. TodoInv'
    BY <2>2, <2>3, <2>4, <2>5, <2>6, Settled
  <2> QED BY <1>g, <2>2, <2>6, <2>7
<1>9. CASE ReadCount
  <2>1. Take("count") /\ UNCHANGED <<version, scheme, sub>> /\ picked' = NoType
    BY <1>9 DEF ReadCount
  <2>2. todo # <<>> /\ Decides(todo[1]) /\ todo[1].what = "count" /\ outcome = "going" /\ WireInv'
        /\ Front \in Nat
    BY <2>1, Taken DEF Decides, Deciding, Counts
  <2>3. Settles(todo[1]) /\ sub = NoType
    BY <2>2, FirstFits DEF Fits, Settles
  <2>4. CASE todo' = ReadReason /\ UNCHANGED outcome
    BY <1>g, <2>2, <2>4, Reasons, OnlyBare
  <2>5. CASE Continue(Repeat(Front, R("type")) \o <<L("switch")>>)
    <3> PICK n \in Nat : n = Front
      BY <2>2
    <3> PICK x : x = R("type")
      OBVIOUS
    <3> PICK y : y = L("switch")
      OBVIOUS
    <3>2. Fits(x)' /\ Fits(y)'
      BY <2>1, <2>3 DEF Fits, Decides, Asks, Hopeless, Proper, R, L
    <3> PICK next : next = Repeat(n, x) \o <<y>>
      OBVIOUS
    <3>3. ASequence(next) /\ Ordered(next) /\ \A i \in 1 .. Len(next) : next[i] = x \/ next[i] = y
      BY ListSteps
    <3>4. todo' = next \o Tail(todo) /\ outcome' = "going"
      BY <2>2, <2>5 DEF Continue
    <3>5. TodoInv'
      BY <2>2, <2>3, <3>2, <3>3, <3>4, Settled
    <3> QED BY <1>g, <2>2, <3>4, <3>5
  <2> QED BY <1>9, <2>4, <2>5 DEF ReadCount
<1>10. CASE ReadType
  <2>1. todo # <<>> /\ Decides(todo[1]) /\ todo[1].what = "type" /\ outcome = "going"
    BY <1>10, <1>c DEF ReadType, Decides, Deciding
  <2>2. inbox # <<>> /\ inbox' = Tail(inbox)
        /\ UNCHANGED <<command, version, scheme, sub, toClient, server>>
    BY <1>10 DEF ReadType
  <2>3. Counted(inbox') /\ Counted(toClient') /\ Serves(steps')
    BY <2>2, CountedRest DEF WireInv, server
  <2>4. CASE Continue(<<>>) /\ UNCHANGED <<picked, toServer>>
    BY <1>d, <1>e, <2>1, <2>2, <2>3, <2>4 DEF choice, WireInv
  <2>5. CASE picked' = Front /\ Selectable(Front, SubAuth) /\ Continue(<<>>) /\ Put("choice", Front)
    <3>1. WireInv'
      BY <2>3, <2>5, AnswersPut DEF WireInv, Sound
    <3>2. todo' = Tail(todo) /\ outcome' = "going"
      <4>1. ASequence(Tail(todo))
        BY <2>1, Rests DEF TodoInv
      <4>2. <<>> \o Tail(todo) = Tail(todo)
        BY <4>1, ConcatEmptySeq DEF ASequence
      <4> QED BY <2>1, <2>5, <4>2 DEF Continue
    <3>3. TodoInv'
      BY <2>1, <2>2, <2>5, <3>2, EntryRead
    <3> QED BY <1>g, <3>1, <3>2, <3>3
  <2>6. CASE Fail("lost") /\ UNCHANGED toServer
    BY <1>f, <2>3, <2>6 DEF WireInv
  <2> QED BY <1>10, <2>4, <2>5, <2>6 DEF ReadType
<1>11. CASE Switch
  <2>1. outcome' = "going" /\ WireInv'
    BY <1>11, <1>c, WireStays DEF Switch, Continue
  <2> QED BY <1>11, <1>g, <2>1, SwitchKeeps
<1>12. CASE AuthResult
  <2>1. Take("result") /\ UNCHANGED choice
        /\ (Continue(<<>>) \/ (todo' = ReadReason /\ UNCHANGED outcome) \/ Fail("refused"))
    BY <1>12 DEF AuthResult
  <2>2. todo # <<>> /\ outcome = "going" /\ WireInv'
    BY <2>1, Taken
  <2>3. CASE todo' = ReadReason /\ UNCHANGED outcome
    BY <1>g, <2>2, <2>3, Reasons, OnlyBare
  <2>4. CASE Continue(<<>>)
    BY <1>d, <1>e, <2>1, <2>2, <2>4
  <2>5. CASE Fail("refused")
    BY <1>f, <2>2, <2>5
  <2> QED BY <2>1, <2>3, <2>4, <2>5
<1>13. CASE Local
  BY <1>13, <1>c, <1>d, <1>e, <1>f, WireStays DEF Local
<1>14. CASE GetPassword \/ GetCredential
  <2>1. /\ todo # <<>> /\ Asks(todo[1]) /\ outcome = "going"
        /\ UNCHANGED <<command, choice, wire, server>>
        /\ Continue(<<>>) \/ Fail("local") \/ (command /\ Fail("crashed"))
    BY <1>14, <1>c DEF GetPassword, GetCredential, Asks
  <2>2. WireInv'
    BY <2>1, WireStays
  <2>3. CASE Continue(<<>>)
    BY <1>d, <1>e, <2>1, <2>2, <2>3
  <2>4. CASE Fail("local")
    BY <1>f, <2>2, <2>4
  <2>5. CASE command /\ Fail("crashed")
    BY <2>1, <2>2, <2>5, Crashed DEF choice
  <2> QED BY <2>1, <2>3, <2>4, <2>5
<1>15. CASE GetPlainCredential
  <2>1. /\ todo # <<>> /\ outcome = "going" /\ UNCHANGED <<command, choice, wire, server>>
        /\ (\E user, password \in 0 .. 1 : Continue(PlainMessage(user, password))) \/ Fail("local")
    BY <1>15, <1>c DEF GetPlainCredential
  <2>2. WireInv'
    BY <2>1, WireStays
  <2>3. \A user, password \in 0 .. 1 : AllBare(PlainMessage(user, password))
    BY PlainMessages
  <2>4. CASE \E user, password \in 0 .. 1 : Continue(PlainMessage(user, password))
    BY <1>e, <2>1, <2>2, <2>3, <2>4
  <2>5. CASE Fail("local")
    BY <1>f, <2>2, <2>5
  <2> QED BY <2>1, <2>4, <2>5
<1>16. CASE InitializeTLSSession
  <2>1. todo # <<>> /\ outcome = "going" /\ UNCHANGED <<command, choice, inbox, toClient, server>>
    BY <1>16, <1>c DEF InitializeTLSSession
  <2>2. CASE /\ todo' = <<[op |-> "tls", what |-> "finished"]>> \o Tail(todo)
             /\ Put("hello", 0) /\ UNCHANGED outcome
    <3> PICK x : x = [op |-> "tls", what |-> "finished"]
      OBVIOUS
    <3>1. Bare(x)
      BY DEF Bare, Decides, Asks, Hopeless, Proper
    <3>2. AllBare(<<x>>) /\ Continue(<<x>>)
      BY <2>2, <3>1, BareOne DEF Continue
    <3>3. WireInv'
      BY <2>1, <2>2, AnswersPut DEF WireInv, Sound, server
    <3> QED BY <1>e, <2>1, <3>2, <3>3
  <2>3. CASE Fail("local") /\ UNCHANGED toServer
    BY <1>f, <2>1, <2>3, WireStays DEF wire
  <2> QED BY <1>16, <2>2, <2>3 DEF InitializeTLSSession
<1>17. CASE HandshakeTLS
  <2>1. /\ todo # <<>> /\ outcome = "going" /\ Continue(<<>>) /\ toClient # <<>>
        /\ toClient' = Tail(toClient) /\ UNCHANGED <<command, choice, inbox, toServer, server>>
    BY <1>17, <1>b DEF HandshakeTLS
  <2>2. WireInv'
    BY <2>1, CountedRest DEF WireInv, server
  <2> QED BY <1>d, <1>e, <2>1, <2>2
<1>18. CASE HandshakeTLSFails
  BY <1>18, <1>f, WireStays DEF HandshakeTLSFails
<1>19. CASE ReadVeNCryptVersion
  <2>1. Take("veVersion") /\ UNCHANGED choice /\ (Fail("unknown") \/ Continue(VeNCryptAgreed))
    BY <1>19 DEF ReadVeNCryptVersion
  <2>2. todo # <<>> /\ Decides(todo[1]) /\ todo[1].what = "veVersion" /\ outcome = "going"
        /\ WireInv' /\ UNCHANGED command
    BY <2>1, Taken DEF Decides, Deciding
  <2>3. Settles(todo[1]) /\ sub = NoType /\ picked = "VeNCrypt"
    BY <2>2, FirstFits DEF Fits, Settles
  <2>4. CASE Fail("unknown")
    <3>1. ChoiceHandled'
      BY <2>1, <2>3 DEF ChoiceHandled, choice
    <3>2. CrashesOnly'
      BY <2>4 DEF CrashesOnly, Fail
    <3> QED BY <2>2, <2>4, <3>1, <3>2, Failed
  <2>5. CASE Continue(VeNCryptAgreed)
    <3> PICK x : x = W("veVersion", 0)
      OBVIOUS
    <3> PICK y : y = R("veStatus")
      OBVIOUS
    <3> PICK z : z = R("veCount")
      OBVIOUS
    <3>1. Bare(x) /\ ~Asks(y) /\ ~Hopeless(y) /\ ~Asks(z) /\ ~Hopeless(z)
          /\ z.what \in After(y.what)
      BY BareSteps DEF Asks, Hopeless, R, Sound, After
    <3>2. Fits(y)' /\ Fits(z)'
      BY <2>1, <2>3 DEF Fits, Decides, Asks, Hopeless, Proper, R, choice
    <3>3. Fits(x)'
      BY <3>1, BareFits
    <3> PICK next : next = <<x, y, z>>
      OBVIOUS
    <3>4. ASequence(next) /\ Ordered(next) /\ \A i \in 1 .. Len(next) : next[i] \in {x, y, z}
      BY <3>1, ThreeSteps DEF Bare
    <3>5. todo' = next \o Tail(todo) /\ outcome' = "going"
      BY <2>2, <2>5 DEF Continue, VeNCryptAgreed
    <3>6. TodoInv'
      BY <2>2, <2>3, <3>2, <3>3, <3>4, <3>5, Settled
    <3> QED BY <1>g, <2>2, <3>5, <3>6
  <2> QED BY <2>1, <2>4, <2>5
<1>20. CASE ReadVeNCryptStatus
  <2>1. Take("veStatus") /\ UNCHANGED choice /\ (Fail("refused") \/ Continue(<<>>))
    BY <1>20 DEF ReadVeNCryptStatus
  <2>2. todo # <<>> /\ outcome = "going" /\ WireInv'
    BY <2>1, Taken
  <2> QED BY <1>d, <1>e, <1>f, <2>1, <2>2
<1>21. CASE ReadVeNCryptCount
  <2>1. Take("veCount") /\ UNCHANGED <<version, scheme, sub>> /\ picked' = NoType
    BY <1>21 DEF ReadVeNCryptCount
  <2>2. todo # <<>> /\ Decides(todo[1]) /\ todo[1].what = "veCount" /\ outcome = "going" /\ WireInv'
        /\ Front \in Nat
    BY <2>1, Taken DEF Decides, Deciding, Counts
  <2>3. Settles(todo[1]) /\ sub = NoType
    BY <2>2, FirstFits DEF Fits, Settles
  <2>4. CASE Fail("refused")
    BY <1>f, <2>2, <2>4
  <2>5. CASE Continue(Repeat(Front, R("veType")) \o <<L("veSwitch")>>)
    <3> PICK n \in Nat : n = Front
      BY <2>2
    <3> PICK x : x = R("veType")
      OBVIOUS
    <3> PICK y : y = L("veSwitch")
      OBVIOUS
    <3>2. Fits(x)' /\ Fits(y)'
      BY <2>1, <2>3 DEF Fits, Decides, Asks, Hopeless, Proper, R, L
    <3> PICK next : next = Repeat(n, x) \o <<y>>
      OBVIOUS
    <3>3. ASequence(next) /\ Ordered(next) /\ \A i \in 1 .. Len(next) : next[i] = x \/ next[i] = y
      BY ListSteps
    <3>4. todo' = next \o Tail(todo) /\ outcome' = "going"
      BY <2>2, <2>5 DEF Continue
    <3>5. TodoInv'
      BY <2>2, <2>3, <3>2, <3>3, <3>4, Settled
    <3> QED BY <1>g, <2>2, <3>4, <3>5
  <2> QED BY <1>21, <2>4, <2>5 DEF ReadVeNCryptCount
<1>22. CASE ReadVeNCryptType
  <2>1. todo # <<>> /\ Decides(todo[1]) /\ todo[1].what = "veType" /\ outcome = "going"
    BY <1>22, <1>c DEF ReadVeNCryptType, Decides, Deciding
  <2>2. inbox # <<>> /\ inbox' = Tail(inbox)
        /\ UNCHANGED <<command, version, scheme, sub, toClient, server>>
    BY <1>22 DEF ReadVeNCryptType
  <2>3. Counted(inbox') /\ Counted(toClient') /\ Serves(steps')
    BY <2>2, CountedRest DEF WireInv, server
  <2>4. CASE Continue(<<>>) /\ UNCHANGED <<picked, toServer>>
    BY <1>d, <1>e, <2>1, <2>2, <2>3, <2>4 DEF choice, WireInv
  <2>5. CASE picked' = Front /\ Front \in VeNCryptTypes /\ Continue(<<>>) /\ Put("veChoice", Front)
    <3>1. WireInv'
      BY <2>3, <2>5, AnswersPut DEF WireInv, Sound
    <3>2. todo' = Tail(todo) /\ outcome' = "going"
      <4>1. ASequence(Tail(todo))
        BY <2>1, Rests DEF TodoInv
      <4>2. <<>> \o Tail(todo) = Tail(todo)
        BY <4>1, ConcatEmptySeq DEF ASequence
      <4> QED BY <2>1, <2>5, <4>2 DEF Continue
    <3>3. TodoInv'
      BY <2>1, <2>2, <2>5, <3>2, EntryRead
    <3> QED BY <1>g, <3>1, <3>2, <3>3
  <2>6. CASE Fail("lost") /\ UNCHANGED toServer
    BY <1>f, <2>3, <2>6 DEF WireInv
  <2> QED BY <1>22, <2>4, <2>5, <2>6 DEF ReadVeNCryptType
<1>23. CASE VeNCryptChosen
  <2>1. todo # <<>> /\ Decides(todo[1]) /\ todo[1].what = "veSwitch" /\ outcome = "going"
        /\ UNCHANGED <<command, choice, wire, server>>
    BY <1>23, <1>c DEF VeNCryptChosen, Decides, Deciding
  <2>2. Settles(todo[1]) /\ sub = NoType /\ picked \in VeNCryptTypes \cup {NoType} /\ WireInv'
    BY <2>1, FirstFits, WireStays DEF Fits, Settles
  <2>3. CASE picked = NoType /\ Fail("unknown")
    <3>1. ChoiceHandled'
      BY <2>1, <2>3 DEF ChoiceHandled, choice
    <3>2. CrashesOnly'
      BY <2>3 DEF CrashesOnly, Fail
    <3> QED BY <2>2, <2>3, <3>1, <3>2, Failed
  <2>4. CASE picked # NoType /\ Continue(<<R("veAccepted")>>)
    <3> PICK x : x = R("veAccepted")
      OBVIOUS
    <3>1. Fits(x)' /\ ~Asks(x) /\ ~Hopeless(x)
      BY <2>1, <2>2, <2>4 DEF Fits, Decides, Asks, Hopeless, Proper, R, choice
    <3>2. ASequence(<<x>>) /\ Ordered(<<x>>) /\ \A i \in 1 .. Len(<<x>>) : <<x>>[i] = x
      BY <3>1, OneStep
    <3>3. todo' = <<x>> \o Tail(todo) /\ outcome' = "going"
      BY <2>1, <2>4 DEF Continue
    <3>4. TodoInv'
      BY <2>1, <2>2, <3>1, <3>2, <3>3, Settled
    <3> QED BY <1>g, <2>2, <3>3, <3>4
  <2> QED BY <1>23, <2>3, <2>4 DEF VeNCryptChosen
<1>24. CASE ReadVeNCryptAccepted
  <2> DEFINE certificate == IF picked \in X509Types THEN <<L("certificate")>> ELSE <<>>
             handler == (certificate \o <<L("tls")>>) \o VeNCryptHandler(picked)
  <2>1. Take("veAccepted") /\ UNCHANGED <<version, scheme, picked>>
    BY <1>24 DEF ReadVeNCryptAccepted
  <2>2. todo # <<>> /\ Decides(todo[1]) /\ todo[1].what = "veAccepted"
        /\ outcome = "going" /\ WireInv'
    BY <2>1, Taken DEF Decides, Deciding
  <2>3. Settles(todo[1]) /\ sub = NoType /\ picked \in VeNCryptTypes
    BY <2>2, FirstFits DEF Fits, Settles
  <2>4. CASE Fail("refused")
    BY <1>f, <2>2, <2>4
  <2>5. CASE sub' = picked /\ Continue(handler)
    <3>1. \/ AllBare(VeNCryptHandler(picked))
          \/ Undeciding(VeNCryptHandler(picked)) /\ picked \in Crashing
      BY <2>3, VeNCryptHandlers
    <3>2. AllBare(certificate \o <<L("tls")>>)
      <4>1. AllBare(<<L("certificate")>>) /\ AllBare(<<L("tls")>>)
        BY BareSteps, BareOne DEF Deciding
      <4> QED BY <4>1, <1>d, BareConcat
    <3> PICK p : p = certificate \o <<L("tls")>>
      OBVIOUS
    <3> PICK h : h = VeNCryptHandler(picked)
      OBVIOUS
    <3> PICK next : next = p \o h
      OBVIOUS
    <3>3. AllBare(next) \/ (Undeciding(next) /\ picked \in Crashing)
      BY <3>1, <3>2, BareConcat, UndecidingConcat, BareUndeciding
    <3>4. ASequence(next) /\ Ordered(next)
      BY <3>3, BareOrdered
    <3>5. Type' = picked
      BY <2>3, <2>5 DEF Type, NoType, VeNCryptTypes, NoneTypes, VNCTypes, PlainTypes, SASLTypes
    <3>6. \A x : (\E i \in 1 .. Len(next) : x = next[i]) => Fits(x)'
      <4>1. CASE AllBare(next)
        BY <4>1, BareFits DEF AllBare
      <4>2. CASE Undeciding(next) /\ picked \in Crashing
        <5>1. Type' \in Crashing
          BY <3>5, <4>2 DEF Crashing
        <5> QED BY <4>2, <5>1 DEF Undeciding, Fits
      <4> QED BY <3>3, <4>1, <4>2
    <3>7. todo' = next \o Tail(todo) /\ outcome' = "going"
      BY <2>2, <2>5 DEF Continue
    <3>8. TodoInv'
      BY <2>2, <2>3, <3>4, <3>6, <3>7, Settled
    <3> QED BY <1>g, <2>2, <3>7, <3>8
  <2> QED BY <1>24, <2>4, <2>5 DEF ReadVeNCryptAccepted
<1>25. CASE SaslStart
  <2>1. /\ todo # <<>> /\ Asks(todo[1]) /\ outcome = "going"
        /\ UNCHANGED <<command, choice, wire, server>>
        /\ \/ \E m : Continue(<<W("mechanism", m)>> \o SaslExchange(1))
           \/ Fail("local") \/ (command /\ Fail("crashed"))
    BY <1>25, <1>c DEF SaslStart, Asks
  <2>2. WireInv'
    BY <2>1, WireStays
  <2>3. CASE \E m : Continue(<<W("mechanism", m)>> \o SaslExchange(1))
    <3>1. PICK m : Continue(<<W("mechanism", m)>> \o SaslExchange(1))
      BY <2>3
    <3>2. AllBare(<<W("mechanism", m)>>)
      BY BareSteps, BareOne DEF Sound
    <3>3. Undeciding(<<W("mechanism", m)>> \o SaslExchange(1))
      BY <3>2, BareUndeciding, SaslExchanges, UndecidingConcat
    <3> QED BY <1>h, <2>1, <2>2, <3>1, <3>3
  <2>4. CASE Fail("local")
    BY <1>f, <2>2, <2>4
  <2>5. CASE command /\ Fail("crashed")
    BY <2>1, <2>2, <2>5, Crashed DEF choice
  <2> QED BY <2>1, <2>3, <2>4, <2>5
<1>26. CASE ReadSaslData
  <2>1. Take("saslData") /\ UNCHANGED choice /\ (Fail("long") \/ Continue(<<>>))
    BY <1>26 DEF ReadSaslData
  <2>2. todo # <<>> /\ outcome = "going" /\ WireInv'
    BY <2>1, Taken
  <2> QED BY <1>d, <1>e, <1>f, <2>1, <2>2
<1>27. CASE ReadSaslComplete
  <2>1. Take("saslComplete") /\ UNCHANGED choice
        /\ (Continue(SaslEnd) \/ Continue(<<L("saslStep")>>))
    BY <1>27 DEF ReadSaslComplete
  <2>2. todo # <<>> /\ outcome = "going" /\ WireInv' /\ Asks(todo[1])
    BY <2>1, Taken DEF Asks
  <2>3. Undeciding(<<L("saslStep")>>)
    <3> PICK x : x = L("saslStep")
      OBVIOUS
    <3>1. ~Decides(x) /\ ~Hopeless(x) /\ Proper(x)
      BY UndecidingSteps DEF Deciding
    <3>2. ASequence(<<x>>) /\ \A i \in 1 .. Len(<<x>>) : <<x>>[i] = x
      BY <3>1, OneStep
    <3> QED BY <3>1, <3>2 DEF Undeciding
  <2> QED BY <1>h, <2>1, <2>2, <2>3, SaslEnds
<1>28. CASE SaslStep
  <2>1. /\ todo # <<>> /\ Asks(todo[1]) /\ outcome = "going"
        /\ UNCHANGED <<command, choice, wire, server>>
        /\ \/ Continue(SaslEnd) \/ (\E m : Continue(SaslExchange(m)))
           \/ Fail("local") \/ (command /\ Fail("crashed"))
    BY <1>28, <1>c DEF SaslStep, Asks
  <2>2. WireInv'
    BY <2>1, WireStays
  <2>3. CASE Continue(SaslEnd) \/ (\E m : Continue(SaslExchange(m)))
    BY <1>h, <2>1, <2>2, <2>3, SaslExchanges, SaslEnds
  <2>4. CASE Fail("local")
    BY <1>f, <2>2, <2>4
  <2>5. CASE command /\ Fail("crashed")
    BY <2>1, <2>2, <2>5, Crashed DEF choice
  <2> QED BY <2>1, <2>3, <2>4, <2>5
<1>29. CASE SaslStrength
  <2>1. todo # <<>> /\ outcome = "going" /\ UNCHANGED <<command, choice, wire, server>>
        /\ (Continue(<<>>) \/ Fail("weak"))
    BY <1>29, <1>c DEF SaslStrength
  <2> QED BY <1>d, <1>e, <1>f, <2>1, WireStays
<1>30. CASE ReadSaslResult
  <2>1. Take("saslResult") /\ UNCHANGED choice /\ (Fail("refused") \/ Continue(<<>>))
    BY <1>30 DEF ReadSaslResult
  <2>2. todo # <<>> /\ outcome = "going" /\ WireInv'
    BY <2>1, Taken
  <2> QED BY <1>d, <1>e, <1>f, <2>1, <2>2
<1>31. CASE SetUpDone
  <2>1. todo' = <<>> /\ outcome' = "ready" /\ UNCHANGED <<wire, server>>
    BY <1>31 DEF SetUpDone
  <2> QED BY <1>a, <2>1, WireStays, BareEmpty, OnlyBare
<1> QED
  BY <1>1, <1>2, <1>3, <1>4, <1>5, <1>6, <1>7, <1>8, <1>9, <1>10, <1>11, <1>12, <1>13,
     <1>14, <1>15, <1>16, <1>17, <1>18, <1>19, <1>20, <1>21, <1>22, <1>23, <1>24, <1>25,
     <1>26, <1>27, <1>28, <1>29, <1>30, <1>31 DEF ClientNext

-------------------------------------------------------------------------------
(* The theorems. *)

LEMMA ChoiceInitially == Init => ChoiceInv
<1> SUFFICES ASSUME Init PROVE ChoiceInv
  OBVIOUS
<1>1. todo = <<R("version")>> \o vnc_client_init /\ outcome = "going"
      /\ version = <<0, 0>> /\ sub = NoType /\ inbox = <<>> /\ toClient = <<>> /\ toServer = <<>>
  BY DEF Init
<1>2. AllBare(vnc_client_init)
  <2>1. AllBare(ClientInit)
    <3> DEFINE a == W("clientInit", 0)
               b == R("serverInit")
               c == R("name")
               q == <<a, b, c>>
    <3>1. \A x \in {a, b, c} : Bare(x)
      BY BareSteps DEF Deciding, Sound
    <3> HIDE DEF a, b, c
    <3>2. q \in Seq({a, b, c}) /\ \A i \in 1 .. Len(q) : q[i] \in {a, b, c}
      OBVIOUS
    <3> HIDE DEF q
    <3>3. AllBare(q)
      BY <3>1, <3>2 DEF AllBare, ASequence
    <3> QED BY <3>3 DEF ClientInit, q, a, b, c
  <2>2. AllBare(<<L("framebuffer")>>)
    BY BareSteps, BareOne DEF Deciding
  <2>3. AllBare(SetFormatAndEncodings)
    <3> DEFINE a == W("setPixelFormat", 0)
               b == W("setEncodings", 0)
    <3>1. AllBare(<<a>>) /\ AllBare(<<b>>)
      BY BareSteps, BareOne DEF Sound
    <3> HIDE DEF a, b
    <3>2. AllBare(<<a, b>>)
      BY <3>1, BareConcat, Pair
    <3> QED BY <3>2 DEF SetFormatAndEncodings, a, b
  <2> DEFINE last == <<W("updateRequest", 0), W("incrementalRequest", 0), W("incrementalRequest", 0),
                       [op |-> "ready", what |-> "ready"]>>
  <2>4. AllBare(last)
    <3> DEFINE a == W("updateRequest", 0)
               b == W("incrementalRequest", 0)
               c == [op |-> "ready", what |-> "ready"]
               q == <<a, b, b, c>>
    <3>1. Bare(a) /\ Bare(b)
      BY BareSteps DEF Sound
    <3>2. Bare(c)
      BY DEF Bare, Decides, Asks, Hopeless, Proper
    <3>3. \A x \in {a, b, c} : Bare(x)
      BY <3>1, <3>2
    <3> HIDE DEF a, b, c
    <3>4. q \in Seq({a, b, c}) /\ \A i \in 1 .. Len(q) : q[i] \in {a, b, c}
      OBVIOUS
    <3> HIDE DEF q
    <3>5. AllBare(q)
      BY <3>3, <3>4 DEF AllBare, ASequence
    <3> QED BY <3>5 DEF q, a, b, c
  <2> HIDE DEF last
  <2>5. AllBare(ClientInit \o <<L("framebuffer")>>)
    BY <2>1, <2>2, BareConcat
  <2>6. AllBare((ClientInit \o <<L("framebuffer")>>) \o SetFormatAndEncodings)
    BY <2>3, <2>5, BareConcat
  <2>7. AllBare(((ClientInit \o <<L("framebuffer")>>) \o SetFormatAndEncodings) \o last)
    BY <2>4, <2>6, BareConcat
  <2> QED BY <2>7 DEF vnc_client_init, last
<1>3. TodoInv
  <2> PICK x : x = R("version")
    OBVIOUS
  <2>1. Fits(x) /\ ~Asks(x) /\ ~Hopeless(x)
    BY <1>1 DEF Fits, Decides, Asks, Hopeless, Proper, R
  <2> PICK p : p = <<x>>
    OBVIOUS
  <2> PICK r : r = vnc_client_init
    OBVIOUS
  <2>2. p \in Seq({x}) /\ Len(p) = 1 /\ p[1] = x
    OBVIOUS
  <2>3. ASequence(p) /\ ASequence(r)
    BY <1>2, <2>2 DEF ASequence, AllBare
  <2>4. /\ ASequence(p \o r) /\ Len(r) \in Nat /\ Len(p \o r) = 1 + Len(r)
        /\ \A i \in 1 .. 1 + Len(r) : (p \o r)[i] = IF i <= 1 THEN p[i] ELSE r[i - 1]
    BY <2>2, <2>3, Concats
  <2>5. todo = p \o r
    BY <1>1
  <2>6. \A i \in 1 .. Len(todo) : (i = 1 /\ todo[i] = x) \/ (i > 1 /\ Bare(todo[i]))
    <3> TAKE i \in 1 .. Len(todo)
    <3>1. CASE i = 1
      BY <2>2, <2>4, <2>5, <3>1
    <3>2. CASE i > 1
      <4>1. i - 1 \in 1 .. Len(r) /\ todo[i] = r[i - 1]
        BY <2>4, <2>5, <3>2
      <4> QED BY <1>2, <3>2, <4>1 DEF AllBare
    <3> QED BY <2>4, <2>5, <3>1, <3>2
  <2>7. Ordered(todo)
    BY <2>1, <2>6 DEF Ordered, Bare
  <2>8. \A y : Bare(y) => Fits(y)
    BY DEF Bare, Fits
  <2>9. \A i \in 1 .. Len(todo) : Fits(todo[i])
    BY <2>1, <2>6, <2>8
  <2> QED BY <2>4, <2>5, <2>7, <2>9 DEF TodoInv
<1>4. WireInv
  <2>1. \A v : Serves(<<S("version", v), G("version")>>)
    BY ServesTwo, ServingSteps DEF Counts
  <2>2. Serves(steps)
    BY <2>1 DEF Init
  <2> QED BY <1>1, <2>2, NoMessages DEF WireInv
<1>5. ChoiceHandled /\ CrashesOnly
  BY <1>1 DEF ChoiceHandled, CrashesOnly
<1> QED BY <1>3, <1>4, <1>5 DEF ChoiceInv

LEMMA ChoiceKept == ChoiceInv /\ [Next]_vars => ChoiceInv'
<1> SUFFICES ASSUME ChoiceInv, [Next]_vars PROVE ChoiceInv'
  OBVIOUS
<1>1. ASSUME WireInv', UNCHANGED <<command, client>> PROVE ChoiceInv'
  <2>1. TodoInv'
    BY <1>1 DEF ChoiceInv, client, choice, TodoInv, Fits, Type, SubAuth
  <2>2. CrashesOnly' /\ ChoiceHandled'
    BY <1>1 DEF ChoiceInv, client, choice, CrashesOnly, ChoiceHandled, SubAuth
  <2> QED BY <1>1, <2>1, <2>2 DEF ChoiceInv
<1>2. CASE ClientNext
  BY <1>2, ClientKeeps
<1>3. CASE ServerNext
  BY <1>1, <1>3, ServerKeeps DEF ChoiceInv
<1>4. CASE ConnectionLost
  BY <1>1, <1>4, LossKeeps DEF ChoiceInv
<1>5. CASE UNCHANGED vars
  <2>1. WireInv'
    BY <1>5, WireStays DEF ChoiceInv, vars
  <2> QED BY <1>1, <1>5, <2>1 DEF vars
<1> QED
  BY <1>2, <1>3, <1>4, <1>5 DEF Next, Ended

LEMMA ChoiceAlways == Spec => []ChoiceInv
BY ChoiceInitially, ChoiceKept, PTL DEF Spec

(* A client gives up over the security types only when the server offered  *)
(* none it has a handler for, but for the two it picks inside TLS and does  *)
(* not handle there, whatever servers announce, list and accept, and        *)
(* whenever the connection is lost.                                         *)
THEOREM ChoiceAlwaysHandled == Spec => []ChoiceHandled
<1>1. ChoiceInv => ChoiceHandled
  BY DEF ChoiceInv
<1> QED BY <1>1, ChoiceAlways, PTL

(* Only the command of --auth-command crashes the client, and only in an    *)
(* authentication that asks for a password or for a name and password of    *)
(* fixed size.                                                              *)
THEOREM CrashesOnlyThere == Spec => []CrashesOnly
<1>1. ChoiceInv => CrashesOnly
  BY DEF ChoiceInv
<1> QED BY <1>1, ChoiceAlways, PTL

-------------------------------------------------------------------------------
(* Sequences, taken apart from the front. *)

Nil == <<>>
a & q == <<a>> \o q
p ++ q == p \o q

LEMMA EqualSequences ==
  ASSUME NEW q, ASequence(q), NEW r, ASequence(r), Len(q) = Len(r),
         \A i \in 1 .. Len(q) : q[i] = r[i]
  PROVE  q = r
<1> PICK E1 : q \in Seq(E1)
  BY DEF ASequence
<1> PICK E2 : r \in Seq(E2)
  BY DEF ASequence
<1>1. q \in Seq(E1 \cup E2) /\ r \in Seq(E1 \cup E2)
  BY SeqMonotonic
<1> QED
  BY <1>1, SeqEqual

LEMMA ConcatAssoc ==
  ASSUME NEW q, ASequence(q), NEW r, ASequence(r), NEW t, ASequence(t)
  PROVE  (q \o r) \o t = q \o (r \o t)
<1> DEFINE x == (q \o r) \o t
           y == q \o (r \o t)
           qr == q \o r
           rt == r \o t
<1>1. ASequence(qr) /\ Len(qr) = Len(q) + Len(r) /\ ASequence(rt) /\ Len(rt) = Len(r) + Len(t)
      /\ Len(q) \in Nat /\ Len(r) \in Nat /\ Len(t) \in Nat
  BY Concats
<1>2. ASequence(x) /\ ASequence(y) /\ Len(x) = Len(q) + Len(r) + Len(t) /\ Len(y) = Len(x)
  <2> HIDE DEF qr, rt
  <2>1. ASequence(qr \o t) /\ Len(qr \o t) = Len(qr) + Len(t)
    BY <1>1, Concats
  <2>2. ASequence(q \o rt) /\ Len(q \o rt) = Len(q) + Len(rt)
    BY <1>1, Concats
  <2> QED
    BY <1>1, <2>1, <2>2 DEF qr, rt
<1>3. \A i \in 1 .. Len(q) + Len(r) : qr[i] = IF i <= Len(q) THEN q[i] ELSE r[i - Len(q)]
  BY Concats
<1>4. \A i \in 1 .. Len(r) + Len(t) : rt[i] = IF i <= Len(r) THEN r[i] ELSE t[i - Len(r)]
  BY Concats
<1>5. \A i \in 1 .. Len(x) : x[i] = IF i <= Len(qr) THEN qr[i] ELSE t[i - Len(qr)]
  <2> HIDE DEF qr
  <2> QED BY <1>1, <1>2, Concats DEF qr
<1>6. \A i \in 1 .. Len(x) : y[i] = IF i <= Len(q) THEN q[i] ELSE rt[i - Len(q)]
  <2> HIDE DEF rt
  <2>1. \A i \in 1 .. Len(q) + Len(rt) : (q \o rt)[i] = IF i <= Len(q) THEN q[i] ELSE rt[i - Len(q)]
    BY <1>1, Concats
  <2> QED BY <1>1, <1>2, <2>1 DEF rt
<1> HIDE DEF x, y, qr, rt
<1>7. ASSUME NEW i \in 1 .. Len(x) PROVE x[i] = y[i]
  <2>1. CASE i <= Len(q)
    BY <2>1, <1>1, <1>2, <1>3, <1>5, <1>6
  <2>2. CASE i > Len(q) /\ i <= Len(q) + Len(r)
    <3>1. i - Len(q) \in 1 .. Len(r) + Len(t) /\ i - Len(q) <= Len(r)
      BY <2>2, <1>1, <1>2
    <3> QED BY <2>2, <3>1, <1>1, <1>2, <1>3, <1>4, <1>5, <1>6
  <2>3. CASE i > Len(q) + Len(r)
    <3>1. i - Len(q) \in 1 .. Len(r) + Len(t) /\ i - Len(q) > Len(r)
          /\ (i - Len(q)) - Len(r) = i - Len(qr)
      BY <2>3, <1>1, <1>2
    <3> QED BY <2>3, <3>1, <1>1, <1>2, <1>4, <1>5, <1>6
  <2> QED BY <2>1, <2>2, <2>3, <1>1, <1>2
<1> x = y
  BY <1>2, <1>7, EqualSequences
<1> QED
  BY DEF x, y

LEMMA Empties ==
  \A q : ASequence(q) => /\ <<>> \o q = q /\ q \o <<>> = q
                         /\ q # <<>> <=> Len(q) > 0
<1> SUFFICES ASSUME NEW q, ASequence(q) PROVE <<>> \o q = q /\ q \o <<>> = q /\ (q # <<>> <=> Len(q) > 0)
  OBVIOUS
<1> PICK E : q \in Seq(E)
  BY DEF ASequence
<1> QED BY ConcatEmptySeq, EmptySeq, LenProperties

LEMMA ConsFacts ==
  ASSUME NEW a, NEW q, ASequence(q)
  PROVE  /\ ASequence(a & q) /\ a & q # <<>>
         /\ (a & q)[1] = a /\ Tail(a & q) = q
         /\ Len(a & q) = Len(q) + 1 /\ Len(q) \in Nat
         /\ \A i \in 1 .. Len(q) : (a & q)[i + 1] = q[i]
<1>1. <<a>> \in Seq({a}) /\ Len(<<a>>) = 1 /\ <<a>>[1] = a
  OBVIOUS
<1>2. ASequence(<<a>>)
  BY <1>1 DEF ASequence
<1> DEFINE h == <<a>>
           x == h \o q
<1>3. /\ ASequence(x) /\ Len(q) \in Nat /\ Len(x) = 1 + Len(q)
      /\ \A i \in 1 .. 1 + Len(q) : x[i] = IF i <= 1 THEN h[i] ELSE q[i - 1]
  <2> HIDE DEF h
  <2> QED BY <1>1, <1>2, Concats DEF h
<1>4. x[1] = a
  BY <1>1, <1>3
<1>9. a & q = x
  BY DEF &
<1> HIDE DEF x, h
<1>5. x # <<>>
  BY <1>3, EmptySequence
<1>6. \A i \in 1 .. Len(q) : x[i + 1] = q[i]
  BY <1>3
<1>7. ASequence(Tail(x)) /\ Len(Tail(x)) = Len(q) /\ \A i \in 1 .. Len(q) : Tail(x)[i] = x[i + 1]
  BY <1>3, <1>5, Rests
<1>8. Tail(x) = q
  BY <1>6, <1>7, EqualSequences
<1>10. /\ ASequence(x) /\ x # <<>> /\ x[1] = a /\ Tail(x) = q
       /\ Len(x) = Len(q) + 1 /\ Len(q) \in Nat
       /\ \A i \in 1 .. Len(q) : x[i + 1] = q[i]
  BY <1>3, <1>4, <1>5, <1>6, <1>8
<1> HIDE DEF x
<1> QED
  BY <1>9, <1>10

LEMMA ConsEqual ==
  ASSUME NEW a, NEW q, ASequence(q), NEW b, NEW r, ASequence(r), a & q = b & r
  PROVE  a = b /\ q = r
BY ConsFacts

LEMMA Decompose ==
  ASSUME NEW q, ASequence(q), q # <<>>
  PROVE  q = q[1] & Tail(q) /\ ASequence(Tail(q)) /\ Len(Tail(q)) = Len(q) - 1 /\ Len(q) \in Nat \ {0}
<1>1. ASequence(Tail(q)) /\ Len(q) \in Nat \ {0} /\ Len(Tail(q)) = Len(q) - 1
      /\ \A i \in 1 .. Len(q) - 1 : Tail(q)[i] = q[i + 1]
  BY Rests
<1> DEFINE t == Tail(q)
           x == q[1] & t
<1>2. ASequence(t)
  BY <1>1
<1> HIDE DEF t
<1>3. /\ ASequence(x) /\ x[1] = q[1] /\ Len(x) = Len(t) + 1
      /\ \A i \in 1 .. Len(t) : x[i + 1] = t[i]
  BY <1>2, ConsFacts
<1> HIDE DEF x
<1>4. ASSUME NEW i \in 1 .. Len(x) PROVE x[i] = q[i]
  <2>1. CASE i = 1
    BY <2>1, <1>3
  <2>2. CASE i # 1
    <3>1. i - 1 \in 1 .. Len(t) /\ (i - 1) + 1 = i
      BY <2>2, <1>1, <1>3 DEF t
    <3>2. x[i] = t[i - 1]
      BY <3>1, <1>3
    <3>3. t[i - 1] = q[i]
      BY <3>1, <1>1 DEF t
    <3> QED BY <3>2, <3>3
  <2> QED BY <2>1, <2>2
<1>5. x = q
  BY <1>1, <1>3, <1>4, EqualSequences DEF t
<1> QED
  BY <1>1, <1>5 DEF x, t

LEMMA OneSequence == \A a : ASequence(<<a>>) /\ <<a>> = a & <<>>
<1> TAKE a
<1>1. <<a>> \in Seq({a})
  OBVIOUS
<1>2. ASequence(<<a>>)
  BY <1>1 DEF ASequence
<1>3. <<a>> \o <<>> = <<a>>
  BY <1>2, Empties
<1> QED BY <1>2, <1>3 DEF &

LEMMA ConcatCons ==
  ASSUME NEW a, NEW q, ASequence(q), NEW r, ASequence(r)
  PROVE  (a & q) \o r = a & (q \o r)
BY OneSequence, ConcatAssoc DEF &

LEMMA NilSequence == ASequence(Nil)
BY EmptySequence DEF Nil

LEMMA JoinSequence ==
  ASSUME NEW p, ASequence(p), NEW q, ASequence(q)
  PROVE  ASequence(p ++ q)
BY Concats DEF ++

LEMMA ConsSequence ==
  ASSUME NEW a, NEW q, ASequence(q)
  PROVE  ASequence(a & q)
BY ConsFacts

LEMMA JoinAssoc ==
  ASSUME NEW q, ASequence(q), NEW r, ASequence(r), NEW t, ASequence(t)
  PROVE  (q ++ r) ++ t = q ++ (r ++ t)
<1>1. (q \o r) \o t = q \o (r \o t)
  BY ConcatAssoc
<1> QED BY <1>1 DEF ++

LEMMA JoinNil ==
  ASSUME NEW q, ASequence(q)
  PROVE  Nil ++ q = q /\ q ++ Nil = q
BY Empties DEF Nil, ++

LEMMA JoinCons ==
  ASSUME NEW a, NEW q, ASequence(q), NEW r, ASequence(r)
  PROVE  (a & q) ++ r = a & (q ++ r)
<1>1. (a & q) \o r = a & (q \o r)
  BY ConcatCons
<1> QED BY <1>1 DEF ++

LEMMA ConsNotNil ==
  ASSUME NEW a, NEW q, ASequence(q)
  PROVE  a & q # Nil
BY ConsFacts DEF Nil

LEMMA ConsParts ==
  ASSUME NEW a, NEW q, ASequence(q)
  PROVE  (a & q)[1] = a /\ Tail(a & q) = q
BY ConsFacts

LEMMA ConsOrNil ==
  ASSUME NEW q, ASequence(q)
  PROVE  \/ q = Nil
         \/ \E a, r : ASequence(r) /\ q = a & r
<1>1. CASE q = <<>>
  BY <1>1 DEF Nil
<1>2. CASE q # <<>>
  BY <1>2, Decompose
<1> QED BY <1>1, <1>2

LEMMA Single == \A a : <<a>> = a & Nil
BY OneSequence DEF Nil

-------------------------------------------------------------------------------
(* Steps of one kind, and what comes after them. *)

AllOp(p, op) == ASequence(p) /\ \A i \in 1 .. Len(p) : p[i].op = op

LEMMA AllOpSequence ==
  ASSUME NEW op, NEW p, AllOp(p, op)
  PROVE  ASequence(p)
BY DEF AllOp

LEMMA AllOpNil == \A op : AllOp(Nil, op)
BY EmptySequence DEF AllOp, Nil

LEMMA AllOpRest ==
  ASSUME NEW op, NEW p, ASequence(p), NEW q, ASequence(q), AllOp(p ++ q, op)
  PROVE  AllOp(q, op)
<1> DEFINE x == p \o q
<1>1. /\ Len(p) \in Nat /\ Len(q) \in Nat /\ Len(x) = Len(p) + Len(q)
      /\ \A i \in 1 .. Len(p) + Len(q) : x[i] = IF i <= Len(p) THEN p[i] ELSE q[i - Len(p)]
  BY Concats
<1>2. \A i \in 1 .. Len(x) : x[i].op = op
  BY DEF AllOp, ++
<1> HIDE DEF x
<1>3. ASSUME NEW i \in 1 .. Len(q) PROVE q[i].op = op
  <2>1. i + Len(p) \in 1 .. Len(x) /\ ~(i + Len(p) <= Len(p)) /\ (i + Len(p)) - Len(p) = i
    BY <1>1
  <2>2. x[i + Len(p)] = q[i]
    BY <1>1, <2>1
  <2> QED BY <1>2, <2>1, <2>2
<1> QED BY <1>3 DEF AllOp

LEMMA AllOpJoin ==
  ASSUME NEW op, NEW p, AllOp(p, op), NEW q, AllOp(q, op)
  PROVE  AllOp(p ++ q, op)
<1> DEFINE x == p \o q
<1>1. /\ ASequence(x) /\ Len(p) \in Nat /\ Len(q) \in Nat /\ Len(x) = Len(p) + Len(q)
      /\ \A i \in 1 .. Len(p) + Len(q) : x[i] = IF i <= Len(p) THEN p[i] ELSE q[i - Len(p)]
  BY Concats DEF AllOp
<1>2. (\A i \in 1 .. Len(p) : p[i].op = op) /\ (\A i \in 1 .. Len(q) : q[i].op = op)
  BY DEF AllOp
<1> HIDE DEF x
<1>3. ASSUME NEW i \in 1 .. Len(x) PROVE x[i].op = op
  <2>1. CASE i <= Len(p)
    <3>1. i \in 1 .. Len(p) /\ x[i] = p[i]
      BY <2>1, <1>1
    <3> QED BY <3>1, <1>2
  <2>2. CASE ~(i <= Len(p))
    <3>1. i - Len(p) \in 1 .. Len(q) /\ x[i] = q[i - Len(p)]
      BY <2>2, <1>1
    <3> QED BY <3>1, <1>2
  <2> QED BY <2>1, <2>2
<1>4. AllOp(x, op)
  BY <1>1, <1>3 DEF AllOp
<1> QED BY <1>4 DEF x, ++

LEMMA AllOpCons ==
  ASSUME NEW op, NEW a, a.op = op, NEW q, AllOp(q, op)
  PROVE  AllOp(a & q, op)
<1> DEFINE l == <<a>>
<1>1. ASequence(l) /\ Len(l) = 1 /\ l[1] = a
  BY OneSequence
<1> HIDE DEF l
<1>2. AllOp(l, op)
  BY <1>1 DEF AllOp
<1>3. AllOp(l ++ q, op)
  BY <1>2, AllOpJoin
<1> QED BY <1>3 DEF l, ++, &

LEMMA AllOpParts ==
  ASSUME NEW op, NEW a, NEW q, ASequence(q), AllOp(a & q, op)
  PROVE  a.op = op /\ AllOp(q, op)
<1>1. /\ (a & q)[1] = a /\ Len(a & q) = Len(q) + 1 /\ Len(q) \in Nat
      /\ \A i \in 1 .. Len(q) : (a & q)[i + 1] = q[i]
  BY ConsFacts
<1>2. \A i \in 1 .. Len(a & q) : (a & q)[i].op = op
  BY DEF AllOp
<1>3. a.op = op
  BY <1>1, <1>2
<1>4. ASSUME NEW i \in 1 .. Len(q) PROVE q[i].op = op
  <2>1. i + 1 \in 1 .. Len(a & q)
    BY <1>1
  <2> QED BY <1>1, <1>2, <2>1
<1> QED BY <1>3, <1>4 DEF AllOp

LEMMA AllOpCases ==
  ASSUME NEW op, NEW p, AllOp(p, op)
  PROVE  \/ p = Nil
         \/ \E a, q : AllOp(q, op) /\ a.op = op /\ p = a & q
<1>1. ASequence(p)
  BY DEF AllOp
<1>2. CASE p = Nil
  BY <1>2
<1>3. CASE p # Nil
  <2>1. PICK a, q : ASequence(q) /\ p = a & q
    BY <1>1, <1>3, ConsOrNil
  <2>2. ASequence(q) /\ AllOp(a & q, op)
    BY <2>1
  <2>3. a.op = op /\ AllOp(q, op)
    BY <2>2, AllOpParts
  <2> QED BY <2>1, <2>3
<1> QED BY <1>2, <1>3

(* The first step is one of those, or the first that comes after them. *)
LEMMA Peel ==
  ASSUME NEW op, NEW p, AllOp(p, op), NEW t, ASequence(t),
         NEW a, NEW x, ASequence(x), p ++ t = a & x
  PROVE  \/ p = Nil /\ t = a & x
         \/ a.op = op /\ \E p1 : AllOp(p1, op) /\ p = a & p1 /\ x = p1 ++ t
<1>1. CASE p = Nil
  BY <1>1, JoinNil
<1>2. CASE p # Nil
  <2>1. PICK b, q : AllOp(q, op) /\ b.op = op /\ p = b & q
    BY <1>2, AllOpCases
  <2>2. ASequence(q)
    BY <2>1, AllOpSequence
  <2>3. ASequence(q ++ t)
    BY <2>2, JoinSequence
  <2>4. p ++ t = b & (q ++ t)
    BY <2>1, <2>2, JoinCons
  <2>5. a = b /\ x = q ++ t
    BY <2>3, <2>4, ConsEqual
  <2> QED BY <2>1, <2>5
<1> QED BY <1>1, <1>2

(* One sequence, cut in two places. *)
LEMMA TwoCuts ==
  ASSUME NEW q, ASequence(q), NEW B, ASequence(B), NEW r, ASequence(r), NEW d, ASequence(d),
         q ++ B = r ++ d, Len(q) \in 0 .. Len(r)
  PROVE  \E r2 : ASequence(r2) /\ r = q ++ r2 /\ B = r2 ++ d
<1> DEFINE qB == q \o B
           rd == r \o d
           n == Len(r) - Len(q)
           r2 == [i \in 1 .. n |-> r[i + Len(q)]]
<1>1. /\ Len(q) \in Nat /\ Len(B) \in Nat /\ Len(qB) = Len(q) + Len(B)
      /\ \A i \in 1 .. Len(q) + Len(B) : qB[i] = IF i <= Len(q) THEN q[i] ELSE B[i - Len(q)]
  BY Concats
<1>2. /\ Len(r) \in Nat /\ Len(d) \in Nat /\ Len(rd) = Len(r) + Len(d)
      /\ \A i \in 1 .. Len(r) + Len(d) : rd[i] = IF i <= Len(r) THEN r[i] ELSE d[i - Len(r)]
  BY Concats
<1>3. qB = rd
  BY DEF ++
<1> HIDE DEF qB, rd
<1>a. Len(qB) = Len(rd)
  BY <1>3
<1>b. Len(q) <= Len(r)
  BY <1>1, <1>2
<1>4. n \in Nat /\ Len(B) = n + Len(d)
  <2> HIDE DEF n
  <2>1. Len(q) + Len(B) = Len(r) + Len(d)
    BY <1>1, <1>2, <1>a
  <2>2. n = Len(r) - Len(q)
    BY DEF n
  <2> QED BY <1>1, <1>2, <1>b, <2>1, <2>2
<1>5. ASequence(r2) /\ Len(r2) = n /\ \A i \in 1 .. n : r2[i] = r[i + Len(q)]
  <2> DEFINE E == {r[i + Len(q)] : i \in 1 .. n}
  <2>1. r2 \in [1 .. n -> E]
    OBVIOUS
  <2>2. \A i \in 1 .. n : r2[i] = r[i + Len(q)]
    OBVIOUS
  <2> HIDE DEF r2, E, n
  <2>3. r2 \in Seq(E) /\ Len(r2) = n
    BY <1>4, <2>1
  <2> QED BY <2>2, <2>3 DEF ASequence
<1> HIDE DEF r2
<1>6. r = q \o r2
  <2> DEFINE x == q \o r2
  <2>1. /\ ASequence(x) /\ Len(x) = Len(q) + n
        /\ \A i \in 1 .. Len(q) + n : x[i] = IF i <= Len(q) THEN q[i] ELSE r2[i - Len(q)]
    BY <1>5, Concats
  <2> HIDE DEF x
  <2>2. ASSUME NEW i \in 1 .. Len(r) PROVE r[i] = x[i]
    <3>1. i \in 1 .. Len(q) + n /\ i \in 1 .. Len(r) + Len(d) /\ i \in 1 .. Len(q) + Len(B)
      BY <1>1, <1>2, <1>4
    <3>2. CASE i <= Len(q)
      BY <3>1, <3>2, <2>1, <1>1, <1>2, <1>3
    <3>3. CASE i > Len(q)
      <4>1. i - Len(q) \in 1 .. n /\ (i - Len(q)) + Len(q) = i
        BY <3>1, <3>3, <1>1, <1>2
      <4> QED BY <3>1, <3>3, <4>1, <2>1, <1>1, <1>5
    <3> QED BY <3>2, <3>3, <1>1
  <2>3. Len(x) = Len(r)
    BY <2>1, <1>1, <1>2
  <2>4. r = x
    BY <2>1, <2>2, <2>3, EqualSequences
  <2> QED BY <2>4 DEF x
<1>7. B = r2 \o d
  <2> DEFINE x == r2 \o d
  <2> HIDE DEF n
  <2>1. /\ ASequence(x) /\ Len(x) = n + Len(d)
        /\ \A i \in 1 .. n + Len(d) : x[i] = IF i <= n THEN r2[i] ELSE d[i - n]
    BY <1>5, Concats
  <2> USE DEF n
  <2> HIDE DEF x
  <2>2. ASSUME NEW i \in 1 .. Len(B) PROVE B[i] = x[i]
    <3> DEFINE k == i + Len(q)
    <3>1. k \in 1 .. Len(q) + Len(B) /\ k \in 1 .. Len(r) + Len(d) /\ k > Len(q) /\ k - Len(q) = i
      BY <1>1, <1>2, <1>4
    <3>2. B[i] = qB[k]
      BY <3>1, <1>1
    <3>3. CASE i <= n
      <4>1. k <= Len(r) /\ i \in 1 .. n
        BY <3>3, <1>1, <1>2
      <4>2. qB[k] = r[k]
        BY <3>1, <4>1, <1>2, <1>3
      <4> QED BY <3>2, <4>1, <4>2, <2>1, <1>4, <1>5, <3>3
    <3>4. CASE i > n
      <4>1. k > Len(r) /\ k - Len(r) = i - n /\ i \in 1 .. n + Len(d)
        BY <3>4, <1>1, <1>2, <1>4
      <4>2. qB[k] = d[k - Len(r)]
        BY <3>1, <4>1, <1>2, <1>3
      <4> QED BY <3>2, <4>1, <4>2, <2>1, <1>4, <3>4
    <3> QED BY <3>3, <3>4, <1>4
  <2>3. Len(B) = Len(x)
    BY <2>1, <1>4
  <2>4. B = x
    BY <2>1, <2>2, <2>3, EqualSequences
  <2> QED BY <2>4 DEF x
<1> QED BY <1>5, <1>6, <1>7 DEF ++

(* A step of another kind, after some of one kind, is not among steps that  *)
(* are not like it.                                                         *)
LEMMA Cut ==
  ASSUME NEW op, NEW q, ASequence(q), NEW B, ASequence(B), NEW r, AllOp(r, op),
         NEW d, NEW d1, ASequence(d1), NEW x, d = x & d1, q ++ B = r ++ d,
         \A i \in 1 .. Len(q) : q[i].op # x.op
  PROVE  \E r2 : AllOp(r2, op) /\ r = q ++ r2 /\ B = r2 ++ d
<1> DEFINE qB == q \o B
           rd == r \o d
<1>0. ASequence(r) /\ ASequence(d) /\ Len(d) \in Nat \ {0} /\ d[1] = x
  BY ConsFacts, AllOpSequence
<1>1. /\ Len(q) \in Nat /\ Len(B) \in Nat /\ Len(qB) = Len(q) + Len(B)
      /\ \A i \in 1 .. Len(q) + Len(B) : qB[i] = IF i <= Len(q) THEN q[i] ELSE B[i - Len(q)]
  BY Concats
<1>2. /\ Len(r) \in Nat /\ Len(rd) = Len(r) + Len(d)
      /\ \A i \in 1 .. Len(r) + Len(d) : rd[i] = IF i <= Len(r) THEN r[i] ELSE d[i - Len(r)]
  BY <1>0, Concats
<1>3. qB = rd
  BY DEF ++
<1> HIDE DEF qB, rd
<1>4. Len(q) \in 0 .. Len(r)
  <2> SUFFICES ASSUME Len(r) < Len(q) PROVE FALSE
    BY <1>1, <1>2
  <2> DEFINE k == Len(r) + 1
  <2>1. k \in 1 .. Len(q) /\ k \in 1 .. Len(q) + Len(B) /\ k \in 1 .. Len(r) + Len(d)
        /\ ~(k <= Len(r)) /\ k - Len(r) = 1
    BY <1>0, <1>1, <1>2
  <2>2. q[k] = x
    BY <2>1, <1>0, <1>1, <1>2, <1>3
  <2> QED BY <2>1, <2>2
<1>5. PICK r2 : ASequence(r2) /\ r = q ++ r2 /\ B = r2 ++ d
  BY <1>0, <1>4, TwoCuts
<1>6. AllOp(q ++ r2, op)
  BY <1>5
<1>7. AllOp(r2, op)
  BY <1>5, <1>6, AllOpRest
<1> QED BY <1>5, <1>7

(* The steps of a script, by their kinds. *)
LEMMA Kinds ==
  /\ \A w : R(w).op = "read" /\ R(w).what = w
  /\ \A w : L(w).op = "local" /\ L(w).what = w
  /\ \A w : GiveUp(w).op = "stop" /\ GiveUp(w).what = w
  /\ \A w : G(w).op = "get" /\ G(w).what = w
  /\ \A w : D(w).op = "decide" /\ D(w).what = w
  /\ \A w : Chosen(w).op = "chosen" /\ Chosen(w).what = w
  /\ \A w, v : W(w, v).op = "write" /\ W(w, v).what = w /\ W(w, v).val = v
  /\ \A w, v : S(w, v).op = "send" /\ S(w, v).what = w /\ S(w, v).val = v
BY DEF R, W, L, GiveUp, S, G, D, Chosen

(* The handshake's last message, and the end of the script, as steps.       *)
F == [op |-> "tls", what |-> "finished"]
Ready == [op |-> "ready", what |-> "ready"]

LEMMA Lasts == F.op = "tls" /\ F.what = "finished" /\ Ready.op = "ready" /\ Ready.what = "ready"
BY DEF F, Ready

-------------------------------------------------------------------------------
(* After what is written, the client does not wait for itself ...           *)
Onward(x) ==
  \A p, a, t : AllOp(p, "write") /\ ASequence(t) /\ x = p ++ (a & t) => a.op # "local"
(* ... and it has something to wait for.                                    *)
Finishes(x) == \E p : AllOp(p, "write") /\ x = p ++ (Ready & Nil)

LEMMA OnwardOther ==
  ASSUME NEW a, a.op \notin {"write", "local"}, NEW x, ASequence(x)
  PROVE  Onward(a & x)
<1> SUFFICES ASSUME NEW p, AllOp(p, "write"), NEW b, NEW t, ASequence(t), a & x = p ++ (b & t)
             PROVE  b.op # "local"
  BY DEF Onward
<1>1. ASequence(b & t)
  BY ConsSequence
<1>2. p = Nil /\ b & t = a & x
  <2>1. p ++ (b & t) = a & x
    OBVIOUS
  <2> QED BY <1>1, <2>1, Peel
<1>3. b = a
  BY <1>2, ConsEqual
<1> QED BY <1>3

LEMMA OnwardWrite ==
  ASSUME NEW a, a.op = "write", NEW x, ASequence(x), Onward(x)
  PROVE  Onward(a & x)
<1> SUFFICES ASSUME NEW p, AllOp(p, "write"), NEW b, NEW t, ASequence(t), a & x = p ++ (b & t)
             PROVE  b.op # "local"
  BY DEF Onward
<1>1. ASequence(b & t) /\ p ++ (b & t) = a & x
  BY ConsSequence
<1>2. CASE p = Nil /\ b & t = a & x
  <2>1. b = a
    BY <1>2, ConsEqual
  <2> QED BY <2>1
<1>3. CASE \E p1 : AllOp(p1, "write") /\ p = a & p1 /\ x = p1 ++ (b & t)
  BY <1>3 DEF Onward
<1> QED BY <1>1, <1>2, <1>3, Peel

LEMMA FinishesCons ==
  ASSUME NEW a, NEW x, ASequence(x), Finishes(a & x)
  PROVE  a = Ready \/ (a.op = "write" /\ Finishes(x))
<1> PICK p : AllOp(p, "write") /\ a & x = p ++ (Ready & Nil)
  BY DEF Finishes
<1>1. ASequence(Ready & Nil) /\ p ++ (Ready & Nil) = a & x
  BY ConsSequence, NilSequence
<1>2. CASE Ready & Nil = a & x
  <2>1. Ready = a
    BY <1>2, ConsEqual, NilSequence
  <2> QED BY <2>1
<1>3. CASE a.op = "write" /\ \E p1 : AllOp(p1, "write") /\ p = a & p1 /\ x = p1 ++ (Ready & Nil)
  BY <1>3 DEF Finishes
<1> QED BY <1>1, <1>2, <1>3, Peel

-------------------------------------------------------------------------------
(* A stretch of the conversation in which nothing is decided.  The client   *)
(* has to do c, up to K, the server q: the client's messages are those that *)
(* the server gets, the server's are those that the client reads, and they  *)
(* come in the same order.  (The smallest relation on pairs of suffixes is  *)
(* meant; any that follows these rules will do.)                            *)
Wire(q) == ASequence(q) /\ \A i \in 1 .. Len(q) : q[i].op \in {"send", "get"}
Meets(a, b) == (a.op = "read" /\ b.op = "send" /\ a.what = b.what) \/ (a.op = "write" /\ b = G(a.what))

Alone(A, Rel, x, y) ==
  \E a, x1 : /\ ASequence(x1) /\ x = a & x1
             /\ a \in A /\ a.op = "local" /\ <<x1, y>> \in Rel
Together(A, Rel, x, y) ==
  \E a, x1, b, y1 : /\ ASequence(x1) /\ ASequence(y1) /\ x = a & x1 /\ y = b & y1
                    /\ a \in A /\ Meets(a, b) /\ (a.op = "write" => Onward(x))
                    /\ <<x1, y1>> \in Rel
Follows(A, K, Rel) ==
  \A x, y : <<x, y>> \in Rel =>
    /\ ASequence(x) /\ Wire(y)
    /\ Finishes(x) => Finishes(K)
    /\ (x = K /\ y = Nil) \/ Alone(A, Rel, x, y) \/ Together(A, Rel, x, y)
Matched(A, K, c, q) == \E Rel : <<c, q>> \in Rel /\ Follows(A, K, Rel)

(* ... and then they stand at K and B. *)
Near(A, K, B, c, s) == ASequence(B) /\ \E q : Matched(A, K, c, q) /\ s = q ++ B

LEMMA WireNil == Wire(Nil)
BY EmptySequence DEF Wire, Nil

LEMMA WireCons ==
  ASSUME NEW a, a.op \in {"send", "get"}, NEW q, Wire(q)
  PROVE  Wire(a & q)
<1>1. /\ (a & q)[1] = a /\ Len(a & q) = Len(q) + 1 /\ Len(q) \in Nat /\ ASequence(a & q)
      /\ \A i \in 1 .. Len(q) : (a & q)[i + 1] = q[i]
  BY ConsFacts DEF Wire
<1> DEFINE x == a & q
<1>2. ASSUME NEW i \in 1 .. Len(x) PROVE x[i].op \in {"send", "get"}
  <2>1. CASE i = 1
    BY <2>1, <1>1
  <2>2. CASE i # 1
    <3>1. i - 1 \in 1 .. Len(q) /\ (i - 1) + 1 = i
      BY <2>2, <1>1
    <3>2. x[i] = q[i - 1]
      BY <3>1, <1>1
    <3> QED BY <3>1, <3>2 DEF Wire
  <2> QED BY <2>1, <2>2
<1> QED BY <1>1, <1>2 DEF Wire

LEMMA MatchedFacts ==
  ASSUME NEW A, NEW K, NEW c, NEW q, Matched(A, K, c, q)
  PROVE  ASequence(c) /\ Wire(q) /\ ASequence(q) /\ (Finishes(c) => Finishes(K))
BY DEF Matched, Follows, Wire

LEMMA MatchedCases ==
  ASSUME NEW A, NEW K, NEW c, NEW q, Matched(A, K, c, q)
  PROVE  \/ c = K /\ q = Nil
         \/ \E a, c1 : /\ ASequence(c1) /\ c = a & c1
                       /\ a \in A /\ a.op = "local" /\ Matched(A, K, c1, q)
         \/ \E a, c1, b, q1 :
              /\ ASequence(c1) /\ ASequence(q1) /\ c = a & c1 /\ q = b & q1
              /\ a \in A /\ Meets(a, b) /\ (a.op = "write" => Onward(c))
              /\ Matched(A, K, c1, q1)
<1> PICK Rel : <<c, q>> \in Rel /\ Follows(A, K, Rel)
  BY DEF Matched
<1>0. (c = K /\ q = Nil) \/ Alone(A, Rel, c, q) \/ Together(A, Rel, c, q)
  BY DEF Follows
<1>1. CASE c = K /\ q = Nil
  BY <1>1
<1>2. CASE Alone(A, Rel, c, q)
  <2> PICK a, c1 : /\ ASequence(c1) /\ c = a & c1
                   /\ a \in A /\ a.op = "local" /\ <<c1, q>> \in Rel
    BY <1>2 DEF Alone
  <2>1. Matched(A, K, c1, q)
    BY DEF Matched
  <2> QED BY <2>1
<1>3. CASE Together(A, Rel, c, q)
  <2> PICK a, c1, b, q1 :
          /\ ASequence(c1) /\ ASequence(q1) /\ c = a & c1 /\ q = b & q1
          /\ a \in A /\ Meets(a, b) /\ (a.op = "write" => Onward(c))
          /\ <<c1, q1>> \in Rel
    BY <1>3 DEF Together
  <2>1. Matched(A, K, c1, q1)
    BY DEF Matched
  <2> QED BY <2>1
<1> QED BY <1>0, <1>1, <1>2, <1>3

LEMMA MatchedEnd ==
  ASSUME NEW A, NEW K, ASequence(K)
  PROVE  Matched(A, K, K, Nil)
<1> DEFINE Rel == {<<K, Nil>>}
<1>1. Follows(A, K, Rel)
  <2> SUFFICES ASSUME NEW x, NEW y, <<x, y>> \in Rel
               PROVE  /\ ASequence(x) /\ Wire(y)
                      /\ Finishes(x) => Finishes(K)
                      /\ (x = K /\ y = Nil) \/ Alone(A, Rel, x, y) \/ Together(A, Rel, x, y)
    BY DEF Follows
  <2>1. x = K /\ y = Nil
    OBVIOUS
  <2> QED BY <2>1, WireNil
<1>2. <<K, Nil>> \in Rel
  OBVIOUS
<1> QED BY <1>1, <1>2 DEF Matched

LEMMA MatchedLocal ==
  ASSUME NEW A, NEW K, NEW a, a \in A, a.op = "local", NEW c, NEW q, Matched(A, K, c, q)
  PROVE  Matched(A, K, a & c, q)
<1> PICK R0 : <<c, q>> \in R0 /\ Follows(A, K, R0)
  BY DEF Matched
<1>0. ASequence(c) /\ Wire(q) /\ ASequence(a & c)
  BY MatchedFacts, ConsSequence
<1> DEFINE c2 == a & c
           Rel == R0 \cup {<<c2, q>>}
<1>1. ASSUME NEW x, NEW y, <<x, y>> \in R0
      PROVE  /\ ASequence(x) /\ Wire(y)
             /\ Finishes(x) => Finishes(K)
             /\ (x = K /\ y = Nil) \/ Alone(A, Rel, x, y) \/ Together(A, Rel, x, y)
  <2>1. ASequence(x) /\ Wire(y) /\ (Finishes(x) => Finishes(K))
    BY <1>1 DEF Follows
  <2>2. (x = K /\ y = Nil) \/ Alone(A, R0, x, y) \/ Together(A, R0, x, y)
    BY <1>1 DEF Follows
  <2>3. Alone(A, R0, x, y) => Alone(A, Rel, x, y)
    BY DEF Alone
  <2>4. Together(A, R0, x, y) => Together(A, Rel, x, y)
    BY DEF Together
  <2> QED BY <2>1, <2>2, <2>3, <2>4
<1>2. /\ ASequence(c2) /\ Wire(q)
      /\ Finishes(c2) => Finishes(K)
      /\ Alone(A, Rel, c2, q)
  <2>1. ASSUME Finishes(c2) PROVE Finishes(K)
    <3>1. a # Ready /\ a.op # "write"
      BY Lasts
    <3> QED BY <1>0, <2>1, <3>1, FinishesCons
  <2>2. Alone(A, Rel, c2, q)
    BY <1>0 DEF Alone
  <2> QED BY <1>0, <2>1, <2>2
<1>3. Follows(A, K, Rel)
  <2> SUFFICES ASSUME NEW x, NEW y, <<x, y>> \in Rel
               PROVE  /\ ASequence(x) /\ Wire(y)
                      /\ Finishes(x) => Finishes(K)
                      /\ (x = K /\ y = Nil) \/ Alone(A, Rel, x, y) \/ Together(A, Rel, x, y)
    BY DEF Follows
  <2>1. CASE <<x, y>> \in R0
    BY <2>1, <1>1
  <2>2. CASE x = c2 /\ y = q
    BY <2>2, <1>2
  <2> QED BY <2>1, <2>2
<1>4. <<c2, q>> \in Rel
  OBVIOUS
<1> QED BY <1>3, <1>4 DEF Matched

LEMMA MatchedStep ==
  ASSUME NEW A, NEW K, NEW a, a \in A, NEW b, Meets(a, b), NEW c, NEW q, Matched(A, K, c, q),
         a.op = "write" => Onward(a & c)
  PROVE  Matched(A, K, a & c, b & q)
<1> PICK R0 : <<c, q>> \in R0 /\ Follows(A, K, R0)
  BY DEF Matched
<1>0. ASequence(c) /\ Wire(q) /\ ASequence(q) /\ ASequence(a & c) /\ (Finishes(c) => Finishes(K))
  BY MatchedFacts, ConsSequence
<1>a. a.op # "ready" /\ b.op \in {"send", "get"}
  BY Kinds DEF Meets
<1> DEFINE c2 == a & c
           q2 == b & q
           Rel == R0 \cup {<<c2, q2>>}
<1>1. ASSUME NEW x, NEW y, <<x, y>> \in R0
      PROVE  /\ ASequence(x) /\ Wire(y)
             /\ Finishes(x) => Finishes(K)
             /\ (x = K /\ y = Nil) \/ Alone(A, Rel, x, y) \/ Together(A, Rel, x, y)
  <2>1. ASequence(x) /\ Wire(y) /\ (Finishes(x) => Finishes(K))
    BY <1>1 DEF Follows
  <2>2. (x = K /\ y = Nil) \/ Alone(A, R0, x, y) \/ Together(A, R0, x, y)
    BY <1>1 DEF Follows
  <2>3. Alone(A, R0, x, y) => Alone(A, Rel, x, y)
    BY DEF Alone
  <2>4. Together(A, R0, x, y) => Together(A, Rel, x, y)
    BY DEF Together
  <2> QED BY <2>1, <2>2, <2>3, <2>4
<1>2. /\ ASequence(c2) /\ Wire(q2)
      /\ Finishes(c2) => Finishes(K)
      /\ Together(A, Rel, c2, q2)
  <2>1. ASSUME Finishes(c2) PROVE Finishes(K)
    <3>1. a # Ready
      BY Lasts, <1>a
    <3> QED BY <1>0, <2>1, <3>1, FinishesCons
  <2>2. Together(A, Rel, c2, q2)
    BY <1>0 DEF Together
  <2>3. Wire(q2)
    BY <1>0, <1>a, WireCons
  <2> QED BY <1>0, <2>1, <2>2, <2>3
<1>3. Follows(A, K, Rel)
  <2> SUFFICES ASSUME NEW x, NEW y, <<x, y>> \in Rel
               PROVE  /\ ASequence(x) /\ Wire(y)
                      /\ Finishes(x) => Finishes(K)
                      /\ (x = K /\ y = Nil) \/ Alone(A, Rel, x, y) \/ Together(A, Rel, x, y)
    BY DEF Follows
  <2>1. CASE <<x, y>> \in R0
    BY <2>1, <1>1
  <2>2. CASE x = c2 /\ y = q2
    BY <2>2, <1>2
  <2> QED BY <2>1, <2>2
<1>4. <<c2, q2>> \in Rel
  OBVIOUS
<1> QED BY <1>3, <1>4 DEF Matched

LEMMA NearFacts ==
  ASSUME NEW A, NEW K, NEW B, NEW c, NEW s, Near(A, K, B, c, s)
  PROVE  ASequence(c) /\ ASequence(s) /\ ASequence(B) /\ (Finishes(c) => Finishes(K))
<1> PICK q : Matched(A, K, c, q) /\ s = q ++ B
  BY DEF Near
<1>1. ASequence(B)
  BY DEF Near
<1>2. ASequence(c) /\ ASequence(q) /\ (Finishes(c) => Finishes(K))
  BY MatchedFacts
<1>3. ASequence(s)
  BY <1>1, <1>2, JoinSequence
<1> QED BY <1>1, <1>2, <1>3

(* The next step of the client, and of the server, in such a stretch.       *)
LEMMA NearCases ==
  ASSUME NEW A, NEW K, NEW B, NEW a, NEW c, ASequence(c), NEW s, Near(A, K, B, a & c, s)
  PROVE  \/ a & c = K /\ s = B
         \/ a \in A /\ a.op = "local" /\ Near(A, K, B, c, s)
         \/ /\ a \in A /\ (a.op = "write" => Onward(a & c))
            /\ \E b, t : ASequence(t) /\ s = b & t /\ Meets(a, b) /\ Near(A, K, B, c, t)
<1> DEFINE x == a & c
<1> PICK q : Matched(A, K, x, q) /\ s = q ++ B
  BY DEF Near
<1>0. ASequence(B)
  BY DEF Near
<1>1. CASE x = K /\ q = Nil
  <2>1. s = B
    BY <1>0, <1>1, JoinNil
  <2> QED BY <1>1, <2>1
<1>2. CASE \E a1, c1 : /\ ASequence(c1) /\ x = a1 & c1
                       /\ a1 \in A /\ a1.op = "local" /\ Matched(A, K, c1, q)
  <2> PICK a1, c1 : /\ ASequence(c1) /\ x = a1 & c1
                    /\ a1 \in A /\ a1.op = "local" /\ Matched(A, K, c1, q)
    BY <1>2
  <2>1. a = a1 /\ c = c1
    BY ConsEqual
  <2>2. Near(A, K, B, c, s)
    BY <1>0, <2>1 DEF Near
  <2> QED BY <2>1, <2>2
<1>3. CASE \E a1, c1, b, q1 :
              /\ ASequence(c1) /\ ASequence(q1) /\ x = a1 & c1 /\ q = b & q1
              /\ a1 \in A /\ Meets(a1, b) /\ (a1.op = "write" => Onward(x))
              /\ Matched(A, K, c1, q1)
  <2> PICK a1, c1, b, q1 :
              /\ ASequence(c1) /\ ASequence(q1) /\ x = a1 & c1 /\ q = b & q1
              /\ a1 \in A /\ Meets(a1, b) /\ (a1.op = "write" => Onward(x))
              /\ Matched(A, K, c1, q1)
    BY <1>3
  <2>1. a = a1 /\ c = c1
    BY ConsEqual
  <2>2. s = b & (q1 ++ B) /\ ASequence(q1 ++ B)
    BY <1>0, JoinCons, JoinSequence
  <2>3. Near(A, K, B, c, q1 ++ B)
    BY <1>0, <2>1 DEF Near
  <2>4. Meets(a, b) /\ (a.op = "write" => Onward(a & c)) /\ a \in A
    BY <2>1
  <2> QED BY <2>2, <2>3, <2>4
<1> HIDE DEF x
<1> QED BY <1>1, <1>2, <1>3, MatchedCases DEF x

LEMMA NearEnd ==
  ASSUME NEW A, NEW K, ASequence(K), NEW B, ASequence(B)
  PROVE  Near(A, K, B, K, B)
<1>1. Matched(A, K, K, Nil) /\ B = Nil ++ B
  BY MatchedEnd, JoinNil
<1> QED BY <1>1 DEF Near

LEMMA NearLocal ==
  ASSUME NEW A, NEW K, NEW B, NEW a, a \in A, a.op = "local", NEW c, NEW s, Near(A, K, B, c, s)
  PROVE  Near(A, K, B, a & c, s)
<1> PICK q : Matched(A, K, c, q) /\ s = q ++ B
  BY DEF Near
<1>1. ASequence(B)
  BY DEF Near
<1>2. Matched(A, K, a & c, q)
  BY MatchedLocal
<1> QED BY <1>1, <1>2 DEF Near

LEMMA NearStep ==
  ASSUME NEW A, NEW K, NEW B, NEW a, a \in A, NEW b, Meets(a, b), NEW c, NEW s,
         Near(A, K, B, c, s), a.op = "write" => Onward(a & c)
  PROVE  Near(A, K, B, a & c, b & s)
<1> PICK q : Matched(A, K, c, q) /\ s = q ++ B
  BY DEF Near
<1>1. ASequence(B) /\ ASequence(q)
  BY MatchedFacts DEF Near
<1>2. Matched(A, K, a & c, b & q)
  BY MatchedStep
<1>3. b & s = (b & q) ++ B
  BY <1>1, JoinCons
<1> QED BY <1>1, <1>2, <1>3 DEF Near

(* A decision, or a step of the server after those that are under way, is   *)
(* one of those that end the stretch, which may be replaced.                *)
LEMMA NearDecision ==
  ASSUME NEW A, NEW K, NEW B, NEW c, NEW r, AllOp(r, "send"), NEW x, x.op \notin {"send", "get"},
         NEW d, ASequence(d), Near(A, K, B, c, r ++ (x & d))
  PROVE  \E r2 : /\ AllOp(r2, "send") /\ B = r2 ++ (x & d)
                 /\ \A d2 : ASequence(d2) => Near(A, K, r2 ++ d2, c, r ++ d2)
<1> PICK q : Matched(A, K, c, q) /\ r ++ (x & d) = q ++ B
  BY DEF Near
<1>1. ASequence(B) /\ ASequence(q) /\ ASequence(r) /\ Wire(q)
  BY MatchedFacts, AllOpSequence DEF Near
<1>2. \A i \in 1 .. Len(q) : q[i].op # x.op
  BY <1>1 DEF Wire
<1>3. \E r2 : AllOp(r2, "send") /\ r = q ++ r2 /\ B = r2 ++ (x & d)
  <2> DEFINE e == x & d
  <2>1. q ++ B = r ++ e /\ e = x & d
    OBVIOUS
  <2> HIDE DEF e
  <2>2. \E r2 : AllOp(r2, "send") /\ r = q ++ r2 /\ B = r2 ++ e
    BY <1>1, <1>2, <2>1, Cut
  <2> QED BY <2>1, <2>2
<1> PICK r2 : AllOp(r2, "send") /\ r = q ++ r2 /\ B = r2 ++ (x & d)
  BY <1>3
<1>4. ASSUME NEW d2, ASequence(d2) PROVE Near(A, K, r2 ++ d2, c, r ++ d2)
  <2>1. ASequence(r2)
    BY AllOpSequence
  <2>2. ASequence(r2 ++ d2)
    BY <2>1, <1>4, JoinSequence
  <2>3. (q ++ r2) ++ d2 = q ++ (r2 ++ d2)
    BY <1>1, <1>4, <2>1, JoinAssoc
  <2>4. r ++ d2 = q ++ (r2 ++ d2)
    BY <2>3
  <2> QED BY <2>2, <2>4 DEF Near
<1> QED BY <1>4

(* Scripts, from their first step. *)
LEMMA TupleFront ==
  ASSUME NEW r, NEW E, r \in Seq(E), Len(r) \in Nat \ {0}, NEW a, r[1] = a, NEW t, Tail(r) = t
  PROVE  ASequence(t) /\ r = a & t
<1>1. ASequence(r) /\ r # <<>>
  BY EmptySequence DEF ASequence
<1> QED BY <1>1, Decompose

LEMMA Tuple1 ==
  ASSUME NEW q, ASequence(q), NEW a
  PROVE  <<a>> = a & Nil /\ <<a>> ++ q = a & q /\ ASequence(a & q) /\ ASequence(<<a>>)
<1>1. <<a>> = a & Nil
  BY Single
<1>2. (a & Nil) ++ q = a & q
  BY JoinCons, JoinNil, NilSequence
<1>3. <<a>> ++ q = a & q
  BY DEF ++, &
<1> QED BY <1>1, <1>3, ConsSequence, OneSequence

LEMMA Tuple2 ==
  ASSUME NEW q, ASequence(q), NEW a, NEW b
  PROVE  /\ <<a, b>> = a & (b & Nil)
         /\ <<a, b>> ++ q = a & (b & q)
         /\ ASequence(a & (b & q)) /\ ASequence(<<a, b>>)
<1> DEFINE r == <<a, b>>
           t == <<b>>
           E == {a, b}
<1>1. r \in Seq(E) /\ Len(r) \in Nat \ {0} /\ r[1] = a /\ Tail(r) = t
  OBVIOUS
<1>2. t = b & Nil /\ t ++ q = b & q /\ ASequence(b & q)
  BY Tuple1
<1> HIDE DEF r, t, E
<1>3. ASequence(t) /\ r = a & t
  BY <1>1, TupleFront
<1>4. r ++ q = a & (t ++ q)
  BY <1>3, JoinCons
<1>5. r = a & (b & Nil) /\ r ++ q = a & (b & q) /\ ASequence(a & (b & q)) /\ ASequence(r)
  BY <1>2, <1>3, <1>4, ConsSequence
<1> QED BY <1>5 DEF r

LEMMA Tuple3 ==
  ASSUME NEW q, ASequence(q), NEW a, NEW b, NEW c
  PROVE  /\ <<a, b, c>> = a & (b & (c & Nil))
         /\ <<a, b, c>> ++ q = a & (b & (c & q))
         /\ ASequence(a & (b & (c & q))) /\ ASequence(<<a, b, c>>)
<1> DEFINE r == <<a, b, c>>
           t == <<b, c>>
           E == {a, b, c}
<1>1. r \in Seq(E) /\ Len(r) \in Nat \ {0} /\ r[1] = a /\ Tail(r) = t
  OBVIOUS
<1>2. t = b & (c & Nil) /\ t ++ q = b & (c & q) /\ ASequence(b & (c & q))
  BY Tuple2
<1> HIDE DEF r, t, E
<1>3. ASequence(t) /\ r = a & t
  BY <1>1, TupleFront
<1>4. r ++ q = a & (t ++ q)
  BY <1>3, JoinCons
<1>5. r = a & (b & (c & Nil)) /\ r ++ q = a & (b & (c & q)) /\ ASequence(a & (b & (c & q))) /\ ASequence(r)
  BY <1>2, <1>3, <1>4, ConsSequence
<1> QED BY <1>5 DEF r

LEMMA Tuple4 ==
  ASSUME NEW q, ASequence(q), NEW a, NEW b, NEW c, NEW d
  PROVE  /\ <<a, b, c, d>> = a & (b & (c & (d & Nil)))
         /\ <<a, b, c, d>> ++ q = a & (b & (c & (d & q)))
         /\ ASequence(a & (b & (c & (d & q)))) /\ ASequence(<<a, b, c, d>>)
<1> DEFINE r == <<a, b, c, d>>
           t == <<b, c, d>>
           E == {a, b, c, d}
<1>1. r \in Seq(E) /\ Len(r) \in Nat \ {0} /\ r[1] = a /\ Tail(r) = t
  OBVIOUS
<1>2. t = b & (c & (d & Nil)) /\ t ++ q = b & (c & (d & q)) /\ ASequence(b & (c & (d & q)))
  BY Tuple3
<1> HIDE DEF r, t, E
<1>3. ASequence(t) /\ r = a & t
  BY <1>1, TupleFront
<1>4. r ++ q = a & (t ++ q)
  BY <1>3, JoinCons
<1>5. r = a & (b & (c & (d & Nil))) /\ r ++ q = a & (b & (c & (d & q))) /\ ASequence(a & (b & (c & (d & q)))) /\ ASequence(r)
  BY <1>2, <1>3, <1>4, ConsSequence
<1> QED BY <1>5 DEF r

LEMMA Tuple5 ==
  ASSUME NEW q, ASequence(q), NEW a, NEW b, NEW c, NEW d, NEW e
  PROVE  /\ <<a, b, c, d, e>> = a & (b & (c & (d & (e & Nil))))
         /\ <<a, b, c, d, e>> ++ q = a & (b & (c & (d & (e & q))))
         /\ ASequence(a & (b & (c & (d & (e & q))))) /\ ASequence(<<a, b, c, d, e>>)
<1> DEFINE r == <<a, b, c, d, e>>
           t == <<b, c, d, e>>
           E == {a, b, c, d, e}
<1>1. r \in Seq(E) /\ Len(r) \in Nat \ {0} /\ r[1] = a /\ Tail(r) = t
  OBVIOUS
<1>2. t = b & (c & (d & (e & Nil))) /\ t ++ q = b & (c & (d & (e & q))) /\ ASequence(b & (c & (d & (e & q))))
  BY Tuple4
<1> HIDE DEF r, t, E
<1>3. ASequence(t) /\ r = a & t
  BY <1>1, TupleFront
<1>4. r ++ q = a & (t ++ q)
  BY <1>3, JoinCons
<1>5. r = a & (b & (c & (d & (e & Nil)))) /\ r ++ q = a & (b & (c & (d & (e & q)))) /\ ASequence(a & (b & (c & (d & (e & q))))) /\ ASequence(r)
  BY <1>2, <1>3, <1>4, ConsSequence
<1> QED BY <1>5 DEF r

LEMMA Tuple6 ==
  ASSUME NEW q, ASequence(q), NEW a, NEW b, NEW c, NEW d, NEW e, NEW f
  PROVE  /\ <<a, b, c, d, e, f>> = a & (b & (c & (d & (e & (f & Nil)))))
         /\ <<a, b, c, d, e, f>> ++ q = a & (b & (c & (d & (e & (f & q)))))
         /\ ASequence(a & (b & (c & (d & (e & (f & q)))))) /\ ASequence(<<a, b, c, d, e, f>>)
<1> DEFINE r == <<a, b, c, d, e, f>>
           t == <<b, c, d, e, f>>
           E == {a, b, c, d, e, f}
<1>1. r \in Seq(E) /\ Len(r) \in Nat \ {0} /\ r[1] = a /\ Tail(r) = t
  OBVIOUS
<1>2. t = b & (c & (d & (e & (f & Nil)))) /\ t ++ q = b & (c & (d & (e & (f & q)))) /\ ASequence(b & (c & (d & (e & (f & q)))))
  BY Tuple5
<1> HIDE DEF r, t, E
<1>3. ASequence(t) /\ r = a & t
  BY <1>1, TupleFront
<1>4. r ++ q = a & (t ++ q)
  BY <1>3, JoinCons
<1>5. r = a & (b & (c & (d & (e & (f & Nil))))) /\ r ++ q = a & (b & (c & (d & (e & (f & q))))) /\ ASequence(a & (b & (c & (d & (e & (f & q)))))) /\ ASequence(r)
  BY <1>2, <1>3, <1>4, ConsSequence
<1> QED BY <1>5 DEF r

LEMMA Tuple7 ==
  ASSUME NEW q, ASequence(q), NEW a, NEW b, NEW c, NEW d, NEW e, NEW f, NEW g
  PROVE  /\ <<a, b, c, d, e, f, g>> = a & (b & (c & (d & (e & (f & (g & Nil))))))
         /\ <<a, b, c, d, e, f, g>> ++ q = a & (b & (c & (d & (e & (f & (g & q))))))
         /\ ASequence(a & (b & (c & (d & (e & (f & (g & q))))))) /\ ASequence(<<a, b, c, d, e, f, g>>)
<1> DEFINE r == <<a, b, c, d, e, f, g>>
           t == <<b, c, d, e, f, g>>
           E == {a, b, c, d, e, f, g}
<1>1. r \in Seq(E) /\ Len(r) \in Nat \ {0} /\ r[1] = a /\ Tail(r) = t
  OBVIOUS
<1>2. t = b & (c & (d & (e & (f & (g & Nil))))) /\ t ++ q = b & (c & (d & (e & (f & (g & q))))) /\ ASequence(b & (c & (d & (e & (f & (g & q))))))
  BY Tuple6
<1> HIDE DEF r, t, E
<1>3. ASequence(t) /\ r = a & t
  BY <1>1, TupleFront
<1>4. r ++ q = a & (t ++ q)
  BY <1>3, JoinCons
<1>5. r = a & (b & (c & (d & (e & (f & (g & Nil)))))) /\ r ++ q = a & (b & (c & (d & (e & (f & (g & q)))))) /\ ASequence(a & (b & (c & (d & (e & (f & (g & q))))))) /\ ASequence(r)
  BY <1>2, <1>3, <1>4, ConsSequence
<1> QED BY <1>5 DEF r

LEMMA Tuple8 ==
  ASSUME NEW q, ASequence(q), NEW a, NEW b, NEW c, NEW d, NEW e, NEW f, NEW g, NEW h
  PROVE  /\ <<a, b, c, d, e, f, g, h>> = a & (b & (c & (d & (e & (f & (g & (h & Nil)))))))
         /\ <<a, b, c, d, e, f, g, h>> ++ q = a & (b & (c & (d & (e & (f & (g & (h & q)))))))
         /\ ASequence(a & (b & (c & (d & (e & (f & (g & (h & q)))))))) /\ ASequence(<<a, b, c, d, e, f, g, h>>)
<1> DEFINE r == <<a, b, c, d, e, f, g, h>>
           t == <<b, c, d, e, f, g, h>>
           E == {a, b, c, d, e, f, g, h}
<1>1. r \in Seq(E) /\ Len(r) \in Nat \ {0} /\ r[1] = a /\ Tail(r) = t
  OBVIOUS
<1>2. t = b & (c & (d & (e & (f & (g & (h & Nil)))))) /\ t ++ q = b & (c & (d & (e & (f & (g & (h & q)))))) /\ ASequence(b & (c & (d & (e & (f & (g & (h & q)))))))
  BY Tuple7
<1> HIDE DEF r, t, E
<1>3. ASequence(t) /\ r = a & t
  BY <1>1, TupleFront
<1>4. r ++ q = a & (t ++ q)
  BY <1>3, JoinCons
<1>5. r = a & (b & (c & (d & (e & (f & (g & (h & Nil))))))) /\ r ++ q = a & (b & (c & (d & (e & (f & (g & (h & q))))))) /\ ASequence(a & (b & (c & (d & (e & (f & (g & (h & q)))))))) /\ ASequence(r)
  BY <1>2, <1>3, <1>4, ConsSequence
<1> QED BY <1>5 DEF r

LEMMA Tuple9 ==
  ASSUME NEW q, ASequence(q), NEW a, NEW b, NEW c, NEW d, NEW e, NEW f, NEW g, NEW h, NEW i
  PROVE  /\ <<a, b, c, d, e, f, g, h, i>> = a & (b & (c & (d & (e & (f & (g & (h & (i & Nil))))))))
         /\ <<a, b, c, d, e, f, g, h, i>> ++ q = a & (b & (c & (d & (e & (f & (g & (h & (i & q))))))))
         /\ ASequence(a & (b & (c & (d & (e & (f & (g & (h & (i & q))))))))) /\ ASequence(<<a, b, c, d, e, f, g, h, i>>)
<1> DEFINE r == <<a, b, c, d, e, f, g, h, i>>
           t == <<b, c, d, e, f, g, h, i>>
           E == {a, b, c, d, e, f, g, h, i}
<1>1. r \in Seq(E) /\ Len(r) \in Nat \ {0} /\ r[1] = a /\ Tail(r) = t
  OBVIOUS
<1>2. t = b & (c & (d & (e & (f & (g & (h & (i & Nil))))))) /\ t ++ q = b & (c & (d & (e & (f & (g & (h & (i & q))))))) /\ ASequence(b & (c & (d & (e & (f & (g & (h & (i & q))))))))
  BY Tuple8
<1> HIDE DEF r, t, E
<1>3. ASequence(t) /\ r = a & t
  BY <1>1, TupleFront
<1>4. r ++ q = a & (t ++ q)
  BY <1>3, JoinCons
<1>5. r = a & (b & (c & (d & (e & (f & (g & (h & (i & Nil)))))))) /\ r ++ q = a & (b & (c & (d & (e & (f & (g & (h & (i & q)))))))) /\ ASequence(a & (b & (c & (d & (e & (f & (g & (h & (i & q))))))))) /\ ASequence(r)
  BY <1>2, <1>3, <1>4, ConsSequence
<1> QED BY <1>5 DEF r

LEMMA Tuple10 ==
  ASSUME NEW q, ASequence(q), NEW a, NEW b, NEW c, NEW d, NEW e, NEW f, NEW g, NEW h, NEW i, NEW j
  PROVE  /\ <<a, b, c, d, e, f, g, h, i, j>> = a & (b & (c & (d & (e & (f & (g & (h & (i & (j & Nil)))))))))
         /\ <<a, b, c, d, e, f, g, h, i, j>> ++ q = a & (b & (c & (d & (e & (f & (g & (h & (i & (j & q)))))))))
         /\ ASequence(a & (b & (c & (d & (e & (f & (g & (h & (i & (j & q)))))))))) /\ ASequence(<<a, b, c, d, e, f, g, h, i, j>>)
<1> DEFINE r == <<a, b, c, d, e, f, g, h, i, j>>
           t == <<b, c, d, e, f, g, h, i, j>>
           E == {a, b, c, d, e, f, g, h, i, j}
<1>1. r \in Seq(E) /\ Len(r) \in Nat \ {0} /\ r[1] = a /\ Tail(r) = t
  OBVIOUS
<1>2. t = b & (c & (d & (e & (f & (g & (h & (i & (j & Nil)))))))) /\ t ++ q = b & (c & (d & (e & (f & (g & (h & (i & (j & q)))))))) /\ ASequence(b & (c & (d & (e & (f & (g & (h & (i & (j & q)))))))))
  BY Tuple9
<1> HIDE DEF r, t, E
<1>3. ASequence(t) /\ r = a & t
  BY <1>1, TupleFront
<1>4. r ++ q = a & (t ++ q)
  BY <1>3, JoinCons
<1>5. r = a & (b & (c & (d & (e & (f & (g & (h & (i & (j & Nil))))))))) /\ r ++ q = a & (b & (c & (d & (e & (f & (g & (h & (i & (j & q))))))))) /\ ASequence(a & (b & (c & (d & (e & (f & (g & (h & (i & (j & q)))))))))) /\ ASequence(r)
  BY <1>2, <1>3, <1>4, ConsSequence
<1> QED BY <1>5 DEF r

-------------------------------------------------------------------------------
(* The client's scripts. *)

LEMMA ReasonScript ==
  ASSUME NEW q, ASequence(q)
  PROVE  /\ ReadReason ++ q = R("reasonLength") & (R("reason") & (GiveUp("refused") & q))
         /\ ReadReason = R("reasonLength") & (R("reason") & (GiveUp("refused") & Nil))
BY Tuple3 DEF ReadReason

LEMMA ResultScript ==
  ASSUME NEW h, ASequence(h), NEW q, ASequence(q)
  PROVE  /\ rfbHandleAuthResult ++ q = R("result") & q
         /\ (h ++ rfbHandleAuthResult) ++ q = h ++ (R("result") & q)
         /\ ASequence(R("result") & q)
<1>1. rfbHandleAuthResult ++ q = R("result") & q /\ ASequence(rfbHandleAuthResult)
  BY Tuple1 DEF rfbHandleAuthResult
<1>2. (h ++ rfbHandleAuthResult) ++ q = h ++ (rfbHandleAuthResult ++ q)
  BY <1>1, JoinAssoc
<1> QED BY <1>1, <1>2, ConsSequence

LEMMA VncScript ==
  ASSUME NEW q, ASequence(q)
  PROVE  HandleVncAuth ++ q =
           R("challenge") & (L("password") & (W("response", 0) & (R("result") & q)))
<1> DEFINE h == <<R("challenge"), L("password"), W("response", 0)>>
<1>1. HandleVncAuth = h ++ rfbHandleAuthResult
  BY DEF HandleVncAuth, ++
<1>2. ASequence(R("result") & q)
  BY ConsSequence
<1>3. /\ ASequence(h)
      /\ h ++ (R("result") & q) = R("challenge") & (L("password") & (W("response", 0) & (R("result") & q)))
  BY <1>2, Tuple3
<1> HIDE DEF h
<1> QED BY <1>1, <1>3, ResultScript

LEMMA MSLogonIIScript ==
  ASSUME NEW q, ASequence(q)
  PROVE  HandleUltraMSLogonIIAuth ++ q =
           R("gen") & (R("mod") & (R("resp") & (L("keys") & (L("credential") & (W("pub", 0) & (W("user", 0) & (W("password", 0) & (R("result") & q))))))))
<1> DEFINE h == <<R("gen"), R("mod"), R("resp"), L("keys"), L("credential"), W("pub", 0), W("user", 0), W("password", 0)>>
<1>1. HandleUltraMSLogonIIAuth = h ++ rfbHandleAuthResult
  BY DEF HandleUltraMSLogonIIAuth, ++
<1>2. ASequence(R("result") & q)
  BY ConsSequence
<1>3. /\ ASequence(h)
      /\ h ++ (R("result") & q) = R("gen") & (R("mod") & (R("resp") & (L("keys") & (L("credential") & (W("pub", 0) & (W("user", 0) & (W("password", 0) & (R("result") & q))))))))
  BY <1>2, Tuple8
<1> HIDE DEF h
<1> QED BY <1>1, <1>3, ResultScript

LEMMA MSLogonScript ==
  ASSUME NEW q, ASequence(q)
  PROVE  HandleMSLogonAuth ++ q =
           R("gen") & (R("mod") & (R("resp") & (L("credential") & (W("pub", 0) & (W("user", 0) & (W("password", 0) & (R("result") & q)))))))
<1> DEFINE h == <<R("gen"), R("mod"), R("resp"), L("credential"), W("pub", 0), W("user", 0), W("password", 0)>>
<1>1. HandleMSLogonAuth = h ++ rfbHandleAuthResult
  BY DEF HandleMSLogonAuth, ++
<1>2. ASequence(R("result") & q)
  BY ConsSequence
<1>3. /\ ASequence(h)
      /\ h ++ (R("result") & q) = R("gen") & (R("mod") & (R("resp") & (L("credential") & (W("pub", 0) & (W("user", 0) & (W("password", 0) & (R("result") & q)))))))
  BY <1>2, Tuple7
<1> HIDE DEF h
<1> QED BY <1>1, <1>3, ResultScript

LEMMA ARDScript ==
  ASSUME NEW q, ASequence(q)
  PROVE  HandleARDAuth ++ q =
           R("gen") & (R("keyLength") & (L("keys") & (R("mod") & (R("resp") & (L("keys") & (L("credential") & (L("keys") & (W("ciphertext", 0) & (W("pub", 0) & (R("result") & q))))))))))
<1> DEFINE h == <<R("gen"), R("keyLength"), L("keys"), R("mod"), R("resp"), L("keys"), L("credential"), L("keys"), W("ciphertext", 0), W("pub", 0)>>
<1>1. HandleARDAuth = h ++ rfbHandleAuthResult
  BY DEF HandleARDAuth, ++
<1>2. ASequence(R("result") & q)
  BY ConsSequence
<1>3. /\ ASequence(h)
      /\ h ++ (R("result") & q) = R("gen") & (R("keyLength") & (L("keys") & (R("mod") & (R("resp") & (L("keys") & (L("credential") & (L("keys") & (W("ciphertext", 0) & (W("pub", 0) & (R("result") & q))))))))))
  BY <1>2, Tuple10
<1> HIDE DEF h
<1> QED BY <1>1, <1>3, ResultScript

LEMMA ShortScripts ==
  ASSUME NEW q, ASequence(q)
  PROVE  /\ HandlePlainAuth ++ q = L("plainCredential") & q
         /\ HandleSASLAuth ++ q =
              L("saslSetup") & (R("mechlistLength") & (R("mechlist") & (L("saslStart") & q)))
         /\ SaslEnd ++ q = L("saslStrength") & (R("saslResult") & q)
         /\ HandleVeNCryptAuth ++ q = L("library") & (R("veVersion") & q)
         /\ VeNCryptAgreed ++ q = W("veVersion", 0) & (R("veStatus") & (R("veCount") & q))
<1>1. HandlePlainAuth ++ q = L("plainCredential") & q
  BY Tuple1 DEF HandlePlainAuth
<1>2. HandleSASLAuth ++ q =
        L("saslSetup") & (R("mechlistLength") & (R("mechlist") & (L("saslStart") & q)))
  BY Tuple4 DEF HandleSASLAuth
<1>3. SaslEnd ++ q = L("saslStrength") & (R("saslResult") & q)
  BY Tuple2 DEF SaslEnd
<1>4. HandleVeNCryptAuth ++ q = L("library") & (R("veVersion") & q)
  BY Tuple2 DEF HandleVeNCryptAuth
<1>5. VeNCryptAgreed ++ q = W("veVersion", 0) & (R("veStatus") & (R("veCount") & q))
  BY Tuple3 DEF VeNCryptAgreed
<1> QED BY <1>1, <1>2, <1>3, <1>4, <1>5

LEMMA ExchangeScript ==
  ASSUME NEW q, ASequence(q), NEW m
  PROVE  /\ SaslExchange(m) ++ q = W("saslData", m) & (R("saslData") & (R("saslComplete") & q))
         /\ (<<W("mechanism", mech)>> ++ SaslExchange(m)) ++ q =
              W("mechanism", mech) & (W("saslData", m) & (R("saslData") & (R("saslComplete") & q)))
<1>1. /\ SaslExchange(m) ++ q = W("saslData", m) & (R("saslData") & (R("saslComplete") & q))
      /\ ASequence(SaslExchange(m)) /\ ASequence(SaslExchange(m) ++ q)
  BY Tuple3, JoinSequence DEF SaslExchange
<1> DEFINE h == <<W("mechanism", mech)>>
<1>2. ASequence(h) /\ h ++ (SaslExchange(m) ++ q) = W("mechanism", mech) & (SaslExchange(m) ++ q)
  BY <1>1, Tuple1
<1> HIDE DEF h
<1>3. (h ++ SaslExchange(m)) ++ q = h ++ (SaslExchange(m) ++ q)
  BY <1>1, <1>2, JoinAssoc
<1> QED BY <1>1, <1>2, <1>3 DEF h

LEMMA TLSScript ==
  ASSUME NEW q, ASequence(q)
  PROVE  (HandleAnonTLSAuth \o <<R("count")>>) ++ q = L("tls") & (R("count") & q)
<1> DEFINE h == <<L("tls")>>
           t == <<R("count")>>
<1>1. HandleAnonTLSAuth \o <<R("count")>> = h ++ t
  BY DEF HandleAnonTLSAuth, ++
<1>2. ASequence(t) /\ t ++ q = R("count") & q /\ ASequence(R("count") & q)
  BY Tuple1
<1>3. ASequence(h) /\ h ++ (R("count") & q) = L("tls") & (R("count") & q)
  BY <1>2, Tuple1
<1> HIDE DEF h, t
<1>4. (h ++ t) ++ q = h ++ (t ++ q)
  BY <1>2, <1>3, JoinAssoc
<1> QED BY <1>1, <1>2, <1>3, <1>4

LEMMA RepeatScript ==
  ASSUME NEW x, NEW q, ASequence(q)
  PROVE  /\ Repeat(0, x) ++ q = q /\ Repeat(1, x) ++ q = x & q
         /\ ASequence(Repeat(0, x)) /\ ASequence(Repeat(1, x))
<1>1. Repeat(0, x) = <<>> /\ Repeat(1, x) = <<x>>
  BY DEF Repeat
<1>2. Repeat(0, x) = Nil
  BY <1>1 DEF Nil
<1>3. <<x>> ++ q = x & q /\ ASequence(<<x>>)
  BY Tuple1
<1> QED BY <1>1, <1>2, <1>3, JoinNil, NilSequence

LEMMA PlainScript ==
  ASSUME NEW q, ASequence(q), NEW u \in 0 .. 1, NEW p \in 0 .. 1
  PROVE  PlainMessage(u, p) ++ q =
           W("lengths", <<u, p>>) &
             (Repeat(u, W("user", 0)) ++ (Repeat(p, W("password", 0)) ++ (R("result") & q)))
<1> DEFINE h == <<W("lengths", <<u, p>>)>>
           us == Repeat(u, W("user", 0))
           ps == Repeat(p, W("password", 0))
           rq == R("result") & q
<1>1. PlainMessage(u, p) = ((h ++ us) ++ ps) ++ rfbHandleAuthResult
  BY DEF PlainMessage, ++
<1>2. u \in {0, 1} /\ p \in {0, 1}
  OBVIOUS
<1>3. ASequence(us) /\ ASequence(ps)
  BY <1>2, RepeatScript
<1>4. ASequence(h) /\ \A t : ASequence(t) => h ++ t = W("lengths", <<u, p>>) & t
  BY Tuple1, ConsSequence
<1>5. ASequence(rq)
  BY ConsSequence
<1> HIDE DEF h, us, ps
<1>6. ASequence(h ++ us) /\ ASequence((h ++ us) ++ ps) /\ ASequence(ps ++ rq) /\ ASequence(us ++ (ps ++ rq))
  BY <1>3, <1>4, <1>5, JoinSequence
<1>7. (((h ++ us) ++ ps) ++ rfbHandleAuthResult) ++ q = ((h ++ us) ++ ps) ++ rq
  BY <1>6, ResultScript
<1>8. ((h ++ us) ++ ps) ++ rq = (h ++ us) ++ (ps ++ rq)
  BY <1>3, <1>5, <1>6, JoinAssoc
<1>9. (h ++ us) ++ (ps ++ rq) = h ++ (us ++ (ps ++ rq))
  BY <1>3, <1>4, <1>6, JoinAssoc
<1>10. h ++ (us ++ (ps ++ rq)) = W("lengths", <<u, p>>) & (us ++ (ps ++ rq))
  BY <1>4, <1>6
<1>11. PlainMessage(u, p) ++ q = W("lengths", <<u, p>>) & (us ++ (ps ++ rq))
  BY <1>1, <1>7, <1>8, <1>9, <1>10
<1> QED BY <1>11 DEF us, ps

Z == vnc_client_init

LEMMA InitScript ==
  /\ Z = W("clientInit", 0) & (R("serverInit") & (R("name") & (L("framebuffer") &
          (W("setPixelFormat", 0) & (W("setEncodings", 0) & (W("updateRequest", 0) &
          (W("incrementalRequest", 0) & (W("incrementalRequest", 0) & (Ready & Nil)))))))))
  /\ ASequence(Z)
<1> DEFINE a == <<W("clientInit", 0), R("serverInit"), R("name")>>
           b == <<L("framebuffer")>>
           c == <<W("setPixelFormat", 0), W("setEncodings", 0)>>
           d == <<W("updateRequest", 0), W("incrementalRequest", 0), W("incrementalRequest", 0), Ready>>
           d0 == W("updateRequest", 0) & (W("incrementalRequest", 0) &
                 (W("incrementalRequest", 0) & (Ready & Nil)))
<1>1. Z = ((a ++ b) ++ c) ++ d
  BY DEF Z, vnc_client_init, ClientInit, SetFormatAndEncodings, Ready, ++
<1>2. d = d0 /\ ASequence(d)
  BY Tuple4, NilSequence
<1>3. ASequence(c) /\ ASequence(d0) /\ c ++ d0 = W("setPixelFormat", 0) & (W("setEncodings", 0) & d0)
  BY <1>2, Tuple2
<1>4. ASequence(c ++ d0)
  BY <1>3, JoinSequence
<1>5. ASequence(b) /\ b ++ (c ++ d0) = L("framebuffer") & (c ++ d0)
  BY <1>4, Tuple1
<1>6. ASequence(b ++ (c ++ d0))
  BY <1>4, <1>5, JoinSequence
<1>7. ASequence(a) /\ a ++ (b ++ (c ++ d0)) = W("clientInit", 0) & (R("serverInit") & (R("name") & (b ++ (c ++ d0))))
  BY <1>6, Tuple3
<1> HIDE DEF a, b, c, d, d0
<1>8. ASequence(a ++ b) /\ ASequence((a ++ b) ++ c) /\ ASequence(Z)
  BY <1>1, <1>2, <1>3, <1>5, <1>7, JoinSequence
<1>9. ((a ++ b) ++ c) ++ d0 = (a ++ b) ++ (c ++ d0)
  BY <1>3, <1>8, JoinAssoc
<1>10. (a ++ b) ++ (c ++ d0) = a ++ (b ++ (c ++ d0))
  BY <1>4, <1>5, <1>7, JoinAssoc
<1>11. Z = W("clientInit", 0) & (R("serverInit") & (R("name") & (L("framebuffer") &
           (W("setPixelFormat", 0) & (W("setEncodings", 0) & d0)))))
  BY <1>1, <1>2, <1>3, <1>5, <1>7, <1>9, <1>10
<1> QED BY <1>8, <1>11 DEF d0

(* The server's scripts. *)
LEMMA ServedScripts ==
  ASSUME NEW x
  PROVE  /\ ServerReason(x) = S("reasonLength", x) & (S("reason", 0) & (D("close") & Nil)) /\ ASequence(ServerReason(x))
         /\ ServerVNC = S("challenge", 0) & (G("response") & (D("verdict") & Nil)) /\ ASequence(ServerVNC)
         /\ ServerPlain = G("lengths") & Nil /\ ASequence(ServerPlain)
         /\ ServerMSLogon = S("gen", 0) & (S("mod", 0) & (S("resp", 0) & (G("pub") & (G("user") & (G("password") & (D("verdict") & Nil)))))) /\ ASequence(ServerMSLogon)
         /\ ServerARD = S("gen", 0) & (S("keyLength", 0) & (S("mod", 0) & (S("resp", 0) & (G("ciphertext") & (G("pub") & (D("verdict") & Nil)))))) /\ ASequence(ServerARD)
         /\ ServerSASL(x) = S("mechlistLength", x) & (S("mechlist", 0) & (G("mechanism") & (G("saslData") & Nil))) /\ ASequence(ServerSASL(x))
         /\ ServerVeNCrypt(x) = S("veVersion", x) & (G("veVersion") & (D("veVersion") & Nil)) /\ ASequence(ServerVeNCrypt(x))
         /\ ServerJoin(x) = G("clientInit") & (S("serverInit", x) & (S("name", 0) & (G("setPixelFormat") & (G("setEncodings") & (G("updateRequest") & (G("incrementalRequest") & (G("incrementalRequest") & Nil))))))) /\ ASequence(ServerJoin(x))
<1>1. ServerReason(x) = S("reasonLength", x) & (S("reason", 0) & (D("close") & Nil)) /\ ASequence(ServerReason(x))
  BY Tuple3, NilSequence DEF ServerReason
<1>2. ServerVNC = S("challenge", 0) & (G("response") & (D("verdict") & Nil)) /\ ASequence(ServerVNC)
  BY Tuple3, NilSequence DEF ServerVNC
<1>3. ServerPlain = G("lengths") & Nil /\ ASequence(ServerPlain)
  BY Tuple1, NilSequence DEF ServerPlain
<1>4. ServerMSLogon = S("gen", 0) & (S("mod", 0) & (S("resp", 0) & (G("pub") & (G("user") & (G("password") & (D("verdict") & Nil)))))) /\ ASequence(ServerMSLogon)
  BY Tuple7, NilSequence DEF ServerMSLogon
<1>5. ServerARD = S("gen", 0) & (S("keyLength", 0) & (S("mod", 0) & (S("resp", 0) & (G("ciphertext") & (G("pub") & (D("verdict") & Nil)))))) /\ ASequence(ServerARD)
  BY Tuple7, NilSequence DEF ServerARD
<1>6. ServerSASL(x) = S("mechlistLength", x) & (S("mechlist", 0) & (G("mechanism") & (G("saslData") & Nil))) /\ ASequence(ServerSASL(x))
  BY Tuple4, NilSequence DEF ServerSASL
<1>7. ServerVeNCrypt(x) = S("veVersion", x) & (G("veVersion") & (D("veVersion") & Nil)) /\ ASequence(ServerVeNCrypt(x))
  BY Tuple3, NilSequence DEF ServerVeNCrypt
<1>8. ServerJoin(x) = G("clientInit") & (S("serverInit", x) & (S("name", 0) & (G("setPixelFormat") & (G("setEncodings") & (G("updateRequest") & (G("incrementalRequest") & (G("incrementalRequest") & Nil))))))) /\ ASequence(ServerJoin(x))
  BY Tuple8, NilSequence DEF ServerJoin
<1> QED BY <1>1, <1>2, <1>3, <1>4, <1>5, <1>6, <1>7, <1>8

LEMMA PlainMessageServed ==
  ASSUME NEW u \in 0 .. 1, NEW p \in 0 .. 1
  PROVE  ServerPlainMessage(<<u, p>>) =
           Repeat(u, G("user")) ++ (Repeat(p, G("password")) ++ (D("verdict") & Nil))
<1> DEFINE us == Repeat(u, G("user"))
           ps == Repeat(p, G("password"))
           l == <<D("verdict")>>
           v == <<u, p>>
<1>1. v[1] = u /\ v[2] = p
  OBVIOUS
<1> HIDE DEF v
<1>2. ServerPlainMessage(v) = (us ++ ps) ++ l
  BY <1>1 DEF ServerPlainMessage, ++
<1>3. u \in {0, 1} /\ p \in {0, 1}
  OBVIOUS
<1>4. ASequence(us) /\ ASequence(ps)
  BY <1>3, RepeatScript, NilSequence
<1>5. ASequence(l) /\ l = D("verdict") & Nil
  BY Tuple1, NilSequence
<1> HIDE DEF us, ps, l
<1>6. (us ++ ps) ++ l = us ++ (ps ++ l)
  BY <1>4, <1>5, JoinAssoc
<1>7. ServerPlainMessage(v) = us ++ (ps ++ (D("verdict") & Nil))
  BY <1>2, <1>5, <1>6
<1> QED BY <1>7 DEF us, ps, v

Entries(entry, list) == [i \in 1 .. Len(list) |-> S(entry, list[i])]

LEMMA ListServed ==
  ASSUME NEW count, NEW entry, NEW answer, NEW list, Len(list) \in Nat
  PROVE  /\ ASequence(Entries(entry, list)) /\ Len(Entries(entry, list)) = Len(list)
         /\ ServerList(count, entry, answer, list) =
              S(count, Len(list)) & (Entries(entry, list) ++ (G(answer) & Nil))
         /\ ASequence(ServerList(count, entry, answer, list))
<1> DEFINE es == Entries(entry, list)
           E == {S(entry, list[i]) : i \in 1 .. Len(list)}
           h == <<S(count, Len(list))>>
           l == <<G(answer)>>
<1>1. es \in [1 .. Len(list) -> E]
  BY DEF Entries
<1>2. es \in Seq(E) /\ Len(es) = Len(list)
  <2> HIDE DEF es, E
  <2> QED BY <1>1
<1>3. ASequence(es)
  <2> HIDE DEF es, E
  <2> QED BY <1>2 DEF ASequence
<1>4. ServerList(count, entry, answer, list) = (h ++ es) ++ l
  BY DEF ServerList, Entries, ++
<1>5. ASequence(l) /\ l = G(answer) & Nil
  BY Tuple1, NilSequence
<1>6. ASequence(h) /\ \A q : ASequence(q) => h ++ q = S(count, Len(list)) & q
  BY Tuple1, NilSequence
<1> HIDE DEF es, h, l, E
<1>7. ASequence(es ++ l) /\ (h ++ es) ++ l = h ++ (es ++ l)
  BY <1>3, <1>5, <1>6, JoinAssoc, JoinSequence
<1>8. h ++ (es ++ l) = S(count, Len(list)) & (es ++ (G(answer) & Nil)) /\ ASequence(h ++ (es ++ l))
  BY <1>5, <1>6, <1>7, JoinSequence
<1>9. ServerList(count, entry, answer, list) = S(count, Len(list)) & (es ++ (G(answer) & Nil))
      /\ ASequence(ServerList(count, entry, answer, list))
  BY <1>4, <1>7, <1>8
<1> QED BY <1>2, <1>3, <1>9 DEF es

(* A list of n entries, read one by one. *)
LEMMA ListMatched ==
  ASSUME NEW what, NEW entry, entry = R(what), NEW K, ASequence(K), NEW list, Len(list) \in Nat
  PROVE  Matched({entry}, K, Repeat(Len(list), entry) ++ K, Entries(what, list))
<1> DEFINE n == Len(list)
           c(k) == Repeat(n - k, entry) ++ K
           q(k) == [i \in 1 .. n - k |-> S(what, list[i + k])]
           Rel == {<<c(k), q(k)>> : k \in 0 .. n}
<1>2. ASSUME NEW k \in 0 .. n
      PROVE  /\ ASequence(Repeat(n - k, entry)) /\ ASequence(c(k))
             /\ ASequence(q(k)) /\ Len(q(k)) = n - k /\ Wire(q(k))
  <2> DEFINE m == n - k
             E == {S(what, list[i + k]) : i \in 1 .. m}
             r == Repeat(m, entry)
             qk == q(k)
  <2>1. m \in Nat
    OBVIOUS
  <2>2. r \in [1 .. m -> {entry}]
    BY DEF Repeat
  <2>3. qk \in [1 .. m -> E]
    OBVIOUS
  <2>4. \A e \in E : e.op \in {"send", "get"}
    BY Kinds
  <2>a. r ++ K = c(k) /\ qk = q(k) /\ r = Repeat(n - k, entry) /\ m = n - k
    OBVIOUS
  <2> HIDE DEF m, r, qk, E, c, q
  <2>5. r \in Seq({entry}) /\ qk \in Seq(E) /\ Len(qk) = m
    BY <2>1, <2>2, <2>3
  <2>6. ASequence(r) /\ ASequence(qk)
    BY <2>5 DEF ASequence
  <2>7. \A i \in 1 .. Len(qk) : qk[i] \in E
    BY <2>3, <2>5
  <2>8. Wire(qk)
    BY <2>4, <2>6, <2>7 DEF Wire
  <2>9. ASequence(r ++ K)
    BY <2>6, JoinSequence
  <2> QED BY <2>5, <2>6, <2>8, <2>9, <2>a
<1>3. ASSUME NEW k \in 0 .. n, k < n
      PROVE  c(k) = entry & c(k + 1) /\ q(k) = S(what, list[k + 1]) & q(k + 1)
  <2> DEFINE m == n - k
             m1 == n - (k + 1)
             r == Repeat(m, entry)
             r1 == Repeat(m1, entry)
             qk == q(k)
             q1 == q(k + 1)
             b == S(what, list[k + 1])
  <2>1. m \in Nat /\ m1 \in Nat /\ m = m1 + 1 /\ k + 1 \in 0 .. n
    BY <1>3
  <2>2. ASequence(r) /\ ASequence(r1) /\ ASequence(qk) /\ ASequence(q1) /\ Len(qk) = m /\ Len(q1) = m1
    BY <2>1, <1>2
  <2>3. /\ Len(r) = m /\ \A i \in 1 .. m : r[i] = entry
        /\ Len(r1) = m1 /\ \A i \in 1 .. m1 : r1[i] = entry
    BY <2>1 DEF Repeat
  <2>4. \A i \in 1 .. m : qk[i] = S(what, list[i + k])
    OBVIOUS
  <2>5. \A i \in 1 .. m1 : q1[i] = S(what, list[i + (k + 1)])
    OBVIOUS
  <2> HIDE DEF r, r1, qk, q1, m, m1
  <2>6. r = entry & r1
    <3> DEFINE x == entry & r1
    <3>1. ASequence(x) /\ Len(x) = m /\ x[1] = entry /\ \A i \in 1 .. m1 : x[i + 1] = r1[i]
      BY <2>1, <2>2, <2>3, ConsFacts
    <3> HIDE DEF x
    <3>2. ASSUME NEW i \in 1 .. m PROVE r[i] = x[i]
      <4>1. CASE i = 1
        BY <4>1, <3>1, <2>3
      <4>2. CASE i # 1
        <5>1. i - 1 \in 1 .. m1 /\ (i - 1) + 1 = i
          BY <4>2, <2>1
        <5>2. x[i] = r1[i - 1]
          BY <5>1, <3>1
        <5>3. r1[i - 1] = entry /\ r[i] = entry
          BY <5>1, <2>3
        <5> QED BY <5>2, <5>3
      <4> QED BY <4>1, <4>2
    <3>3. r = x
      BY <2>2, <2>3, <3>1, <3>2, EqualSequences
    <3> QED BY <3>3 DEF x
  <2>7. qk = b & q1
    <3> DEFINE x == b & q1
    <3> HIDE DEF b
    <3>1. ASequence(x) /\ Len(x) = m /\ x[1] = b /\ \A i \in 1 .. m1 : x[i + 1] = q1[i]
      BY <2>1, <2>2, ConsFacts
    <3> HIDE DEF x
    <3>2. ASSUME NEW i \in 1 .. m PROVE qk[i] = x[i]
      <4>1. CASE i = 1
        <5>1. i + k = k + 1
          BY <4>1
        <5>2. qk[i] = S(what, list[k + 1])
          BY <5>1, <2>4
        <5> QED BY <5>2, <4>1, <3>1 DEF b
      <4>2. CASE i # 1
        <5>1. i - 1 \in 1 .. m1 /\ (i - 1) + 1 = i /\ (i - 1) + (k + 1) = i + k
          BY <4>2, <2>1
        <5>2. x[i] = q1[i - 1]
          BY <5>1, <3>1
        <5>3. q1[i - 1] = S(what, list[i + k]) /\ qk[i] = S(what, list[i + k])
          BY <5>1, <2>4, <2>5
        <5> QED BY <5>2, <5>3
      <4> QED BY <4>1, <4>2
    <3>3. qk = x
      BY <2>2, <3>1, <3>2, EqualSequences
    <3> QED BY <3>3 DEF x
  <2>8. r ++ K = entry & (r1 ++ K)
    BY <2>2, <2>6, JoinCons
  <2> QED BY <2>7, <2>8 DEF r, r1, m, m1, qk, q1
<1>4. c(n) = K /\ q(n) = Nil
  <2>1. n - n = 0
    OBVIOUS
  <2>2. c(n) = K
    BY <2>1, RepeatScript
  <2>3. q(n) = <<>>
    BY <2>1
  <2> QED BY <2>2, <2>3 DEF Nil
<1>5. ASSUME NEW k \in 0 .. n, k < n PROVE ~Finishes(c(k))
  <2>1. entry # Ready /\ entry.op # "write"
    BY Kinds, Lasts
  <2>2. k + 1 \in 0 .. n
    BY <1>5
  <2>3. ASequence(c(k + 1))
    BY <1>2, <2>2
  <2>4. c(k) = entry & c(k + 1)
    BY <1>3, <1>5
  <2> HIDE DEF c
  <2> QED BY <2>1, <2>3, <2>4, FinishesCons
<1>6. ASSUME NEW k \in 0 .. n
      PROVE  /\ ASequence(c(k)) /\ Wire(q(k))
             /\ Finishes(c(k)) => Finishes(K)
             /\ (c(k) = K /\ q(k) = Nil) \/ Together({entry}, Rel, c(k), q(k))
  <2>1. CASE k = n
    BY <2>1, <1>2, <1>4
  <2>2. CASE k < n
    <3>1. k + 1 \in 0 .. n
      BY <2>2
    <3>2. ASequence(c(k + 1)) /\ ASequence(q(k + 1)) /\ ASequence(c(k)) /\ Wire(q(k))
      BY <1>2, <3>1
    <3>3. c(k) = entry & c(k + 1) /\ q(k) = S(what, list[k + 1]) & q(k + 1)
      BY <1>3, <2>2
    <3>4. <<c(k + 1), q(k + 1)>> \in Rel
      BY <3>1
    <3>5. Meets(entry, S(what, list[k + 1])) /\ entry.op # "write" /\ entry \in {entry}
      BY Kinds DEF Meets
    <3>6. ~Finishes(c(k))
      BY <1>5, <2>2
    <3> HIDE DEF c, q, Rel
    <3>7. Together({entry}, Rel, c(k), q(k))
      BY <3>2, <3>3, <3>4, <3>5 DEF Together
    <3> QED BY <3>2, <3>6, <3>7
  <2> QED BY <2>1, <2>2
<1>7. Follows({entry}, K, Rel)
  <2> SUFFICES ASSUME NEW x, NEW y, <<x, y>> \in Rel
               PROVE  /\ ASequence(x) /\ Wire(y)
                      /\ Finishes(x) => Finishes(K)
                      /\ (x = K /\ y = Nil) \/ Alone({entry}, Rel, x, y) \/ Together({entry}, Rel, x, y)
    BY DEF Follows
  <2>1. PICK k \in 0 .. n : x = c(k) /\ y = q(k)
    OBVIOUS
  <2> HIDE DEF c, q, Rel
  <2> QED BY <1>6, <2>1
<1>8. <<c(0), q(0)>> \in Rel
  <2>1. 0 \in 0 .. n
    OBVIOUS
  <2> QED BY <2>1
<1>9. c(0) = Repeat(n, entry) ++ K /\ q(0) = Entries(what, list)
  <2>1. n - 0 = n
    OBVIOUS
  <2>2. c(0) = Repeat(n, entry) ++ K
    BY <2>1
  <2>3. q(0) = Entries(what, list)
    BY <2>1 DEF Entries
  <2> QED BY <2>2, <2>3
<1> HIDE DEF c, q, Rel
<1>10. Matched({entry}, K, c(0), q(0))
  BY <1>7, <1>8 DEF Matched
<1> QED BY <1>9, <1>10

-------------------------------------------------------------------------------
(* A stretch of the conversation, when one of the two makes a step. *)

(* What is written comes before what the client itself does next. *)
Steady(x) ==
  \A p, a, t : AllOp(p, "write") /\ ASequence(t) /\ a.op = "local" /\ x = p ++ (a & t) => p = Nil

LEMMA SteadyOther ==
  ASSUME NEW a, a.op # "write", NEW x, ASequence(x)
  PROVE  Steady(a & x)
<1> SUFFICES ASSUME NEW p, AllOp(p, "write"), NEW b, NEW t, ASequence(t), a & x = p ++ (b & t)
             PROVE  p = Nil
  BY DEF Steady
<1>1. ASequence(b & t) /\ p ++ (b & t) = a & x
  BY ConsSequence
<1> QED BY <1>1, Peel

LEMMA SteadyOnward == \A x : Onward(x) => Steady(x)
BY DEF Onward, Steady

(* A step that is not written: nothing is left to be written before it, if *)
(* it is in the stretch. *)
LEMMA NearLocals ==
  ASSUME NEW A, NEW K, Steady(K), NEW B, NEW p, AllOp(p, "write"), NEW a, a.op = "local",
         NEW t, ASequence(t), NEW s, Near(A, K, B, p ++ (a & t), s)
  PROVE  /\ p = Nil
         /\ (a & t = K /\ s = B) \/ (a \in A /\ Near(A, K, B, t, s))
<1>1. CASE p = Nil
  <2>1. p ++ (a & t) = a & t
    BY <1>1, JoinNil, ConsSequence
  <2>2. Near(A, K, B, a & t, s)
    BY <2>1
  <2>3. \A b : ~Meets(a, b)
    BY DEF Meets
  <2> QED BY <1>1, <2>2, <2>3, NearCases
<1>2. CASE p # Nil
  <2>1. PICK w, p1 : AllOp(p1, "write") /\ w.op = "write" /\ p = w & p1
    BY <1>2, AllOpCases
  <2>2. ASequence(p1) /\ ASequence(a & t) /\ ASequence(p1 ++ (a & t))
    BY <2>1, AllOpSequence, ConsSequence, JoinSequence
  <2> DEFINE c == p ++ (a & t)
             c1 == p1 ++ (a & t)
  <2>3. c = w & c1 /\ ASequence(c1)
    BY <2>1, <2>2, JoinCons
  <2>4. ~Onward(c)
    BY DEF Onward
  <2>5. c # K
    BY <1>2 DEF Steady
  <2>6. Near(A, K, B, c, s)
    OBVIOUS
  <2> HIDE DEF c, c1
  <2>7. Near(A, K, B, w & c1, s)
    BY <2>3, <2>6
  <2> QED BY <2>1, <2>3, <2>4, <2>5, <2>7, NearCases
<1> QED BY <1>1, <1>2

LEMMA NearReads ==
  ASSUME NEW A, NEW K, NEW B, NEW p, AllOp(p, "write"), NEW a, a.op = "read",
         NEW t, ASequence(t), NEW b, b.op = "send", NEW s, ASequence(s),
         Near(A, K, B, p ++ (a & t), b & s)
  PROVE  \/ p ++ (a & t) = K /\ b & s = B
         \/ p = Nil /\ a \in A /\ a.what = b.what /\ Near(A, K, B, t, s)
<1>1. CASE p = Nil
  <2>1. p ++ (a & t) = a & t
    BY <1>1, JoinNil, ConsSequence
  <2>2. Near(A, K, B, a & t, b & s)
    BY <2>1
  <2>3. \A b1, t1 : ASequence(t1) /\ b & s = b1 & t1 => b = b1 /\ s = t1
    BY ConsEqual
  <2>4. ASSUME NEW b1, NEW t1, ASequence(t1), b & s = b1 & t1, Meets(a, b1), Near(A, K, B, t, t1)
        PROVE  a.what = b.what /\ Near(A, K, B, t, s)
    BY <2>3, <2>4 DEF Meets
  <2>5. a & t = K /\ b & s = B => p ++ (a & t) = K
    BY <2>1
  <2> QED BY <1>1, <2>2, <2>4, <2>5, NearCases
<1>2. CASE p # Nil
  <2>1. PICK w, p1 : AllOp(p1, "write") /\ w.op = "write" /\ p = w & p1
    BY <1>2, AllOpCases
  <2>2. ASequence(p1) /\ ASequence(a & t) /\ ASequence(p1 ++ (a & t))
    BY <2>1, AllOpSequence, ConsSequence, JoinSequence
  <2> DEFINE c == p ++ (a & t)
             c1 == p1 ++ (a & t)
  <2>3. c = w & c1 /\ ASequence(c1)
    BY <2>1, <2>2, JoinCons
  <2>4. \A b1, t1 : ASequence(t1) /\ b & s = b1 & t1 => b = b1
    BY ConsEqual
  <2>5. \A b1, t1 : ASequence(t1) /\ b & s = b1 & t1 => ~Meets(w, b1)
    BY <2>1, <2>4, Kinds DEF Meets
  <2>6. Near(A, K, B, c, b & s)
    OBVIOUS
  <2> HIDE DEF c, c1
  <2>7. Near(A, K, B, w & c1, b & s)
    BY <2>3, <2>6
  <2>8. w & c1 = K /\ b & s = B
    BY <2>1, <2>3, <2>5, <2>7, NearCases
  <2>9. c = K /\ b & s = B
    BY <2>3, <2>8
  <2> QED BY <2>9 DEF c
<1> QED BY <1>1, <1>2

LEMMA NearGets ==
  ASSUME NEW A, NEW K, NEW B, NEW w, w.op = "write", NEW c, ASequence(c),
         NEW r, AllOp(r, "send"), NEW g, g.op = "get", NEW s, ASequence(s),
         Near(A, K, B, w & c, r ++ (g & s))
  PROVE  \/ w & c = K /\ r ++ (g & s) = B
         \/ r = Nil /\ w \in A /\ g = G(w.what) /\ Near(A, K, B, c, s)
<1> DEFINE x == r ++ (g & s)
<1>0. ASequence(r) /\ ASequence(g & s) /\ x = r ++ (g & s)
  BY AllOpSequence, ConsSequence
<1>1. ASSUME NEW b, NEW t, ASequence(t), x = b & t, Meets(w, b), Near(A, K, B, c, t)
      PROVE  r = Nil /\ g = G(w.what) /\ Near(A, K, B, c, s)
  <2>1. b = G(w.what) /\ b.op = "get"
    BY <1>1, Kinds DEF Meets
  <2>2. r = Nil /\ g & s = b & t
    <3> HIDE DEF x
    <3>1. r ++ (g & s) = b & t
      BY <1>0, <1>1
    <3> QED BY <1>0, <1>1, <2>1, <3>1, Peel
  <2>3. g = b /\ s = t
    BY <1>1, <2>2, ConsEqual
  <2> QED BY <1>1, <2>1, <2>2, <2>3
<1>2. Near(A, K, B, w & c, x)
  OBVIOUS
<1>3. (w & c = K /\ x = B) \/ (r = Nil /\ w \in A /\ g = G(w.what) /\ Near(A, K, B, c, s))
  <2> HIDE DEF x
  <2> QED BY <1>1, <1>2, NearCases
<1> QED BY <1>3

(* No stretch has a handshake in it. *)
LEMMA NearTls ==
  ASSUME NEW A, NEW K, NEW B, NEW p, AllOp(p, "write"), NEW a, a.op \notin {"local", "write", "read"},
         NEW t, ASequence(t), NEW b, b.op = "send", NEW s, ASequence(s),
         Near(A, K, B, p ++ (a & t), b & s)
  PROVE  p ++ (a & t) = K /\ b & s = B
<1>1. ASequence(a & t) /\ ASequence(p) /\ ASequence(p ++ (a & t))
  BY ConsSequence, AllOpSequence, JoinSequence
<1>2. \A b1, t1 : ASequence(t1) /\ b & s = b1 & t1 => b = b1
  BY ConsEqual
<1>3. CASE p = Nil
  <2>1. p ++ (a & t) = a & t
    BY <1>1, <1>3, JoinNil
  <2>2. Near(A, K, B, a & t, b & s)
    BY <2>1
  <2>3. \A b1 : ~Meets(a, b1)
    BY DEF Meets
  <2>4. a & t = K /\ b & s = B
    BY <2>2, <2>3, NearCases
  <2> QED BY <2>1, <2>4
<1>4. CASE p # Nil
  <2>1. PICK w, p1 : AllOp(p1, "write") /\ w.op = "write" /\ p = w & p1
    BY <1>4, AllOpCases
  <2>2. ASequence(p1) /\ ASequence(p1 ++ (a & t))
    BY <1>1, <2>1, AllOpSequence, JoinSequence
  <2> DEFINE c == p ++ (a & t)
             c1 == p1 ++ (a & t)
  <2>3. c = w & c1 /\ ASequence(c1)
    BY <1>1, <2>1, <2>2, JoinCons
  <2>5. \A b1, t1 : ASequence(t1) /\ b & s = b1 & t1 => ~Meets(w, b1)
    BY <2>1, <1>2, Kinds DEF Meets
  <2>6. Near(A, K, B, c, b & s)
    OBVIOUS
  <2> HIDE DEF c, c1
  <2>7. Near(A, K, B, w & c1, b & s)
    BY <2>3, <2>6
  <2>8. w & c1 = K /\ b & s = B
    BY <2>1, <2>3, <2>5, <2>7, NearCases
  <2>9. c = K /\ b & s = B
    BY <2>3, <2>8
  <2> QED BY <2>9 DEF c
<1> QED BY <1>3, <1>4

(* One stretch after another. *)
LEMMA NearNear ==
  ASSUME NEW A, NEW K, NEW B, NEW c, NEW s, NEW K2, NEW B2,
         Near(A, K, B, c, s), Near(A, K2, B2, K, B)
  PROVE  Near(A, K2, B2, c, s)
<1> PICK q : Matched(A, K, c, q) /\ s = q ++ B
  BY DEF Near
<1> PICK q2 : Matched(A, K2, K, q2) /\ B = q2 ++ B2
  BY DEF Near
<1> PICK R1 : <<c, q>> \in R1 /\ Follows(A, K, R1)
  BY DEF Matched
<1> PICK R2 : <<K, q2>> \in R2 /\ Follows(A, K2, R2)
  BY DEF Matched
<1>0. /\ ASequence(c) /\ ASequence(q) /\ ASequence(K) /\ ASequence(q2) /\ ASequence(B2)
      /\ Wire(q2) /\ (Finishes(K) => Finishes(K2))
  BY MatchedFacts DEF Near
<1> DEFINE Pairs == {z \in R1 : \E x, y : z = <<x, y>>}
           J(z) == <<z[1], z[2] ++ q2>>
           Rel == R2 \cup {J(z) : z \in Pairs}
<1>1. ASSUME NEW x, NEW y, <<x, y>> \in R1 PROVE <<x, y ++ q2>> \in Rel
  <2>1. <<x, y>> \in Pairs
    BY <1>1
  <2>2. J(<<x, y>>) = <<x, y ++ q2>>
    OBVIOUS
  <2> QED BY <2>1, <2>2
<1>2. ASSUME NEW x, NEW y, <<x, y>> \in Rel
      PROVE  \/ <<x, y>> \in R2
             \/ \E y1 : <<x, y1>> \in R1 /\ y = y1 ++ q2
  <2>1. CASE \E z \in Pairs : <<x, y>> = J(z)
    <3>1. PICK x1, y1 : <<x1, y1>> \in R1 /\ <<x, y>> = J(<<x1, y1>>)
      BY <2>1
    <3>2. x = x1 /\ y = y1 ++ q2
      BY <3>1
    <3> QED BY <3>1, <3>2
  <2> QED BY <1>2, <2>1
<1> HIDE DEF Rel, J, Pairs
<1>3. R2 \subseteq Rel
  BY DEF Rel
<1>4. ASSUME NEW x, NEW y, <<x, y>> \in R2
      PROVE  /\ ASequence(x) /\ Wire(y)
             /\ Finishes(x) => Finishes(K2)
             /\ (x = K2 /\ y = Nil) \/ Alone(A, Rel, x, y) \/ Together(A, Rel, x, y)
  <2>1. /\ ASequence(x) /\ Wire(y) /\ (Finishes(x) => Finishes(K2))
        /\ (x = K2 /\ y = Nil) \/ Alone(A, R2, x, y) \/ Together(A, R2, x, y)
    BY <1>4 DEF Follows
  <2>2. Alone(A, R2, x, y) => Alone(A, Rel, x, y)
    BY <1>3 DEF Alone
  <2>3. Together(A, R2, x, y) => Together(A, Rel, x, y)
    BY <1>3 DEF Together
  <2> QED BY <2>1, <2>2, <2>3
<1>5. ASSUME NEW x, NEW y, <<x, y>> \in R1
      PROVE  /\ ASequence(x) /\ Wire(y ++ q2)
             /\ Finishes(x) => Finishes(K2)
             /\ \/ x = K2 /\ y ++ q2 = Nil
                \/ Alone(A, Rel, x, y ++ q2) \/ Together(A, Rel, x, y ++ q2)
  <2>1. /\ ASequence(x) /\ Wire(y) /\ (Finishes(x) => Finishes(K))
        /\ (x = K /\ y = Nil) \/ Alone(A, R1, x, y) \/ Together(A, R1, x, y)
    BY <1>5 DEF Follows
  <2>2. Wire(y ++ q2) /\ ASequence(y)
    <3> DEFINE yq == y \o q2
    <3>1. /\ ASequence(y) /\ ASequence(q2)
          /\ \A i \in 1 .. Len(y) : y[i].op \in {"send", "get"}
          /\ \A i \in 1 .. Len(q2) : q2[i].op \in {"send", "get"}
      BY <1>0, <2>1 DEF Wire
    <3>2. /\ ASequence(yq) /\ Len(y) \in Nat /\ Len(q2) \in Nat /\ Len(yq) = Len(y) + Len(q2)
          /\ \A i \in 1 .. Len(y) + Len(q2) : yq[i] = IF i <= Len(y) THEN y[i] ELSE q2[i - Len(y)]
      BY <3>1, Concats
    <3> HIDE DEF yq
    <3>3. ASSUME NEW i \in 1 .. Len(yq) PROVE yq[i].op \in {"send", "get"}
      <4>1. CASE i <= Len(y)
        <5>1. i \in 1 .. Len(y) /\ yq[i] = y[i]
          BY <4>1, <3>2
        <5> QED BY <5>1, <3>1
      <4>2. CASE ~(i <= Len(y))
        <5>1. i - Len(y) \in 1 .. Len(q2) /\ yq[i] = q2[i - Len(y)]
          BY <4>2, <3>2
        <5> QED BY <5>1, <3>1
      <4> QED BY <4>1, <4>2
    <3>4. Wire(yq)
      BY <3>2, <3>3 DEF Wire
    <3> QED BY <3>1, <3>4 DEF yq, ++
  <2>3. CASE x = K /\ y = Nil
    <3>1. y ++ q2 = q2
      BY <1>0, <2>3, JoinNil
    <3>2. (K = K2 /\ q2 = Nil) \/ Alone(A, Rel, K, q2) \/ Together(A, Rel, K, q2)
      BY <1>4
    <3> QED BY <1>0, <2>1, <2>2, <2>3, <3>1, <3>2
  <2>4. CASE Alone(A, R1, x, y)
    <3>1. Alone(A, Rel, x, y ++ q2)
      BY <1>1, <2>4 DEF Alone
    <3> QED BY <1>0, <2>1, <2>2, <3>1
  <2>5. CASE Together(A, R1, x, y)
    <3> PICK a, x1, b, y1 : /\ ASequence(x1) /\ ASequence(y1) /\ x = a & x1 /\ y = b & y1
                            /\ a \in A /\ Meets(a, b) /\ (a.op = "write" => Onward(x))
                            /\ <<x1, y1>> \in R1
      BY <2>5 DEF Together
    <3>1. y ++ q2 = b & (y1 ++ q2) /\ ASequence(y1 ++ q2)
      BY <1>0, JoinCons, JoinSequence
    <3>2. <<x1, y1 ++ q2>> \in Rel
      BY <1>1
    <3>3. Together(A, Rel, x, y ++ q2)
      BY <3>1, <3>2 DEF Together
    <3> QED BY <1>0, <2>1, <2>2, <3>3
  <2> QED BY <2>1, <2>3, <2>4, <2>5
<1>6. Follows(A, K2, Rel)
  <2> SUFFICES ASSUME NEW x, NEW y, <<x, y>> \in Rel
               PROVE  /\ ASequence(x) /\ Wire(y)
                      /\ Finishes(x) => Finishes(K2)
                      /\ (x = K2 /\ y = Nil) \/ Alone(A, Rel, x, y) \/ Together(A, Rel, x, y)
    BY DEF Follows
  <2>1. CASE <<x, y>> \in R2
    BY <2>1, <1>4
  <2>2. CASE \E y1 : <<x, y1>> \in R1 /\ y = y1 ++ q2
    BY <2>2, <1>5
  <2> QED BY <2>1, <2>2, <1>2
<1>7. <<c, q ++ q2>> \in Rel
  BY <1>1
<1>8. Matched(A, K2, c, q ++ q2)
  BY <1>6, <1>7 DEF Matched
<1>9. s = (q ++ q2) ++ B2
  <2>1. (q ++ q2) ++ B2 = q ++ (q2 ++ B2)
    BY <1>0, JoinAssoc
  <2> QED BY <2>1
<1> QED BY <1>0, <1>8, <1>9 DEF Near
(* Records of one and two entries: the types the server was asked for. *)
One(x) == <<x>>
Two(x, y) == <<x, y>>
OnlyTLS == One("TLS")
OnlyVe == One("VeNCrypt")
ViaVe(tk) == tk # Nil /\ tk[1] = "VeNCrypt"

(* The layers: none is on, or the one that both are on.                     *)
Fresh == ~tls /\ ~saslconn /\ serverLayer = "plain"
Calm == ~saslconn /\ serverLayer = layer

(* The client's steps on which nothing depends: they are in stretches.      *)
Ordinary ==
  {R(what) : what \in Data \cup Lengths} \cup {W(what, 0) : what \in Plainly}
    \cup {L(what) : what \in {"keys", "password", "credential", "certificate",
                              "framebuffer", "saslSetup", "library"}}

(* The client is about to give up: whatever the server does is right.       *)
Ends(c) == \E why \in {"refused", "unknown"} : \E q : ASequence(q) /\ c = GiveUp(why) & q

(* The server is about to give its verdict, or has sent the result: the     *)
(* client reads "result".                                                   *)
ResultOf(B) ==
  \/ B = D("verdict") & Nil
  \/ verdict = "ok" /\ \E size \in Sizes : B = S("result", "ok") & ServerJoin(size)
  \/ Minor = 8 /\ B = S("result", "failed") & (D("reason") & Nil)
  \/ Minor = 8 /\ \E size \in Sizes : B = S("result", "failed") & ServerReason(size)
  \/ Minor # 8 /\ B = S("result", "failed") & (D("close") & Nil)
  \/ B = S("result", "tooMany") & (D("close") & Nil)

Half == mech \div 2
Smaller(a, b) == IF a <= b THEN a ELSE b
(* SASL: messages 1, 3, ... are the client's, 2, 4, ... the server's, mech  *)
(* of them in all.  What the library has been given, and whether it is      *)
(* content, follows from how often it has been called.                      *)
Exchanged ==
  /\ mech \in 1 .. MaxSasl
  /\ sasl.calls \in Nat
  /\ sasl.given = 2 * Smaller(sasl.calls, Half)
  /\ sasl.ok = (sasl.calls > 0 /\ 2 * sasl.calls + 1 >= mech)
NextMessage == 2 * (sasl.calls + 1)
Through == NextMessage >= mech
Served == IF NextMessage <= mech THEN NextMessage ELSE 0

(* Where an authentication begins, on both sides: K is the rest of the      *)
(* client's script, B that of the server's.                                 *)
Mechanism == G("mechanism") & (G("saslData") & Nil)
OpenGoal(K, B) ==
  \/ K = R("result") & Z /\ ResultOf(B)
  \/ /\ B = G("lengths") & Nil
     /\ K = L("plainCredential") & Z \/ \E u, p \in 0 .. 1 : K = PlainMessage(u, p) ++ Z
  \/ K = L("saslStart") & Z /\ B = Mechanism
  \/ /\ Exchanged /\ sasl.calls = 0 /\ serverin = 0
     /\ K = W("mechanism", mech) & (SaslExchange(1) ++ Z) /\ B = Mechanism
Opening(c, s) == \E K, B : OpenGoal(K, B) /\ Near(Ordinary, K, B, c, s)

(* The server offers security types, or none and a reason.                  *)
Offer(B) ==
  \/ B = S("count", 0) & (D("reason") & Nil)
  \/ \E size \in Sizes : B = S("count", 0) & ServerReason(size)
  \/ \E list \in Lists \cup SubLists : list # Nil /\ B = ServerList("count", "type", "choice", list)
VeOffer(B) ==
  \/ B = S("veCount", 0) & (D("close") & Nil)
  \/ \E list \in VeNCryptLists : list # Nil /\ B = ServerList("veCount", "veType", "veChoice", list)

(* What comes after the handshake of TLS, for a server of types tk: it has  *)
(* not offered its types yet; it may have, if it finished first.            *)
Waiting(tk, c, s) == \/ tk = OnlyTLS /\ c = R("count") & Z /\ s = Nil
                     \/ ViaVe(tk) /\ Opening(c, s)
Inside(tk, c, s) == \/ tk = OnlyTLS /\ c = R("count") & Z /\ Offer(s)
                    \/ ViaVe(tk) /\ Opening(c, s)
(* The handshake of TLS: both before it (Hail), both in it (Shake), the     *)
(* server done and the client not (Lead), the client done and the server    *)
(* not (Lag).                                                               *)
Hello(s) == G("hello") & s
Finish(s) == S("finished", 0) & (D("tls") & s)
Hail(tk, K, B) ==
  Fresh /\ \E c, s : Waiting(tk, c, s) /\ K = L("tls") & c /\ B = Hello(Finish(s))
Shake(tk, c, s) ==
  Fresh /\ \E c1, s1 :
    /\ Waiting(tk, c1, s1)
    /\ \/ c = W("hello", 0) & (F & c1) /\ s = Hello(Finish(s1))
       \/ c = F & c1 /\ s = Finish(s1)
Lead(tk, c, s) ==
  /\ ~tls /\ ~saslconn /\ serverLayer = "tls"
  /\ \E c1, s1 : Inside(tk, c1, s1) /\ c = F & c1 /\ s = S("finished", 0) & s1
Lag(tk, c, s) ==
  /\ tls /\ ~saslconn /\ serverLayer = "plain"
  /\ \E s1 : Waiting(tk, c, s1) /\ s = D("tls") & s1

(* VeNCrypt: its version, whether it is accepted, and the list of types.    *)
VeVersions == {Two(0, 2), Two(1, 1)}
VeGoal(tk, K, B) ==
  /\ tk = OnlyVe /\ Fresh
  /\ \/ /\ K = R("veVersion") & Z
        /\ B = D("veAnnounce") & Nil \/ \E v \in VeVersions : B = ServerVeNCrypt(v)
     \/ /\ K = R("veStatus") & (R("veCount") & Z)
        /\ \/ B = D("veVersion") & Nil
           \/ \E s : B = S("veStatus", 0) & s /\ VeOffer(s)
           \/ B = S("veStatus", 1) & (D("close") & Nil)
     \/ K = R("veCount") & Z /\ VeOffer(B)

(* The ends of a stretch before the client is let in: a refusal, an         *)
(* authentication, no authentication, TLS, VeNCrypt, the types inside TLS.  *)
Refusal(K, B) ==
  \/ \E X : ASequence(X) /\ K = ReadReason ++ X /\ B = D("reason") & Nil
  \/ Ends(K) /\ (B = D("close") & Nil \/ \E c : Opening(c, B))
EarlyGoal(tk, K, B) ==
  \/ Refusal(K, B)
  \/ tk # Nil /\ OpenGoal(K, B)
  \/ tk # Nil /\ K = Z /\ B = D("admit") & Nil
  \/ tk # Nil /\ Hail(tk, K, B)
  \/ VeGoal(tk, K, B)
  \/ /\ tk = OnlyTLS \/ (tk = Nil /\ Fresh /\ Listed(version))
     /\ K = R("count") & Z /\ Offer(B)
Early(tk, c, s) ==
  \/ Calm /\ \E K, B : EarlyGoal(tk, K, B) /\ Near(Ordinary, K, B, c, s)
  \/ tk # Nil /\ Shake(tk, c, s)
(* The client has been let in.                                              *)
Joining(c, s) == verdict = "ok" /\ serverLayer = layer /\ Near(Ordinary, Ready & Nil, Nil, c, s)

(* SASL, by who is to speak: the server waits for the client's message      *)
(* (SaslWaits), has replied to it (SaslReplied), the reply is half read     *)
(* (SaslHalf), the client is to ask its library (SaslAsks), it reads the    *)
(* result (SaslClosing), it has turned the layer on and the server has not  *)
(* (SaslSecured).                                                           *)
SaslVerdict(s) ==
  \/ Calm /\ s = D("saslVerdict") & Nil
  \/ Calm /\ verdict = "ok" /\ s = S("saslResult", "ok") & (D("saslLayer") & ServerJoin("fits"))
  \/ /\ ~saslconn /\ serverLayer = (IF tls THEN "tls" ELSE "sasl") /\ verdict = "ok"
     /\ s = S("saslResult", "ok") & ServerJoin("fits")
  \/ Calm /\ s = S("saslResult", "failed") & (D("close") & Nil)
SaslGoesOn(s) == IF Through THEN SaslVerdict(s) ELSE Calm /\ s = G("saslData") & Nil
SaslWaits(c, s) ==
  /\ Calm /\ Exchanged /\ serverin = 0 /\ exchanges = Two(mech, sasl.calls)
  /\ \E m \in 0 .. MaxSasl : c = SaslExchange(m) ++ Z
  /\ s = G("saslData") & Nil
Answered == Exchanged /\ exchanges = Two(mech, sasl.calls + 1)
SaslReplied(c, s) ==
  /\ Answered /\ c = R("saslData") & (R("saslComplete") & Z)
  /\ \E data \in {Served, -1} : \E s1 :
       s = S("saslData", data) & (S("saslComplete", Through) & s1) /\ SaslGoesOn(s1)
SaslHalf(c, s) ==
  /\ Answered /\ serverin = Served /\ c = R("saslComplete") & Z
  /\ \E s1 : s = S("saslComplete", Through) & s1 /\ SaslGoesOn(s1)
SaslAsks(c, s) ==
  Answered /\ serverin = Served /\ complete = Through /\ c = L("saslStep") & Z /\ SaslGoesOn(s)
SaslClosing(c, s) ==
  /\ Exchanged /\ sasl.ok /\ sasl.given = 2 * Half
  /\ c = L("saslStrength") & (R("saslResult") & Z) \/ c = R("saslResult") & Z
  /\ SaslVerdict(s)
SaslSecured(c, s) ==
  /\ saslconn /\ serverLayer = (IF tls THEN "tls" ELSE "plain") /\ verdict = "ok"
  /\ c = Z /\ s = D("saslLayer") & ServerJoin("fits")
SaslTalk(c, s) ==
  \/ SaslWaits(c, s) \/ SaslReplied(c, s) \/ SaslHalf(c, s) \/ SaslAsks(c, s)
  \/ SaslClosing(c, s) \/ SaslSecured(c, s)

(* The conversation once the server has been told, or has decided, that its *)
(* types are tk (tk = Nil: none yet): the client has c left to do, the      *)
(* server s.                                                                *)
Talk(tk, c, s) ==
  \/ Early(tk, c, s)
  \/ tk # Nil /\ (Joining(c, s) \/ SaslTalk(c, s) \/ Lead(tk, c, s) \/ Lag(tk, c, s))

-------------------------------------------------------------------------------
(* The types, as the client chose them; the server may not know of the      *)
(* last.                                                                    *)
Handle(t) == IF SubAuth THEN SubHandler(t) ELSE Handler(t)
Added(tk, type) == IF tk = Nil THEN One(type) ELSE Two(tk[1], type)
Before == IF scheme = NoType THEN Nil ELSE One(scheme)
Both == IF scheme = NoType THEN Nil ELSE IF sub = NoType THEN One(scheme) ELSE Two(scheme, sub)

(* The versions are exchanged.                                              *)
Greeting(c, s) ==
  /\ Fresh /\ scheme = NoType /\ sub = NoType /\ taken = Nil
  /\ \/ /\ version = Two(0, 0) /\ c = R("version") & Z
        /\ \E v \in Versions : s = S("version", v) & (G("version") & Nil)
     \/ /\ \E v \in Versions : v # Nil /\ version = ClientVersion(v)
        /\ c = W("version", version) & (R(IF Listed(version) THEN "count" ELSE "word") & Z)
        /\ s = G("version") & Nil
(* Both have the same version.                                              *)
Agreed ==
  /\ reply = version /\ \E v \in Versions : v # Nil /\ version = ClientVersion(v)
  /\ scheme = NoType => sub = NoType

(* A server of version 3.3 names its type itself.                           *)
WordServed(w, s) ==
  \/ Fresh /\ taken = Nil /\ s = Chosen(w) & Nil
  \/ taken = One(w) /\ Talk(One(w), Handle(w) ++ Z, s)
WordTalk(c, s) ==
  /\ scheme = NoType /\ ~Listed(version)
  /\ \E w \in Words :
       \/ c = R("word") & Z /\ \E s1 : s = S("word", w) & s1 /\ WordServed(w, s1)
       \/ c = L("switch") & Z /\ picked = w /\ WordServed(w, s)

(* A list of types, while the client has found none (Unpicked), has found   *)
(* one (Picked), and has been heard by the server (Heard).                  *)
Quiet == Calm /\ (SubAuth \/ Fresh)
(* A list is read, entry by entry, and then they stand at K and B. *)
Reading(e, K, B, c, s) ==
  ASequence(B) /\ \E q : AllOp(q, "send") /\ Matched({e}, K, c, q) /\ s = q ++ B
Types(B, c, s) == Reading(R("type"), L("switch") & Z, B, c, s)
Choosing == sub = NoType /\ (IF scheme = NoType THEN Listed(version) ELSE SubAuth)
Unpicked(c, s) == picked = NoType /\ Quiet /\ taken = Before /\ Types(G("choice") & Nil, c, s)
Picked(c, s) ==
  /\ Selectable(picked, SubAuth) /\ Quiet /\ taken = Before
  /\ \E c1 : c = W("choice", picked) & c1 /\ Types(G("choice") & Nil, c1, s)
Heard(c, s) ==
  /\ Selectable(picked, SubAuth) /\ taken = Added(Before, picked)
  /\ \E B : Types(B, c, s) /\ Talk(taken, Handle(picked) ++ Z, B)
Listing(c, s) == Choosing /\ (Unpicked(c, s) \/ Picked(c, s) \/ Heard(c, s))

(* The same of VeNCrypt's list, whose server says whether it accepts.       *)
VeServer(t) ==
  CASE t \in NoneTypes -> D("verdict") & Nil
    [] t \in VNCTypes -> ServerVNC
    [] t \in PlainTypes -> ServerPlain
    [] t \in SASLTypes -> ServerSASL("fits")
Accepts(t, s) ==
  \/ s = S("veAccepted", 1) & Hello(Finish(VeServer(t)))
  \/ s = S("veAccepted", 0) & (D("close") & Nil)
VeTypes(B, c, s) ==
  \/ Reading(R("veType"), L("veSwitch") & Z, B, c, s)
  \/ picked \in VeNCryptTypes /\ c = R("veAccepted") & Z /\ s = B /\ ASequence(B)
VeChoosing == scheme = "VeNCrypt" /\ sub = NoType /\ Fresh
VeUnpicked(c, s) == picked = NoType /\ taken = OnlyVe /\ VeTypes(G("veChoice") & Nil, c, s)
VePicked(c, s) ==
  /\ picked \in VeNCryptTypes /\ taken = OnlyVe
  /\ \E c1 : c = W("veChoice", picked) & c1 /\ VeTypes(G("veChoice") & Nil, c1, s)
VeHeard(c, s) ==
  /\ picked \in VeNCryptTypes /\ taken = Two("VeNCrypt", picked)
  /\ \E B : VeTypes(B, c, s) /\ Accepts(picked, B)
VeListing(c, s) == VeChoosing /\ (VeUnpicked(c, s) \/ VePicked(c, s) \/ VeHeard(c, s))

(* The client has gone on with a type the server does not know of yet.      *)
Pending(c, s) ==
  /\ scheme # NoType /\ Calm
  /\ IF sub = NoType THEN Fresh /\ taken = Nil ELSE SubAuth /\ taken = OnlyTLS
  /\ \/ /\ s = G("choice") & Nil
        /\ \E c1 : c = W("choice", Type) & c1 /\ Early(Both, c1, ServerHandler(Type))
     \/ /\ s = Chosen(Type) & Nil /\ Type \in Words /\ sub = NoType
        /\ Early(Both, c, ServerHandler(Type))
(* Both know all the types.                                                 *)
Straight(c, s) == taken = Both /\ Talk(Both, c, s)

(* The whole conversation: c is all that the client still does, what it has *)
(* written and the server has not got included, s all that the server still *)
(* does, what it has sent and the client has not read included.             *)
Talking(c, s) ==
  \/ Ends(c)
  \/ Greeting(c, s)
  \/ Agreed /\ (WordTalk(c, s) \/ Listing(c, s) \/ VeListing(c, s) \/ Pending(c, s) \/ Straight(c, s))

(* A client that has joined has nothing left to do.                         *)
Remaining == IF outcome = "ready" THEN Ready & Nil ELSE todo

-------------------------------------------------------------------------------
(* What is on the wire, as steps: written and not got, sent and not read.   *)
Sent(ms) == [i \in 1 .. Len(ms) |-> S(ms[i].what, ms[i].val)]
Written(ms) == [i \in 1 .. Len(ms) |-> W(ms[i].what, ms[i].val)]

LEMMA Appends ==
  ASSUME NEW q, ASequence(q), NEW m
  PROVE  /\ ASequence(Append(q, m)) /\ Len(Append(q, m)) = Len(q) + 1 /\ Append(q, m)[Len(q) + 1] = m
         /\ \A i \in 1 .. Len(q) : Append(q, m)[i] = q[i]
<1>1. PICK E : q \in Seq(E)
  BY DEF ASequence
<1>2. q \in Seq(E \cup {m})
  BY <1>1, SeqMonotonic
<1> DEFINE n == Append(q, m)
<1>3. n \in Seq(E \cup {m}) /\ Len(n) = Len(q) + 1 /\ n[Len(q) + 1] = m
      /\ \A i \in 1 .. Len(q) : n[i] = q[i]
  BY <1>2, AppendProperties
<1>4. ASequence(n)
  BY <1>3 DEF ASequence
<1> QED BY <1>3, <1>4

LEMMA Ones ==
  /\ \A x : One(x) # Nil /\ One(x)[1] = x
  /\ \A x, y : Two(x, y) # Nil /\ Two(x, y)[1] = x /\ Two(x, y)[2] = y
  /\ \A x, y : One(x) = One(y) => x = y
  /\ \A x, y, z : Two(x, y) # One(z)
  /\ \A x : Append(Nil, x) = One(x)
  /\ \A x, y : Append(One(x), y) = Two(x, y)
<1>1. \A x : One(x) # Nil /\ One(x)[1] = x
  BY DEF One, Nil
<1>2. \A x, y : Two(x, y) # Nil /\ Two(x, y)[1] = x /\ Two(x, y)[2] = y
  BY DEF Two, Nil
<1>3. \A x, y : One(x) = One(y) => x = y
  BY <1>1
<1>4. \A x, y, z : Two(x, y) # One(z)
  <2>1. \A x, y, z : Len(Two(x, y)) = 2 /\ Len(One(z)) = 1
    BY DEF One, Two
  <2> QED BY <2>1
<1>5. \A x : Append(Nil, x) = One(x)
  BY DEF Nil, One
<1>6. ASSUME NEW x, NEW y PROVE Append(One(x), y) = Two(x, y)
  <2> DEFINE o == One(x)
             t == Two(x, y)
             n == Append(o, y)
  <2>1. Len(o) = 1 /\ Len(t) = 2 /\ o[1] = x /\ t[1] = x /\ t[2] = y
    BY DEF One, Two
  <2>2. ASequence(o) /\ ASequence(t)
    BY Tuple1, Tuple2, NilSequence DEF One, Two
  <2> HIDE DEF o, t
  <2>3. ASequence(n) /\ Len(n) = Len(o) + 1 /\ n[Len(o) + 1] = y /\ \A i \in 1 .. Len(o) : n[i] = o[i]
    BY <2>2, Appends
  <2> HIDE DEF n
  <2>4. Len(n) = 2 /\ n[1] = x /\ n[2] = y
    BY <2>1, <2>3
  <2>6. \A i \in 1 .. Len(n) : n[i] = t[i]
    BY <2>1, <2>4
  <2>7. n = t
    BY <2>1, <2>2, <2>3, <2>4, <2>6, EqualSequences
  <2> QED BY <2>7 DEF n, o, t
<1> QED BY <1>1, <1>2, <1>3, <1>4, <1>5, <1>6

LEMMA SentFacts ==
  ASSUME NEW ms, ASequence(ms)
  PROVE  AllOp(Sent(ms), "send") /\ ASequence(Sent(ms)) /\ Len(Sent(ms)) = Len(ms)
<1> DEFINE q == Sent(ms)
           E == {S(ms[i].what, ms[i].val) : i \in 1 .. Len(ms)}
<1>1. q \in [1 .. Len(ms) -> E] /\ Len(ms) \in Nat
  BY Concats DEF Sent
<1>2. \A e \in E : e.op = "send"
  BY Kinds
<1> HIDE DEF q, E
<1>3. q \in Seq(E) /\ Len(q) = Len(ms)
  BY <1>1
<1>4. ASequence(q)
  BY <1>3 DEF ASequence
<1>5. \A i \in 1 .. Len(q) : q[i] \in E
  BY <1>1, <1>3
<1>6. AllOp(q, "send")
  BY <1>2, <1>4, <1>5 DEF AllOp
<1> QED BY <1>3, <1>4, <1>6 DEF q

LEMMA WrittenFacts ==
  ASSUME NEW ms, ASequence(ms)
  PROVE  AllOp(Written(ms), "write") /\ ASequence(Written(ms)) /\ Len(Written(ms)) = Len(ms)
<1> DEFINE q == Written(ms)
           E == {W(ms[i].what, ms[i].val) : i \in 1 .. Len(ms)}
<1>1. q \in [1 .. Len(ms) -> E] /\ Len(ms) \in Nat
  BY Concats DEF Written
<1>2. \A e \in E : e.op = "write"
  BY Kinds
<1> HIDE DEF q, E
<1>3. q \in Seq(E) /\ Len(q) = Len(ms)
  BY <1>1
<1>4. ASequence(q)
  BY <1>3 DEF ASequence
<1>5. \A i \in 1 .. Len(q) : q[i] \in E
  BY <1>1, <1>3
<1>6. AllOp(q, "write")
  BY <1>2, <1>4, <1>5 DEF AllOp
<1> QED BY <1>3, <1>4, <1>6 DEF q

(* The first message, and one more at the end. *)
LEMMA SentEnds ==
  ASSUME NEW ms, ASequence(ms)
  PROVE  /\ ms = Nil => Sent(ms) = Nil
         /\ ms # Nil => Sent(ms) = S(ms[1].what, ms[1].val) & Sent(Tail(ms))
         /\ \A m : Sent(Append(ms, m)) = Sent(ms) ++ (S(m.what, m.val) & Nil)
<1>0. Len(ms) \in Nat /\ AllOp(Sent(ms), "send") /\ ASequence(Sent(ms)) /\ Len(Sent(ms)) = Len(ms)
      /\ \A i \in 1 .. Len(ms) : Sent(ms)[i] = S(ms[i].what, ms[i].val)
  BY SentFacts, Concats DEF Sent
<1>1. ASSUME ms = Nil PROVE Sent(ms) = Nil
  <2>1. Len(ms) = 0
    BY <1>1, EmptySequence DEF Nil
  <2> QED BY <1>0, <2>1, Empties DEF Nil
<1>2. ASSUME ms # Nil PROVE Sent(ms) = S(ms[1].what, ms[1].val) & Sent(Tail(ms))
  <2> DEFINE t == Tail(ms)
             a == S(ms[1].what, ms[1].val)
             q == Sent(ms)
             r == Sent(t)
             x == a & r
  <2>1. /\ ASequence(t) /\ Len(ms) \in Nat \ {0} /\ Len(t) = Len(ms) - 1
        /\ \A i \in 1 .. Len(ms) - 1 : t[i] = ms[i + 1]
    BY <1>2, Rests DEF Nil
  <2> HIDE DEF t
  <2>2. ASequence(r) /\ Len(r) = Len(t) /\ \A i \in 1 .. Len(t) : r[i] = S(t[i].what, t[i].val)
    BY <2>1, SentFacts DEF Sent
  <2> HIDE DEF r
  <2>3. ASequence(x) /\ x[1] = a /\ Len(x) = Len(r) + 1 /\ \A i \in 1 .. Len(r) : x[i + 1] = r[i]
    BY <2>2, ConsFacts
  <2> HIDE DEF x
  <2>4. ASequence(q) /\ Len(q) = Len(ms) /\ \A i \in 1 .. Len(ms) : q[i] = S(ms[i].what, ms[i].val)
    BY <1>0
  <2> HIDE DEF q
  <2>5. ASSUME NEW i \in 1 .. Len(q) PROVE q[i] = x[i]
    <3>1. CASE i = 1
      BY <3>1, <2>3, <2>4
    <3>2. CASE i # 1
      <4>1. i - 1 \in 1 .. Len(t) /\ i - 1 \in 1 .. Len(ms) - 1 /\ (i - 1) + 1 = i
        BY <3>2, <2>1, <2>4
      <4>2. x[i] = r[i - 1] /\ r[i - 1] = S(t[i - 1].what, t[i - 1].val) /\ t[i - 1] = ms[i]
        BY <4>1, <2>1, <2>2, <2>3
      <4> QED BY <4>2, <2>4
    <3> QED BY <3>1, <3>2
  <2>6. Len(q) = Len(x)
    BY <2>1, <2>2, <2>3, <2>4
  <2>7. q = x
    BY <2>3, <2>4, <2>5, <2>6, EqualSequences
  <2> QED BY <2>7 DEF q, x, r, t
<1>3. ASSUME NEW m PROVE Sent(Append(ms, m)) = Sent(ms) ++ (S(m.what, m.val) & Nil)
  <2> DEFINE n == Append(ms, m)
             q == Sent(ms)
             l == S(m.what, m.val) & Nil
             x == q \o l
             y == Sent(n)
  <2>1. ASequence(n) /\ Len(n) = Len(ms) + 1 /\ n[Len(ms) + 1] = m
        /\ \A i \in 1 .. Len(ms) : n[i] = ms[i]
    BY Appends
  <2> HIDE DEF n
  <2>2. ASequence(y) /\ Len(y) = Len(n) /\ \A i \in 1 .. Len(n) : y[i] = S(n[i].what, n[i].val)
    BY <2>1, SentFacts DEF Sent
  <2> HIDE DEF y
  <2>3. ASequence(l) /\ Len(l) = 1 /\ l[1] = S(m.what, m.val)
    <3>1. ASequence(Nil) /\ Len(Nil) = 0
      BY EmptySequence DEF Nil
    <3>2. ASequence(l) /\ Len(l) = Len(Nil) + 1 /\ l[1] = S(m.what, m.val)
      BY <3>1, ConsFacts
    <3> QED BY <3>1, <3>2
  <2> HIDE DEF l
  <2>4. ASequence(q) /\ Len(q) = Len(ms) /\ \A i \in 1 .. Len(ms) : q[i] = S(ms[i].what, ms[i].val)
    BY <1>0
  <2> HIDE DEF q
  <2>5. ASequence(x) /\ Len(x) = Len(q) + Len(l)
        /\ \A i \in 1 .. Len(q) + Len(l) : x[i] = IF i <= Len(q) THEN q[i] ELSE l[i - Len(q)]
    BY <2>3, <2>4, Concats
  <2> HIDE DEF x
  <2>6. ASSUME NEW i \in 1 .. Len(y) PROVE y[i] = x[i]
    <3>1. CASE i <= Len(ms)
      <4>1. i \in 1 .. Len(ms) /\ i \in 1 .. Len(n) /\ i \in 1 .. Len(q) + Len(l) /\ i <= Len(q)
        BY <3>1, <1>0, <2>1, <2>2, <2>3, <2>4
      <4>2. y[i] = S(ms[i].what, ms[i].val)
        BY <4>1, <2>1, <2>2
      <4>3. x[i] = S(ms[i].what, ms[i].val)
        BY <4>1, <2>4, <2>5
      <4> QED BY <4>2, <4>3
    <3>2. CASE ~(i <= Len(ms))
      <4>1. i = Len(ms) + 1 /\ i \in 1 .. Len(n) /\ i \in 1 .. Len(q) + Len(l) /\ ~(i <= Len(q)) /\ i - Len(q) = 1
        BY <3>2, <1>0, <2>1, <2>2, <2>3, <2>4
      <4>2. y[i] = S(m.what, m.val)
        BY <4>1, <2>1, <2>2
      <4>3. x[i] = S(m.what, m.val)
        BY <4>1, <2>3, <2>5
      <4> QED BY <4>2, <4>3
    <3> QED BY <3>1, <3>2
  <2>7. Len(y) = Len(x)
    BY <1>0, <2>1, <2>2, <2>3, <2>4, <2>5
  <2>8. y = x
    BY <2>2, <2>5, <2>6, <2>7, EqualSequences
  <2> QED BY <2>8 DEF x, y, q, l, n, ++
<1> QED BY <1>1, <1>2, <1>3

LEMMA WrittenEnds ==
  ASSUME NEW ms, ASequence(ms)
  PROVE  /\ ms = Nil => Written(ms) = Nil
         /\ ms # Nil => Written(ms) = W(ms[1].what, ms[1].val) & Written(Tail(ms))
         /\ \A m : Written(Append(ms, m)) = Written(ms) ++ (W(m.what, m.val) & Nil)
<1>0. Len(ms) \in Nat /\ AllOp(Written(ms), "write") /\ ASequence(Written(ms)) /\ Len(Written(ms)) = Len(ms)
      /\ \A i \in 1 .. Len(ms) : Written(ms)[i] = W(ms[i].what, ms[i].val)
  BY WrittenFacts, Concats DEF Written
<1>1. ASSUME ms = Nil PROVE Written(ms) = Nil
  <2>1. Len(ms) = 0
    BY <1>1, EmptySequence DEF Nil
  <2> QED BY <1>0, <2>1, Empties DEF Nil
<1>2. ASSUME ms # Nil PROVE Written(ms) = W(ms[1].what, ms[1].val) & Written(Tail(ms))
  <2> DEFINE t == Tail(ms)
             a == W(ms[1].what, ms[1].val)
             q == Written(ms)
             r == Written(t)
             x == a & r
  <2>1. /\ ASequence(t) /\ Len(ms) \in Nat \ {0} /\ Len(t) = Len(ms) - 1
        /\ \A i \in 1 .. Len(ms) - 1 : t[i] = ms[i + 1]
    BY <1>2, Rests DEF Nil
  <2> HIDE DEF t
  <2>2. ASequence(r) /\ Len(r) = Len(t) /\ \A i \in 1 .. Len(t) : r[i] = W(t[i].what, t[i].val)
    BY <2>1, WrittenFacts DEF Written
  <2> HIDE DEF r
  <2>3. ASequence(x) /\ x[1] = a /\ Len(x) = Len(r) + 1 /\ \A i \in 1 .. Len(r) : x[i + 1] = r[i]
    BY <2>2, ConsFacts
  <2> HIDE DEF x
  <2>4. ASequence(q) /\ Len(q) = Len(ms) /\ \A i \in 1 .. Len(ms) : q[i] = W(ms[i].what, ms[i].val)
    BY <1>0
  <2> HIDE DEF q
  <2>5. ASSUME NEW i \in 1 .. Len(q) PROVE q[i] = x[i]
    <3>1. CASE i = 1
      BY <3>1, <2>3, <2>4
    <3>2. CASE i # 1
      <4>1. i - 1 \in 1 .. Len(t) /\ i - 1 \in 1 .. Len(ms) - 1 /\ (i - 1) + 1 = i
        BY <3>2, <2>1, <2>4
      <4>2. x[i] = r[i - 1] /\ r[i - 1] = W(t[i - 1].what, t[i - 1].val) /\ t[i - 1] = ms[i]
        BY <4>1, <2>1, <2>2, <2>3
      <4> QED BY <4>2, <2>4
    <3> QED BY <3>1, <3>2
  <2>6. Len(q) = Len(x)
    BY <2>1, <2>2, <2>3, <2>4
  <2>7. q = x
    BY <2>3, <2>4, <2>5, <2>6, EqualSequences
  <2> QED BY <2>7 DEF q, x, r, t
<1>3. ASSUME NEW m PROVE Written(Append(ms, m)) = Written(ms) ++ (W(m.what, m.val) & Nil)
  <2> DEFINE n == Append(ms, m)
             q == Written(ms)
             l == W(m.what, m.val) & Nil
             x == q \o l
             y == Written(n)
  <2>1. ASequence(n) /\ Len(n) = Len(ms) + 1 /\ n[Len(ms) + 1] = m
        /\ \A i \in 1 .. Len(ms) : n[i] = ms[i]
    BY Appends
  <2> HIDE DEF n
  <2>2. ASequence(y) /\ Len(y) = Len(n) /\ \A i \in 1 .. Len(n) : y[i] = W(n[i].what, n[i].val)
    BY <2>1, WrittenFacts DEF Written
  <2> HIDE DEF y
  <2>3. ASequence(l) /\ Len(l) = 1 /\ l[1] = W(m.what, m.val)
    <3>1. ASequence(Nil) /\ Len(Nil) = 0
      BY EmptySequence DEF Nil
    <3>2. ASequence(l) /\ Len(l) = Len(Nil) + 1 /\ l[1] = W(m.what, m.val)
      BY <3>1, ConsFacts
    <3> QED BY <3>1, <3>2
  <2> HIDE DEF l
  <2>4. ASequence(q) /\ Len(q) = Len(ms) /\ \A i \in 1 .. Len(ms) : q[i] = W(ms[i].what, ms[i].val)
    BY <1>0
  <2> HIDE DEF q
  <2>5. ASequence(x) /\ Len(x) = Len(q) + Len(l)
        /\ \A i \in 1 .. Len(q) + Len(l) : x[i] = IF i <= Len(q) THEN q[i] ELSE l[i - Len(q)]
    BY <2>3, <2>4, Concats
  <2> HIDE DEF x
  <2>6. ASSUME NEW i \in 1 .. Len(y) PROVE y[i] = x[i]
    <3>1. CASE i <= Len(ms)
      <4>1. i \in 1 .. Len(ms) /\ i \in 1 .. Len(n) /\ i \in 1 .. Len(q) + Len(l) /\ i <= Len(q)
        BY <3>1, <1>0, <2>1, <2>2, <2>3, <2>4
      <4>2. y[i] = W(ms[i].what, ms[i].val)
        BY <4>1, <2>1, <2>2
      <4>3. x[i] = W(ms[i].what, ms[i].val)
        BY <4>1, <2>4, <2>5
      <4> QED BY <4>2, <4>3
    <3>2. CASE ~(i <= Len(ms))
      <4>1. i = Len(ms) + 1 /\ i \in 1 .. Len(n) /\ i \in 1 .. Len(q) + Len(l) /\ ~(i <= Len(q)) /\ i - Len(q) = 1
        BY <3>2, <1>0, <2>1, <2>2, <2>3, <2>4
      <4>2. y[i] = W(m.what, m.val)
        BY <4>1, <2>1, <2>2
      <4>3. x[i] = W(m.what, m.val)
        BY <4>1, <2>3, <2>5
      <4> QED BY <4>2, <4>3
    <3> QED BY <3>1, <3>2
  <2>7. Len(y) = Len(x)
    BY <1>0, <2>1, <2>2, <2>3, <2>4, <2>5
  <2>8. y = x
    BY <2>2, <2>5, <2>6, <2>7, EqualSequences
  <2> QED BY <2>8 DEF x, y, q, l, n, ++
<1> QED BY <1>1, <1>2, <1>3

LEMMA SentParts ==
  ASSUME NEW ms, ASequence(ms), NEW n \in 0 .. Len(ms), NEW u, NEW v, ASequence(u), ASequence(v),
         Len(u) = n, Len(v) = Len(ms) - n,
         \A i \in 1 .. n : u[i].what = ms[i].what /\ u[i].val = ms[i].val,
         \A i \in 1 .. Len(ms) - n : v[i] = ms[i + n]
  PROVE  Sent(ms) = Sent(u) ++ Sent(v)
<1> DEFINE x == Sent(u) \o Sent(v)
           q == Sent(ms)
           qu == Sent(u)
           qv == Sent(v)
<1>1. /\ ASequence(q) /\ Len(q) = Len(ms) /\ \A i \in 1 .. Len(ms) : q[i] = S(ms[i].what, ms[i].val)
      /\ Len(ms) \in Nat
  BY SentFacts, Concats DEF Sent
<1>2. /\ ASequence(qu) /\ Len(qu) = n /\ \A i \in 1 .. n : qu[i] = S(ms[i].what, ms[i].val)
  <2>1. ASequence(qu) /\ Len(qu) = n
    BY SentFacts
  <2>2. \A i \in 1 .. n : qu[i] = S(u[i].what, u[i].val)
    BY DEF Sent
  <2> QED BY <2>1, <2>2
<1>3. /\ ASequence(qv) /\ Len(qv) = Len(ms) - n
      /\ \A i \in 1 .. Len(ms) - n : qv[i] = S(ms[i + n].what, ms[i + n].val)
  <2>1. ASequence(qv) /\ Len(qv) = Len(ms) - n
    BY SentFacts
  <2>2. \A i \in 1 .. Len(ms) - n : qv[i] = S(v[i].what, v[i].val)
    BY DEF Sent
  <2> QED BY <2>1, <2>2
<1>4. n \in Nat /\ n <= Len(ms)
  BY <1>1
<1>5. x = qu \o qv
  OBVIOUS
<1> HIDE DEF qu, qv, q, x
<1>6. ASequence(x) /\ Len(x) = Len(ms)
      /\ \A i \in 1 .. Len(ms) : x[i] = IF i <= n THEN qu[i] ELSE qv[i - n]
  <2>1. ASequence(qu \o qv) /\ Len(qu \o qv) = Len(qu) + Len(qv)
        /\ \A i \in 1 .. Len(qu) + Len(qv) : (qu \o qv)[i] = IF i <= Len(qu) THEN qu[i] ELSE qv[i - Len(qu)]
    BY <1>2, <1>3, Concats
  <2>2. Len(qu) + Len(qv) = Len(ms)
    BY <1>1, <1>2, <1>3, <1>4
  <2> QED BY <2>1, <2>2, <1>2, <1>5
<1>7. ASSUME NEW i \in 1 .. Len(q) PROVE q[i] = x[i]
  <2>1. CASE i <= n
    <3>1. i \in 1 .. n /\ i \in 1 .. Len(ms)
      BY <2>1, <1>1, <1>4
    <3> QED BY <2>1, <3>1, <1>1, <1>2, <1>6
  <2>2. CASE ~(i <= n)
    <3>1. i - n \in 1 .. Len(ms) - n /\ i \in 1 .. Len(ms) /\ (i - n) + n = i
      BY <2>2, <1>1, <1>4
    <3> QED BY <2>2, <3>1, <1>1, <1>3, <1>6
  <2> QED BY <2>1, <2>2
<1>8. q = x
  BY <1>1, <1>6, <1>7, EqualSequences
<1> QED BY <1>8 DEF q, x, ++

LEMMA Versioned ==
  ASSUME NEW v \in Versions, v # Nil, version = ClientVersion(v), reply = version
  PROVE  /\ Listed(version) <=> Minor > 3
         /\ Explains(version) <=> Minor = 8
<1>1. v \in Nat \X Nat
  BY SessionAssumption DEF Nil
<1> PICK a \in Nat, b \in Nat : v = <<a, b>>
  BY <1>1
<1> DEFINE three == <<3, 8>>
<1>2. v[1] = a /\ v[2] = b
  OBVIOUS
<1>3. \A x, y : <<x, y>>[1] = x /\ <<x, y>>[2] = y
  OBVIOUS
<1>4. \A x, y, z, w : <<x, y>> = <<z, w>> <=> x = z /\ y = w
  OBVIOUS
<1>5. CASE a = 3 /\ b \in {14, 16}
  <2>1. version = <<3, b - 10>>
    BY <1>2, <1>5 DEF ClientVersion
  <2>2. reply \notin {<<3, 7>>, <<3, 8>>}
    BY <2>1, <1>4, <1>5
  <2>3. Minor = 3
    BY <2>2 DEF Minor
  <2>4. version[1] = 3 /\ version[2] = b - 10
    BY <2>1, <1>3
  <2> HIDE DEF three
  <2> QED BY <2>3, <2>4, <1>5 DEF Listed, Explains
<1>6. CASE ~(a = 3 /\ b \in {14, 16}) /\ (a > 3 \/ (a = 3 /\ b > 8))
  <2>1. version = <<3, 8>>
    BY <1>2, <1>6 DEF ClientVersion
  <2>2. Minor = 8
    BY <2>1, <1>3 DEF Minor
  <2>3. version[1] = 3 /\ version[2] = 8
    BY <2>1, <1>3
  <2> QED BY <2>2, <2>3 DEF Listed, Explains
<1>7. CASE ~(a = 3 /\ b \in {14, 16}) /\ ~(a > 3 \/ (a = 3 /\ b > 8))
  <2>1. version = <<a, b>>
    BY <1>2, <1>7 DEF ClientVersion
  <2>2. version[1] = a /\ version[2] = b
    BY <2>1, <1>3
  <2>3. reply \in {<<3, 7>>, <<3, 8>>} <=> a = 3 /\ b \in {7, 8}
    BY <2>1, <1>4
  <2>4. Minor = IF a = 3 /\ b \in {7, 8} THEN b ELSE 3
    BY <2>1, <2>2, <2>3 DEF Minor
  <2> QED BY <2>2, <2>4, <1>7 DEF Listed, Explains
<1> QED BY <1>5, <1>6, <1>7

-------------------------------------------------------------------------------
(* How the stretches end. *)

LEMMA ZFacts ==
  /\ ASequence(Z) /\ Steady(Z) /\ ~Finishes(Z)
  /\ \E z : ASequence(z) /\ Z = W("clientInit", 0) & (R("serverInit") & z)
<1> DEFINE z == R("name") & (L("framebuffer") &
          (W("setPixelFormat", 0) & (W("setEncodings", 0) & (W("updateRequest", 0) &
          (W("incrementalRequest", 0) & (W("incrementalRequest", 0) & (Ready & Nil)))))))
           y == R("serverInit") & z
<1>1. ASequence(z)
  BY ConsSequence, NilSequence
<1>2. Z = W("clientInit", 0) & y
  BY InitScript
<1> HIDE DEF z
<1>3. ASequence(y)
  BY <1>1, ConsSequence
<1>4. Onward(y)
  BY <1>1, Kinds, OnwardOther
<1>5. ~Finishes(y)
  <2>1. R("serverInit") # Ready /\ R("serverInit").op # "write"
    BY Kinds, Lasts
  <2> QED BY <1>1, <2>1, FinishesCons
<1> HIDE DEF y
<1>6. Onward(Z)
  BY <1>2, <1>3, <1>4, Kinds, OnwardWrite
<1>7. ~Finishes(Z)
  <2>1. W("clientInit", 0) # Ready
    BY Kinds, Lasts
  <2> QED BY <1>2, <1>3, <1>5, <2>1, FinishesCons
<1> QED BY <1>1, <1>2, <1>6, <1>7, InitScript, SteadyOnward DEF y

(* A script that begins with a step that is not written. *)
LEMMA BeginsWith ==
  ASSUME NEW a, a.op \notin {"write", "ready"}, NEW x, ASequence(x)
  PROVE  /\ ASequence(a & x) /\ Steady(a & x) /\ ~Finishes(a & x) /\ (a & x)[1] = a
<1>1. a # Ready
  BY Lasts
<1> QED BY <1>1, SteadyOther, FinishesCons, ConsSequence, ConsParts

(* ... or with what is written, and then a read. *)
LEMMA WritesFirst ==
  ASSUME NEW a, a.op = "write", NEW x, ASequence(x), Onward(x), ~Finishes(x)
  PROVE  /\ ASequence(a & x) /\ Steady(a & x) /\ Onward(a & x) /\ ~Finishes(a & x) /\ (a & x)[1] = a
<1>1. a # Ready
  BY Lasts
<1> QED BY <1>1, OnwardWrite, SteadyOnward, FinishesCons, ConsSequence, ConsParts

LEMMA ReadsFirst ==
  ASSUME NEW a, a.op = "read", NEW x, ASequence(x)
  PROVE  /\ ASequence(a & x) /\ Onward(a & x) /\ ~Finishes(a & x) /\ (a & x)[1] = a
<1>1. a # Ready
  BY Lasts
<1> QED BY <1>1, OnwardOther, FinishesCons, ConsSequence, ConsParts

LEMMA ExchangeFacts ==
  ASSUME NEW m
  PROVE  /\ SaslExchange(m) ++ Z = W("saslData", m) & (R("saslData") & (R("saslComplete") & Z))
         /\ ASequence(SaslExchange(m) ++ Z) /\ Steady(SaslExchange(m) ++ Z)
         /\ Onward(SaslExchange(m) ++ Z) /\ ~Finishes(SaslExchange(m) ++ Z)
<1> DEFINE y == R("saslComplete") & Z
           x == R("saslData") & y
<1>1. ASequence(y)
  BY ZFacts, ConsSequence
<1> HIDE DEF y
<1>2. ASequence(x) /\ Onward(x) /\ ~Finishes(x)
  BY <1>1, Kinds, ReadsFirst
<1>3. SaslExchange(m) ++ Z = W("saslData", m) & x
  BY ZFacts, ExchangeScript DEF y
<1> HIDE DEF x
<1>4. /\ ASequence(W("saslData", m) & x) /\ Steady(W("saslData", m) & x)
      /\ Onward(W("saslData", m) & x) /\ ~Finishes(W("saslData", m) & x)
  BY <1>2, Kinds, WritesFirst
<1> QED BY <1>3, <1>4 DEF x, y

LEMMA PlainFacts ==
  ASSUME NEW u \in 0 .. 1, NEW p \in 0 .. 1
  PROVE  \E x : /\ PlainMessage(u, p) ++ Z = W("lengths", <<u, p>>) & x /\ ASequence(x)
                /\ Near(Ordinary, R("result") & Z, D("verdict") & Nil, x, ServerPlainMessage(<<u, p>>))
                /\ LET c == PlainMessage(u, p) ++ Z
                   IN ASequence(c) /\ Steady(c) /\ ~Finishes(c)
<1> DEFINE rz == R("result") & Z
           dv == D("verdict") & Nil
           ps == Repeat(p, W("password", 0)) ++ rz
           us == Repeat(u, W("user", 0)) ++ ps
           gs == Repeat(p, G("password")) ++ dv
           hs == Repeat(u, G("user")) ++ gs
           c == PlainMessage(u, p) ++ Z
           l == <<u, p>>
<1>1. ASequence(rz) /\ Onward(rz) /\ ~Finishes(rz) /\ ASequence(dv)
  BY Kinds, ReadsFirst, ZFacts, ConsSequence, NilSequence
<1>2. Near(Ordinary, rz, dv, rz, dv)
  BY <1>1, NearEnd
<1>3. p \in {0, 1} /\ u \in {0, 1}
  OBVIOUS
<1>4. W("user", 0) \in Ordinary /\ W("password", 0) \in Ordinary
  BY DEF Ordinary, Plainly
<1>5. Meets(W("user", 0), G("user")) /\ Meets(W("password", 0), G("password"))
  BY Kinds DEF Meets
<1> HIDE DEF rz, dv
<1>6. ASequence(ps) /\ Onward(ps) /\ ~Finishes(ps) /\ Near(Ordinary, rz, dv, ps, gs)
  <2>1. CASE p = 0
    <3>1. ps = rz /\ gs = dv
      BY <2>1, <1>1, RepeatScript
    <3> HIDE DEF ps, gs
    <3> QED BY <3>1, <1>1, <1>2
  <2>2. CASE p = 1
    <3>1. ps = W("password", 0) & rz /\ gs = G("password") & dv
      BY <2>2, <1>1, RepeatScript
    <3> HIDE DEF ps, gs
    <3>2. ASequence(ps) /\ Onward(ps) /\ ~Finishes(ps)
      BY <3>1, <1>1, Kinds, WritesFirst
    <3>3. Near(Ordinary, rz, dv, W("password", 0) & rz, G("password") & dv)
      BY <3>1, <3>2, <1>2, <1>4, <1>5, NearStep
    <3> QED BY <3>1, <3>2, <3>3
  <2> QED BY <1>3, <2>1, <2>2
<1> HIDE DEF ps, gs
<1>7. ASequence(us) /\ Onward(us) /\ ~Finishes(us) /\ Near(Ordinary, rz, dv, us, hs)
  <2>0. ASequence(gs)
    BY <1>6, NearFacts
  <2>1. CASE u = 0
    <3>1. us = ps /\ hs = gs
      BY <2>0, <2>1, <1>6, RepeatScript
    <3> HIDE DEF us, hs
    <3> QED BY <3>1, <1>6
  <2>2. CASE u = 1
    <3>1. us = W("user", 0) & ps /\ hs = G("user") & gs
      BY <2>0, <2>2, <1>6, RepeatScript
    <3> HIDE DEF us, hs
    <3>2. ASequence(us) /\ Onward(us) /\ ~Finishes(us)
      BY <3>1, <1>6, Kinds, WritesFirst
    <3>3. Near(Ordinary, rz, dv, W("user", 0) & ps, G("user") & gs)
      BY <3>1, <3>2, <1>6, <1>4, <1>5, NearStep
    <3> QED BY <3>1, <3>2, <3>3
  <2> QED BY <1>3, <2>1, <2>2
<1>8. c = W("lengths", l) & us
  BY ZFacts, PlainScript DEF us, ps, rz
<1>9. ServerPlainMessage(l) = hs
  BY PlainMessageServed DEF hs, gs, dv
<1> HIDE DEF us, hs, l
<1>10. ASequence(W("lengths", l) & us) /\ Steady(W("lengths", l) & us) /\ ~Finishes(W("lengths", l) & us)
  BY <1>7, Kinds, WritesFirst
<1>11. /\ PlainMessage(u, p) ++ Z = W("lengths", l) & us /\ ASequence(us)
       /\ Near(Ordinary, R("result") & Z, D("verdict") & Nil, us, ServerPlainMessage(l))
       /\ ASequence(c) /\ Steady(c) /\ ~Finishes(c)
  BY <1>7, <1>8, <1>9, <1>10 DEF rz, dv
<1> QED BY <1>11 DEF l

-------------------------------------------------------------------------------
(* Before a step of another kind there is nothing, or a step of the kind. *)
LEMMA Heads ==
  ASSUME NEW op, NEW r, AllOp(r, op), NEW x, x.op # op, NEW d, ASequence(d),
         NEW b, NEW B, ASequence(B), r ++ (x & d) = b & B
  PROVE  \/ r = Nil /\ b = x /\ B = d
         \/ b.op = op /\ \E r1 : AllOp(r1, op) /\ r = b & r1 /\ B = r1 ++ (x & d)
<1>1. ASequence(x & d)
  BY ConsSequence
<1>2. CASE r = Nil
  <2>1. x & d = b & B
    BY <1>1, <1>2, JoinNil
  <2> QED BY <1>2, <2>1, ConsEqual
<1>3. CASE r # Nil
  <2>1. PICK a, q : AllOp(q, op) /\ a.op = op /\ r = a & q
    BY <1>3, AllOpCases
  <2>2. r ++ (x & d) = a & (q ++ (x & d)) /\ ASequence(q) /\ ASequence(q ++ (x & d))
    BY <1>1, <2>1, AllOpSequence, JoinCons, JoinSequence
  <2> DEFINE e == q ++ (x & d)
  <2>3. a & e = b & B /\ ASequence(e)
    BY <2>2
  <2> HIDE DEF e
  <2>4. a = b /\ B = e
    BY <2>3, ConsEqual
  <2> QED BY <2>1, <2>4 DEF e
<1> QED BY <1>2, <1>3

LEMMA HeadsNil ==
  ASSUME NEW op, NEW r, AllOp(r, op), NEW x, NEW d, ASequence(d)
  PROVE  r ++ (x & d) # Nil
<1>1. ASequence(x & d) /\ x & d # Nil
  BY ConsSequence, ConsNotNil
<1>2. CASE r = Nil
  BY <1>1, <1>2, JoinNil
<1>3. CASE r # Nil
  <2>1. PICK a, q : AllOp(q, op) /\ a.op = op /\ r = a & q
    BY <1>3, AllOpCases
  <2>2. r ++ (x & d) = a & (q ++ (x & d)) /\ ASequence(q) /\ ASequence(q ++ (x & d))
    BY <1>1, <2>1, AllOpSequence, JoinCons, JoinSequence
  <2> QED BY <2>2, ConsNotNil
<1> QED BY <1>2, <1>3

LEMMA WireDecides ==
  ASSUME NEW q, Wire(q), NEW r, AllOp(r, "send"), NEW x, x.op \notin {"send", "get"},
         NEW d, ASequence(d)
  PROVE  q # r ++ (x & d)
<1> SUFFICES ASSUME q = r ++ (x & d) PROVE FALSE
  OBVIOUS
<1>1. ASequence(q) /\ \A i \in 1 .. Len(q) : q[i].op # x.op
  BY DEF Wire
<1>2. q ++ Nil = r ++ (x & d) /\ ASequence(Nil)
  BY <1>1, JoinNil, NilSequence
<1> DEFINE e == x & d
<1>3. e = x & d
  OBVIOUS
<1>4. ASequence(e)
  BY ConsSequence
<1> HIDE DEF e
<1>5. \E r2 : AllOp(r2, "send") /\ r = q ++ r2 /\ Nil = r2 ++ e
  BY <1>1, <1>2, <1>3, <1>4, Cut
<1> QED BY <1>3, <1>5, HeadsNil

(* What joins the two: nothing in it is decided. *)
LEMMA JoinFacts ==
  ASSUME NEW x
  PROVE  Wire(ServerJoin(x)) /\ ServerJoin(x) # Nil /\ ServerJoin(x)[1] = G("clientInit")
<1> DEFINE q == S("serverInit", x) & (S("name", 0) & (G("setPixelFormat") & (G("setEncodings") & (G("updateRequest") & (G("incrementalRequest") & (G("incrementalRequest") & Nil))))))
<1>1. Wire(q) /\ ServerJoin(x) = G("clientInit") & q
  BY ServedScripts, WireNil, WireCons, Kinds
<1>2. ASequence(q)
  BY <1>1 DEF Wire
<1> HIDE DEF q
<1> QED BY <1>1, <1>2, WireCons, Kinds, ConsNotNil, ConsParts

LEMMA ResultFacts ==
  ASSUME NEW B, ResultOf(B)
  PROVE  /\ ASequence(B) /\ B # Nil
         /\ B = D("verdict") & Nil \/ (B[1].op = "send" /\ B[1].what = "result")
<1>1. \A d : ASequence(d & Nil)
  BY NilSequence, ConsSequence
<1>2. \A x : ASequence(ServerJoin(x)) /\ ASequence(ServerReason(x))
  BY ServedScripts
<1>3. ASSUME NEW v, NEW t, ASequence(t), B = S("result", v) & t
      PROVE  ASequence(B) /\ B # Nil /\ B[1].op = "send" /\ B[1].what = "result"
  BY <1>3, Kinds, ConsSequence, ConsParts, ConsNotNil
<1>4. CASE B = D("verdict") & Nil
  BY <1>1, <1>4, NilSequence, ConsNotNil
<1>5. CASE B # D("verdict") & Nil
  <2>1. \E v, t : ASequence(t) /\ B = S("result", v) & t
    BY <1>1, <1>2, <1>5 DEF ResultOf
  <2> QED BY <2>1, <1>3
<1> QED BY <1>4, <1>5
(* A script that a stretch ends with. *)
Fit(K) == ASequence(K) /\ Steady(K) /\ ~Finishes(K)

LEMMA MechanismFacts ==
  /\ ASequence(Mechanism) /\ Mechanism[1] = G("mechanism") /\ Mechanism # Nil
  /\ ASequence(G("saslData") & Nil)
<1> DEFINE m == G("saslData") & Nil
<1>1. ASequence(m)
  BY ConsSequence, NilSequence
<1>2. Mechanism = G("mechanism") & m
  BY DEF Mechanism
<1> HIDE DEF m
<1> QED BY <1>1, <1>2, ConsSequence, ConsParts, ConsNotNil DEF m

(* The scripts that an authentication begins with, by their first steps. *)
OpenCase(K, B) ==
  \/ K[1] = R("result") /\ K = R("result") & Z /\ ResultOf(B)
  \/ /\ K[1] = L("plainCredential") /\ K = L("plainCredential") & Z
     /\ B = G("lengths") & Nil /\ B[1] = G("lengths")
  \/ /\ K[1].op = "write" /\ K[1].what = "lengths" /\ B = G("lengths") & Nil /\ B[1] = G("lengths")
     /\ \E u, p \in 0 .. 1 : K = PlainMessage(u, p) ++ Z
  \/ /\ K[1] = L("saslStart") /\ K = L("saslStart") & Z /\ B = Mechanism /\ B[1] = G("mechanism")
  \/ /\ K[1] = W("mechanism", mech) /\ B = Mechanism /\ B[1] = G("mechanism")
     /\ K = W("mechanism", mech) & (SaslExchange(1) ++ Z)
     /\ Exchanged /\ sasl.calls = 0 /\ serverin = 0

LEMMA OpenFirst ==
  ASSUME NEW K, NEW B, OpenGoal(K, B)
  PROVE  /\ Fit(K) /\ ASequence(B) /\ B # Nil /\ OpenCase(K, B)
         /\ (B[1].op = "send" /\ K[1].op = "read" /\ B[1].what = K[1].what) \/ B[1].op # "send"
<1>1. \A a : a.op \notin {"write", "ready"} => Fit(a & Z) /\ (a & Z)[1] = a
  BY ZFacts, BeginsWith DEF Fit
<1>2. ASequence(G("lengths") & Nil) /\ G("lengths") & Nil # Nil /\ (G("lengths") & Nil)[1] = G("lengths")
  BY NilSequence, ConsSequence, ConsParts, ConsNotNil
<1>3. CASE K = R("result") & Z /\ ResultOf(B)
  <2>1. Fit(K) /\ K[1] = R("result")
    BY <1>1, <1>3, Kinds
  <2>2. ASequence(B) /\ B # Nil /\ (B = D("verdict") & Nil \/ (B[1].op = "send" /\ B[1].what = "result"))
    BY <1>3, ResultFacts
  <2>3. B = D("verdict") & Nil => B[1].op = "decide"
    BY NilSequence, ConsParts, Kinds
  <2>4. (B[1].op = "send" /\ K[1].op = "read" /\ B[1].what = K[1].what) \/ B[1].op # "send"
    BY <2>1, <2>2, <2>3, Kinds
  <2> QED BY <1>3, <2>1, <2>2, <2>4 DEF OpenCase
<1>4. CASE K = L("plainCredential") & Z /\ B = G("lengths") & Nil
  <2>1. Fit(K) /\ K[1] = L("plainCredential")
    BY <1>1, <1>4, Kinds
  <2> QED BY <1>2, <1>4, <2>1, Kinds DEF OpenCase
<1>5. CASE B = G("lengths") & Nil /\ \E u, p \in 0 .. 1 : K = PlainMessage(u, p) ++ Z
  <2>1. PICK u \in 0 .. 1, p \in 0 .. 1 : K = PlainMessage(u, p) ++ Z
    BY <1>5
  <2> DEFINE l == <<u, p>>
  <2>2. PICK x : K = W("lengths", l) & x /\ ASequence(x) /\ Fit(K)
    BY <2>1, PlainFacts DEF Fit
  <2> HIDE DEF l
  <2>3. K[1] = W("lengths", l)
    BY <2>2, ConsParts
  <2>4. K[1].op = "write" /\ K[1].what = "lengths"
    BY <2>3, Kinds
  <2>5. B[1].op # "send" /\ B # Nil /\ ASequence(B) /\ B[1] = G("lengths")
    BY <1>2, <1>5, Kinds
  <2>6. OpenCase(K, B)
    BY <1>5, <2>4, <2>5 DEF OpenCase
  <2> QED BY <2>2, <2>5, <2>6
<1>6. CASE K = L("saslStart") & Z /\ B = Mechanism
  <2>1. Fit(K) /\ K[1] = L("saslStart")
    BY <1>1, <1>6, Kinds
  <2> QED BY <1>6, <2>1, MechanismFacts, Kinds DEF OpenCase
<1>7. CASE /\ Exchanged /\ sasl.calls = 0 /\ serverin = 0
           /\ K = W("mechanism", mech) & (SaslExchange(1) ++ Z) /\ B = Mechanism
  <2> DEFINE x == SaslExchange(1) ++ Z
  <2>1. ASequence(x) /\ Onward(x) /\ ~Finishes(x) /\ K = W("mechanism", mech) & x
    BY <1>7, ExchangeFacts
  <2> HIDE DEF x
  <2>2. Fit(K) /\ K[1] = W("mechanism", mech)
    BY <2>1, WritesFirst, Kinds DEF Fit
  <2> QED BY <1>7, <2>2, MechanismFacts, Kinds DEF OpenCase
<1> QED BY <1>3, <1>4, <1>5, <1>6, <1>7 DEF OpenGoal

LEMMA OfferFacts ==
  ASSUME NEW B, Offer(B)
  PROVE  /\ ASequence(B) /\ B # Nil /\ B[1].op = "send" /\ B[1].what = "count"
         /\ \/ B = S("count", 0) & (D("reason") & Nil)
            \/ \E size \in Sizes : B = S("count", 0) & ServerReason(size)
            \/ \E list \in Lists \cup SubLists :
                 /\ list # Nil /\ Len(list) \in Nat \ {0}
                 /\ B = S("count", Len(list)) & (Entries("type", list) ++ (G("choice") & Nil))
<1>1. ASSUME NEW v, NEW t, ASequence(t), B = S("count", v) & t
      PROVE  ASequence(B) /\ B # Nil /\ B[1].op = "send" /\ B[1].what = "count"
  BY <1>1, Kinds, ConsSequence, ConsParts, ConsNotNil
<1>2. \A list \in Lists \cup SubLists :
         list # Nil => /\ Len(list) \in Nat \ {0} /\ ASequence(Entries("type", list) ++ (G("choice") & Nil))
                       /\ ServerList("count", "type", "choice", list) = S("count", Len(list)) & (Entries("type", list) ++ (G("choice") & Nil))
  <2> TAKE list \in Lists \cup SubLists
  <2> HAVE list # Nil
  <2>1. ASequence(list)
    BY SessionAssumption DEF ASequence
  <2>2. Len(list) \in Nat \ {0}
    BY <2>1, Decompose DEF Nil
  <2>3. ASequence(Entries("type", list)) /\ ASequence(G("choice") & Nil)
    BY <2>2, ListServed, ConsSequence, NilSequence
  <2> QED BY <2>2, <2>3, ListServed, JoinSequence
<1>3. ASequence(D("reason") & Nil) /\ \A size : ASequence(ServerReason(size))
  BY ServedScripts, ConsSequence, NilSequence
<1>4. \E v, t : ASequence(t) /\ B = S("count", v) & t
  BY <1>2, <1>3 DEF Offer
<1>5. ASequence(B) /\ B # Nil /\ B[1].op = "send" /\ B[1].what = "count"
  BY <1>1, <1>4
<1> QED BY <1>2, <1>5 DEF Offer

LEMMA VeOfferFacts ==
  ASSUME NEW B, VeOffer(B)
  PROVE  /\ ASequence(B) /\ B # Nil /\ B[1].op = "send" /\ B[1].what = "veCount"
         /\ \/ B = S("veCount", 0) & (D("close") & Nil)
            \/ \E list \in VeNCryptLists :
                 /\ list # Nil /\ Len(list) \in Nat \ {0}
                 /\ B = S("veCount", Len(list)) & (Entries("veType", list) ++ (G("veChoice") & Nil))
<1>1. ASSUME NEW v, NEW t, ASequence(t), B = S("veCount", v) & t
      PROVE  ASequence(B) /\ B # Nil /\ B[1].op = "send" /\ B[1].what = "veCount"
  BY <1>1, Kinds, ConsSequence, ConsParts, ConsNotNil
<1>2. \A list \in VeNCryptLists :
         list # Nil => /\ Len(list) \in Nat \ {0} /\ ASequence(Entries("veType", list) ++ (G("veChoice") & Nil))
                       /\ ServerList("veCount", "veType", "veChoice", list) = S("veCount", Len(list)) & (Entries("veType", list) ++ (G("veChoice") & Nil))
  <2> TAKE list \in VeNCryptLists
  <2> HAVE list # Nil
  <2>1. ASequence(list)
    BY SessionAssumption DEF ASequence
  <2>2. Len(list) \in Nat \ {0}
    BY <2>1, Decompose DEF Nil
  <2>3. ASequence(Entries("veType", list)) /\ ASequence(G("veChoice") & Nil)
    BY <2>2, ListServed, ConsSequence, NilSequence
  <2> QED BY <2>2, <2>3, ListServed, JoinSequence
<1>3. ASequence(D("close") & Nil)
  BY ConsSequence, NilSequence
<1>4. \E v, t : ASequence(t) /\ B = S("veCount", v) & t
  BY <1>2, <1>3 DEF VeOffer
<1>5. ASequence(B) /\ B # Nil /\ B[1].op = "send" /\ B[1].what = "veCount"
  BY <1>1, <1>4
<1> QED BY <1>2, <1>5 DEF VeOffer

LEMMA OpeningFacts ==
  ASSUME NEW c, NEW s, Opening(c, s)
  PROVE  ASequence(c) /\ ASequence(s) /\ ~Finishes(c)
<1> PICK K, B : OpenGoal(K, B) /\ Near(Ordinary, K, B, c, s)
  BY DEF Opening
<1> QED BY OpenFirst, NearFacts DEF Fit

LEMMA WaitingFacts ==
  ASSUME NEW tk, NEW c, NEW s, Waiting(tk, c, s)
  PROVE  /\ ASequence(c) /\ ASequence(s) /\ ~Finishes(c)
         /\ ASequence(Finish(s)) /\ ASequence(Hello(Finish(s))) /\ ASequence(D("tls") & s)
         /\ Hello(Finish(s)) # Nil /\ Hello(Finish(s))[1] = G("hello")
         /\ Finish(s)[1] = S("finished", 0) /\ ASequence(F & c)
<1>1. ASequence(c) /\ ASequence(s) /\ ~Finishes(c)
  <2>1. CASE tk = OnlyTLS /\ c = R("count") & Z /\ s = Nil
    BY <2>1, ZFacts, BeginsWith, Kinds, NilSequence
  <2>2. CASE Opening(c, s)
    BY <2>2, OpeningFacts
  <2> QED BY <2>1, <2>2 DEF Waiting
<1> DEFINE f == Finish(s)
           e == D("tls") & s
<1>2. ASequence(e) /\ f = S("finished", 0) & e /\ ASequence(F & c)
  BY <1>1, ConsSequence DEF Finish
<1> HIDE DEF e
<1>3. ASequence(f) /\ f[1] = S("finished", 0)
  BY <1>2, ConsSequence, ConsParts
<1> HIDE DEF f
<1>4. Hello(f) = G("hello") & f
  BY DEF Hello
<1>5. ASequence(Hello(f)) /\ Hello(f) # Nil /\ Hello(f)[1] = G("hello")
  BY <1>3, <1>4, ConsSequence, ConsParts, ConsNotNil
<1> QED BY <1>1, <1>2, <1>3, <1>5 DEF e, f
VeAnswer(B) ==
  \/ B = D("veVersion") & Nil
  \/ \E s : B = S("veStatus", 0) & s /\ VeOffer(s)
  \/ B = S("veStatus", 1) & (D("close") & Nil)
VeCase(K, B) ==
  \/ /\ K[1] = R("veVersion") /\ K = R("veVersion") & Z
     /\ B = D("veAnnounce") & Nil \/ \E v \in VeVersions : B = ServerVeNCrypt(v)
  \/ K[1] = R("veStatus") /\ K = R("veStatus") & (R("veCount") & Z) /\ VeAnswer(B)
  \/ K[1] = R("veCount") /\ K = R("veCount") & Z /\ VeOffer(B)
EarlyCase(tk, K, B) ==
  \/ /\ K[1] = R("reasonLength") /\ B = D("reason") & Nil
     /\ \E X : ASequence(X) /\ K = ReadReason ++ X
  \/ K[1].op = "stop" /\ Ends(K) /\ (B = D("close") & Nil \/ \E c : Opening(c, B))
  \/ tk # Nil /\ OpenCase(K, B) /\ OpenGoal(K, B)
  \/ tk # Nil /\ K[1] = W("clientInit", 0) /\ K = Z /\ B = D("admit") & Nil
  \/ tk # Nil /\ K[1] = L("tls") /\ B[1] = G("hello") /\ Hail(tk, K, B)
  \/ tk = OnlyVe /\ Fresh /\ VeCase(K, B)
  \/ /\ tk = OnlyTLS \/ (tk = Nil /\ Fresh /\ Listed(version))
     /\ K[1] = R("count") /\ K = R("count") & Z /\ Offer(B)
Aligned(K, B) ==
  B[1].op = "send" =>
    K[1].op = "stop" \/ (K[1].op = "read" /\ K[1].what = B[1].what)

LEMMA EndsFacts ==
  ASSUME NEW K, Ends(K)
  PROVE  Fit(K) /\ K[1].op = "stop"
<1>1. \E why, q : ASequence(q) /\ K = GiveUp(why) & q
  BY DEF Ends
<1> PICK why, q : ASequence(q) /\ K = GiveUp(why) & q
  BY <1>1
<1> QED BY BeginsWith, Kinds DEF Fit

LEMMA VeFirst ==
  ASSUME NEW tk, NEW K, NEW B, VeGoal(tk, K, B)
  PROVE  /\ Fit(K) /\ ASequence(B) /\ tk = OnlyVe /\ Fresh /\ VeCase(K, B) /\ Aligned(K, B)
<1>0. tk = OnlyVe /\ Fresh
  BY DEF VeGoal
<1>1. \A w, x : ASequence(x) => Fit(R(w) & x) /\ (R(w) & x)[1] = R(w)
  BY Kinds, BeginsWith DEF Fit
<1>2. \A w : ASequence(D(w) & Nil) /\ (D(w) & Nil)[1] = D(w)
  BY NilSequence, ConsSequence, ConsParts
<1>3. ASequence(Z)
  BY ZFacts
<1>4. CASE /\ K = R("veVersion") & Z
           /\ B = D("veAnnounce") & Nil \/ \E v \in VeVersions : B = ServerVeNCrypt(v)
  <2>1. Fit(K) /\ K[1] = R("veVersion")
    BY <1>1, <1>3, <1>4
  <2>2. CASE B = D("veAnnounce") & Nil
    BY <1>0, <1>2, <2>1, <2>2, <1>4, Kinds DEF VeCase, Aligned
  <2>3. ASSUME NEW v \in VeVersions, B = ServerVeNCrypt(v) PROVE ASequence(B) /\ B[1] = S("veVersion", v)
    <3> DEFINE x == G("veVersion") & (D("veVersion") & Nil)
    <3>1. ASequence(x)
      BY ConsSequence, NilSequence
    <3>2. B = S("veVersion", v) & x
      BY <2>3, ServedScripts
    <3> HIDE DEF x
    <3> QED BY <3>1, <3>2, ConsParts, ConsSequence
  <2> QED BY <1>0, <1>4, <2>1, <2>2, <2>3, Kinds DEF VeCase, Aligned
<1>5. CASE K = R("veStatus") & (R("veCount") & Z) /\ VeAnswer(B)
  <2>1. Fit(K) /\ K[1] = R("veStatus")
    BY <1>1, <1>3, <1>5, ConsSequence
  <2>2. CASE B = D("veVersion") & Nil
    BY <1>0, <1>2, <2>1, <2>2, <1>5, Kinds DEF VeCase, Aligned
  <2>3. ASSUME NEW v, NEW t, ASequence(t), B = S("veStatus", v) & t PROVE ASequence(B) /\ B[1].what = "veStatus"
    BY <2>3, ConsParts, ConsSequence, Kinds
  <2>4. CASE \E s : B = S("veStatus", 0) & s /\ VeOffer(s)
    <3>1. ASequence(B) /\ B[1].what = "veStatus"
      BY <2>3, <2>4, VeOfferFacts
    <3> QED BY <1>0, <1>5, <2>1, <3>1, Kinds DEF VeCase, Aligned
  <2>5. CASE B = S("veStatus", 1) & (D("close") & Nil)
    <3>1. ASequence(B) /\ B[1].what = "veStatus"
      BY <1>2, <2>3, <2>5
    <3> QED BY <1>0, <1>5, <2>1, <3>1, Kinds DEF VeCase, Aligned
  <2> QED BY <1>5, <2>2, <2>4, <2>5 DEF VeAnswer
<1>6. CASE K = R("veCount") & Z /\ VeOffer(B)
  <2>1. Fit(K) /\ K[1] = R("veCount")
    BY <1>1, <1>3, <1>6
  <2>2. ASequence(B) /\ B[1].what = "veCount"
    BY <1>6, VeOfferFacts
  <2> QED BY <1>0, <1>6, <2>1, <2>2, Kinds DEF VeCase, Aligned
<1> QED BY <1>4, <1>5, <1>6 DEF VeGoal, VeAnswer

(* The goals of a stretch, by the first step of the client. *)
LEMMA EarlyFirst ==
  ASSUME NEW tk, NEW K, NEW B, EarlyGoal(tk, K, B)
  PROVE  Fit(K) /\ ASequence(B) /\ EarlyCase(tk, K, B) /\ Aligned(K, B)
<1>1. \A w, x : ASequence(x) => Fit(R(w) & x) /\ (R(w) & x)[1] = R(w)
  BY Kinds, BeginsWith DEF Fit
<1>2. \A w : ASequence(D(w) & Nil) /\ (D(w) & Nil)[1] = D(w)
  BY NilSequence, ConsSequence, ConsParts
<1>3. CASE \E X : ASequence(X) /\ K = ReadReason ++ X /\ B = D("reason") & Nil
  <2>1. PICK X : ASequence(X) /\ K = ReadReason ++ X /\ B = D("reason") & Nil
    BY <1>3
  <2> DEFINE x == R("reason") & (GiveUp("refused") & X)
  <2>2. K = R("reasonLength") & x /\ ASequence(x)
    BY <2>1, ReasonScript, ConsSequence
  <2> HIDE DEF x
  <2>3. Fit(K) /\ K[1] = R("reasonLength")
    BY <2>2, <1>1
  <2> QED BY <2>1, <2>3, <1>2, Kinds DEF EarlyCase, Aligned
<1>4. CASE Ends(K) /\ (B = D("close") & Nil \/ \E c : Opening(c, B))
  <2>1. Fit(K) /\ K[1].op = "stop"
    BY <1>4, EndsFacts
  <2>2. ASequence(B)
    BY <1>2, <1>4, OpeningFacts
  <2> QED BY <1>4, <2>1, <2>2 DEF EarlyCase, Aligned
<1>5. CASE tk # Nil /\ OpenGoal(K, B)
  BY <1>5, OpenFirst DEF EarlyCase, Aligned
<1>6. CASE tk # Nil /\ K = Z /\ B = D("admit") & Nil
  <2>1. Fit(K) /\ K[1] = W("clientInit", 0)
    <3>1. PICK z : ASequence(z) /\ Z = W("clientInit", 0) & (R("serverInit") & z)
      BY ZFacts
    <3> QED BY <1>6, <3>1, ZFacts, ConsSequence, ConsParts DEF Fit
  <2> QED BY <1>2, <1>6, <2>1, Kinds DEF EarlyCase, Aligned
<1>7. CASE tk # Nil /\ Hail(tk, K, B)
  <2>1. PICK c, s : Waiting(tk, c, s) /\ K = L("tls") & c /\ B = Hello(Finish(s))
    BY <1>7 DEF Hail
  <2>2. ASequence(c) /\ ASequence(B) /\ B[1] = G("hello")
    BY <2>1, WaitingFacts
  <2>3. Fit(K) /\ K[1] = L("tls")
    BY <2>1, <2>2, BeginsWith, Kinds DEF Fit
  <2> QED BY <1>7, <2>2, <2>3, Kinds DEF EarlyCase, Aligned
<1>8. CASE VeGoal(tk, K, B)
  BY <1>8, VeFirst DEF EarlyCase
<1>9. CASE /\ tk = OnlyTLS \/ (tk = Nil /\ Fresh /\ Listed(version))
           /\ K = R("count") & Z /\ Offer(B)
  <2>1. Fit(K) /\ K[1] = R("count")
    BY <1>1, <1>9, ZFacts
  <2>2. ASequence(B) /\ B[1].what = "count"
    BY <1>9, OfferFacts
  <2> QED BY <1>9, <2>1, <2>2, Kinds DEF EarlyCase, Aligned
<1> QED BY <1>3, <1>4, <1>5, <1>6, <1>7, <1>8, <1>9 DEF EarlyGoal, Refusal

(* SASL, by the first step of the client. *)
LEMMA VerdictFacts ==
  ASSUME NEW s, SaslVerdict(s)
  PROVE  /\ ASequence(s) /\ s # Nil
         /\ (s[1].op = "send" /\ s[1].what = "saslResult") \/ s = D("saslVerdict") & Nil
<1> DEFINE j == ServerJoin("fits")
           l == D("saslLayer") & j
           n == D("close") & Nil
<1>1. ASequence(j) /\ ASequence(l) /\ ASequence(n)
  BY ServedScripts, ConsSequence, NilSequence
<1>2. \/ s = D("saslVerdict") & Nil \/ s = S("saslResult", "ok") & l
      \/ s = S("saslResult", "ok") & j \/ s = S("saslResult", "failed") & n
  BY DEF SaslVerdict
<1> HIDE DEF j, l, n
<1>3. ASSUME NEW v, NEW t, ASequence(t), s = S("saslResult", v) & t
      PROVE  ASequence(s) /\ s # Nil /\ s[1].op = "send" /\ s[1].what = "saslResult"
  BY <1>3, Kinds, ConsSequence, ConsParts, ConsNotNil
<1>4. ASequence(D("saslVerdict") & Nil) /\ D("saslVerdict") & Nil # Nil
  BY NilSequence, ConsSequence, ConsNotNil
<1> QED BY <1>1, <1>2, <1>3, <1>4

LEMMA GoesOnFacts ==
  ASSUME NEW s, SaslGoesOn(s)
  PROVE  /\ ASequence(s) /\ s # Nil
         /\ \/ s[1].op = "send" /\ s[1].what = "saslResult"
            \/ s = D("saslVerdict") & Nil
            \/ s = G("saslData") & Nil
<1>1. ASequence(G("saslData") & Nil) /\ G("saslData") & Nil # Nil
  BY NilSequence, ConsSequence, ConsNotNil
<1> QED BY <1>1, VerdictFacts DEF SaslGoesOn

SaslCase(c, s) ==
  \/ c[1].op = "write" /\ c[1].what = "saslData" /\ s[1] = G("saslData") /\ SaslWaits(c, s)
  \/ c[1] = R("saslData") /\ s[1].op = "send" /\ s[1].what = "saslData" /\ SaslReplied(c, s)
  \/ c[1] = R("saslComplete") /\ s[1].op = "send" /\ s[1].what = "saslComplete" /\ SaslHalf(c, s)
  \/ c[1] = L("saslStep") /\ SaslAsks(c, s)
  \/ c[1] = L("saslStrength") /\ SaslClosing(c, s)
  \/ /\ c[1] = R("saslResult") /\ SaslClosing(c, s) /\ c = R("saslResult") & Z
     /\ (s[1].op = "send" /\ s[1].what = "saslResult") \/ s = D("saslVerdict") & Nil
  \/ c[1] = W("clientInit", 0) /\ c = Z /\ s[1] = D("saslLayer") /\ SaslSecured(c, s)

LEMMA SaslFirst ==
  ASSUME NEW c, NEW s, SaslTalk(c, s)
  PROVE  Fit(c) /\ ASequence(s) /\ s # Nil /\ c # Nil /\ SaslCase(c, s)
<1>1. \A w, x : ASequence(x) => Fit(R(w) & x) /\ (R(w) & x)[1] = R(w) /\ R(w) & x # Nil
  BY Kinds, BeginsWith, ConsNotNil DEF Fit
<1>2. \A w, x : ASequence(x) => Fit(L(w) & x) /\ (L(w) & x)[1] = L(w) /\ L(w) & x # Nil
  BY Kinds, BeginsWith, ConsNotNil DEF Fit
<1>3. ASequence(Z) /\ \A w : ASequence(R(w) & Z)
  BY ZFacts, ConsSequence
<1>4. CASE SaslWaits(c, s)
  <2>1. PICK m : c = SaslExchange(m) ++ Z
    BY <1>4 DEF SaslWaits
  <2> DEFINE x == R("saslData") & (R("saslComplete") & Z)
  <2>2. c = W("saslData", m) & x /\ Fit(c) /\ ASequence(x)
    BY <2>1, ExchangeFacts, <1>3, ConsSequence DEF Fit
  <2> HIDE DEF x
  <2>3. c[1].op = "write" /\ c[1].what = "saslData" /\ c # Nil
    BY <2>2, ConsParts, ConsNotNil, Kinds
  <2>4. ASequence(s) /\ s # Nil /\ s[1] = G("saslData")
    BY <1>4, NilSequence, ConsSequence, ConsNotNil, ConsParts DEF SaslWaits
  <2> QED BY <1>4, <2>2, <2>3, <2>4 DEF SaslCase
<1>5. CASE SaslReplied(c, s)
  <2>1. Fit(c) /\ c[1] = R("saslData") /\ c # Nil
    BY <1>1, <1>3, <1>5 DEF SaslReplied
  <2>2. PICK data, s1 : s = S("saslData", data) & (S("saslComplete", Through) & s1) /\ SaslGoesOn(s1)
    BY <1>5 DEF SaslReplied
  <2> DEFINE x == S("saslComplete", Through) & s1
  <2>3. ASequence(x) /\ s = S("saslData", data) & x
    BY <2>2, GoesOnFacts, ConsSequence
  <2> HIDE DEF x
  <2>4. ASequence(s) /\ s # Nil /\ s[1] = S("saslData", data)
    BY <2>3, ConsSequence, ConsNotNil, ConsParts
  <2>5. s[1].op = "send" /\ s[1].what = "saslData"
    BY <2>4, Kinds
  <2> QED BY <1>5, <2>1, <2>4, <2>5 DEF SaslCase
<1>6. CASE SaslHalf(c, s)
  <2>1. Fit(c) /\ c[1] = R("saslComplete") /\ c # Nil
    BY <1>1, <1>3, <1>6 DEF SaslHalf
  <2>2. PICK s1 : s = S("saslComplete", Through) & s1 /\ SaslGoesOn(s1)
    BY <1>6 DEF SaslHalf
  <2>3. ASequence(s) /\ s # Nil /\ s[1] = S("saslComplete", Through)
    BY <2>2, GoesOnFacts, ConsSequence, ConsNotNil, ConsParts
  <2>5. s[1].op = "send" /\ s[1].what = "saslComplete"
    BY <2>3, Kinds
  <2> QED BY <1>6, <2>1, <2>3, <2>5 DEF SaslCase
<1>7. CASE SaslAsks(c, s)
  <2>1. Fit(c) /\ c[1] = L("saslStep") /\ c # Nil
    BY <1>2, <1>3, <1>7 DEF SaslAsks
  <2>2. ASequence(s) /\ s # Nil
    BY <1>7, GoesOnFacts DEF SaslAsks
  <2> QED BY <1>7, <2>1, <2>2 DEF SaslCase
<1>8. CASE SaslClosing(c, s)
  <2>1. /\ ASequence(s) /\ s # Nil
        /\ (s[1].op = "send" /\ s[1].what = "saslResult") \/ s = D("saslVerdict") & Nil
    BY <1>8, VerdictFacts DEF SaslClosing
  <2>2. CASE c = L("saslStrength") & (R("saslResult") & Z)
    BY <1>2, <1>3, <1>8, <2>1, <2>2 DEF SaslCase
  <2>3. CASE c = R("saslResult") & Z
    BY <1>1, <1>3, <1>8, <2>1, <2>3 DEF SaslCase
  <2> QED BY <1>8, <2>2, <2>3 DEF SaslClosing
<1>9. CASE SaslSecured(c, s)
  <2>1. PICK z : ASequence(z) /\ Z = W("clientInit", 0) & (R("serverInit") & z)
    BY ZFacts
  <2>2. c = Z /\ Fit(c) /\ c[1] = W("clientInit", 0) /\ c # Nil
    BY <1>9, <2>1, ZFacts, ConsSequence, ConsParts, ConsNotNil DEF Fit, SaslSecured
  <2>3. ASequence(s) /\ s # Nil /\ s[1] = D("saslLayer")
    BY <1>9, ServedScripts, ConsSequence, ConsParts, ConsNotNil DEF SaslSecured
  <2> QED BY <1>9, <2>2, <2>3 DEF SaslCase
<1> QED BY <1>4, <1>5, <1>6, <1>7, <1>8, <1>9 DEF SaslTalk

LEMMA EarlyFacts ==
  ASSUME NEW tk, NEW c, NEW s, Early(tk, c, s)
  PROVE  ASequence(c) /\ ASequence(s) /\ ~Finishes(c)
<1>1. CASE \E K, B : EarlyGoal(tk, K, B) /\ Near(Ordinary, K, B, c, s)
  BY <1>1, EarlyFirst, NearFacts DEF Fit
<1>2. CASE Shake(tk, c, s)
  <2>1. PICK c1, s1 : /\ Waiting(tk, c1, s1)
                      /\ \/ c = W("hello", 0) & (F & c1) /\ s = Hello(Finish(s1))
                         \/ c = F & c1 /\ s = Finish(s1)
    BY <1>2 DEF Shake
  <2> DEFINE f == F & c1
  <2>2. /\ ASequence(c1) /\ ASequence(Hello(Finish(s1))) /\ ASequence(Finish(s1))
        /\ ASequence(f) /\ ~Finishes(f)
    BY <2>1, WaitingFacts, BeginsWith, Lasts
  <2> HIDE DEF f
  <2>3. W("hello", 0) # Ready /\ W("hello", 0).op = "write"
    BY Kinds, Lasts
  <2>4. ASequence(W("hello", 0) & f) /\ ~Finishes(W("hello", 0) & f)
    BY <2>2, <2>3, FinishesCons, ConsSequence
  <2> QED BY <2>1, <2>2, <2>4 DEF f
<1> QED BY <1>1, <1>2 DEF Early

LEMMA InsideFacts ==
  ASSUME NEW tk, NEW c, NEW s, Inside(tk, c, s)
  PROVE  ASequence(c) /\ ASequence(s) /\ ~Finishes(c)
<1>1. CASE c = R("count") & Z /\ Offer(s)
  BY <1>1, ZFacts, BeginsWith, Kinds, OfferFacts
<1>2. CASE Opening(c, s)
  BY <1>2, OpeningFacts
<1> QED BY <1>1, <1>2 DEF Inside

LEMMA TalkFacts ==
  ASSUME NEW tk, NEW c, NEW s, Talk(tk, c, s)
  PROVE  ASequence(c) /\ ASequence(s) /\ (Finishes(c) => tk # Nil /\ Joining(c, s))
<1>1. CASE Early(tk, c, s)
  BY <1>1, EarlyFacts
<1>2. CASE tk # Nil /\ Joining(c, s)
  BY <1>2, NearFacts DEF Joining
<1>3. CASE SaslTalk(c, s)
  BY <1>3, SaslFirst DEF Fit
<1>4. CASE Lead(tk, c, s)
  <2>1. PICK c1, s1 : Inside(tk, c1, s1) /\ c = F & c1 /\ s = S("finished", 0) & s1
    BY <1>4 DEF Lead
  <2> QED BY <2>1, InsideFacts, BeginsWith, ConsSequence, Lasts
<1>5. CASE Lag(tk, c, s)
  BY <1>5, WaitingFacts DEF Lag
<1> QED BY <1>1, <1>2, <1>3, <1>4, <1>5 DEF Talk

-------------------------------------------------------------------------------
(* What the client reads is what the server has sent. *)
LEMMA NextIs ==
  ASSUME NEW p, AllOp(p, "write"), NEW a, NEW t, ASequence(t),
         NEW x, NEW c, ASequence(c), p ++ (a & t) = x & c, a.op # "write", x.op # "write"
  PROVE  p = Nil /\ a = x /\ t = c
BY Heads

LEMMA NotWritten ==
  ASSUME NEW p, AllOp(p, "write"), NEW a, NEW t, ASequence(t), a.op # "write",
         NEW K, ASequence(K), p ++ (a & t) = K, K[1].op # "write"
  PROVE  p = Nil /\ a = K[1] /\ K = a & t
<1>1. ASequence(a & t)
  BY ConsSequence
<1>2. CASE p = Nil
  BY <1>1, <1>2, JoinNil, ConsParts
<1>3. CASE p # Nil
  <2>1. PICK b, q : AllOp(q, "write") /\ b.op = "write" /\ p = b & q
    BY <1>3, AllOpCases
  <2> DEFINE e == q ++ (a & t)
  <2>2. p ++ (a & t) = b & e /\ ASequence(e)
    BY <1>1, <2>1, AllOpSequence, JoinCons, JoinSequence
  <2> HIDE DEF e
  <2>3. K[1] = b
    BY <2>2, ConsParts
  <2> QED BY <2>1, <2>3
<1> QED BY <1>2, <1>3

LEMMA EarlyReads ==
  ASSUME NEW tk, NEW p, AllOp(p, "write"), NEW w, NEW t, ASequence(t),
         NEW b, b.op = "send", NEW s, ASequence(s), Early(tk, p ++ (R(w) & t), b & s)
  PROVE  /\ p = Nil /\ b.what = w /\ Calm
         /\ \/ w \in Data \cup Lengths /\ Early(tk, t, s)
            \/ EarlyCase(tk, R(w) & t, b & s) /\ w \notin Data \cup Lengths
<1> DEFINE a == R(w)
           c == p ++ (a & t)
           y == b & s
<1>0. a.op = "read" /\ a.what = w /\ ASequence(y) /\ y[1] = b /\ ASequence(a & t) /\ ASequence(c)
  BY Kinds, ConsSequence, ConsParts, AllOpSequence, JoinSequence
<1>1. CASE Shake(tk, c, y)
  <2>1. PICK c1, s1 : /\ Waiting(tk, c1, s1)
                      /\ \/ c = W("hello", 0) & (F & c1) /\ y = Hello(Finish(s1))
                         \/ c = F & c1 /\ y = Finish(s1)
    BY <1>1 DEF Shake
  <2>2. ASequence(c1) /\ Hello(Finish(s1))[1] = G("hello")
    BY <2>1, WaitingFacts
  <2>3. y # Hello(Finish(s1))
    BY <1>0, <2>2, Kinds
  <2>4. c = F & c1
    BY <2>1, <2>3
  <2>5. a = F
    BY <1>0, <2>2, <2>4, NextIs, Lasts
  <2> QED BY <1>0, <2>5, Lasts
<1>2. CASE Calm /\ \E K, B : EarlyGoal(tk, K, B) /\ Near(Ordinary, K, B, c, y)
  <2>1. PICK K, B : EarlyGoal(tk, K, B) /\ Near(Ordinary, K, B, c, y)
    BY <1>2
  <2>2. \/ c = K /\ y = B
        \/ p = Nil /\ a \in Ordinary /\ a.what = b.what /\ Near(Ordinary, K, B, t, s)
    BY <2>1, <1>0, NearReads
  <2>3. CASE p = Nil /\ a \in Ordinary /\ a.what = b.what /\ Near(Ordinary, K, B, t, s)
    <3>1. w \in Data \cup Lengths
      <4>1. PICK x \in Ordinary : x = a
        BY <2>3
      <4>2. CASE \E what \in Data \cup Lengths : x = R(what)
        BY <4>1, <4>2, <1>0, Kinds
      <4>3. CASE \E what : x = W(what, 0)
        BY <4>1, <4>3, <1>0, Kinds
      <4>4. CASE \E what : x = L(what)
        BY <4>1, <4>4, <1>0, Kinds
      <4> QED BY <4>2, <4>3, <4>4 DEF Ordinary
    <3>2. Early(tk, t, s)
      BY <1>2, <2>1, <2>3 DEF Early
    <3> QED BY <1>0, <1>2, <2>3, <3>1, <3>2
  <2>4. CASE c = K /\ y = B
    <3>1. Fit(K) /\ ASequence(B) /\ EarlyCase(tk, K, B) /\ Aligned(K, B)
      BY <2>1, EarlyFirst
    <3>2. B[1].op = "send" /\ K[1].op \in {"stop", "read"} /\ (K[1].op = "read" => K[1].what = b.what)
      BY <1>0, <2>4, <3>1 DEF Aligned
    <3>3. p = Nil /\ a = K[1] /\ K = a & t
      BY <1>0, <2>4, <3>1, <3>2, NotWritten DEF Fit
    <3>4. w \notin Data \cup Lengths
      <4>1. w = "reasonLength" => B = D("reason") & Nil
        BY <3>1, <3>3, <1>0, Kinds DEF EarlyCase, OpenCase, VeCase
      <4>2. (D("reason") & Nil)[1].op # "send"
        BY NilSequence, ConsParts, Kinds
      <4>3. w \in {"reasonLength", "result", "veVersion", "veStatus", "veCount", "count"}
        BY <3>1, <3>3, <1>0, Kinds DEF EarlyCase, OpenCase, VeCase
      <4> QED BY <3>2, <4>1, <4>2, <4>3 DEF Data, Lengths
    <3> QED BY <1>0, <1>2, <2>4, <3>1, <3>2, <3>3, <3>4
  <2> QED BY <2>2, <2>3, <2>4
<1> QED BY <1>1, <1>2 DEF Early

LEMMA TalkReads ==
  ASSUME NEW tk, NEW p, AllOp(p, "write"), NEW w, NEW t, ASequence(t),
         NEW b, b.op = "send", NEW s, ASequence(s), Talk(tk, p ++ (R(w) & t), b & s)
  PROVE  /\ p = Nil /\ b.what = w
         /\ \/ w \in Data \cup Lengths /\ Talk(tk, t, s)
            \/ w = "result" /\ tk # Nil /\ Calm /\ t = Z /\ ResultOf(b & s)
            \/ w \in {"veVersion", "veStatus", "veCount"} /\ tk = OnlyVe /\ Fresh /\ Calm /\ VeCase(R(w) & t, b & s)
            \/ /\ w = "count" /\ Calm /\ t = Z /\ Offer(b & s)
               /\ tk = OnlyTLS \/ (tk = Nil /\ Fresh /\ Listed(version))
            \/ w = "saslData" /\ tk # Nil /\ SaslReplied(R(w) & t, b & s)
            \/ w = "saslComplete" /\ tk # Nil /\ SaslHalf(R(w) & t, b & s)
            \/ w = "saslResult" /\ tk # Nil /\ SaslClosing(R(w) & t, b & s) /\ t = Z
<1> DEFINE a == R(w)
           c == p ++ (a & t)
           y == b & s
<1>0. a.op = "read" /\ a.what = w /\ ASequence(y) /\ y[1] = b /\ ASequence(a & t) /\ ASequence(c)
  BY Kinds, ConsSequence, ConsParts, AllOpSequence, JoinSequence
<1>1. CASE Early(tk, c, y)
  <2>1. /\ p = Nil /\ b.what = w /\ Calm
        /\ \/ w \in Data \cup Lengths /\ Early(tk, t, s)
           \/ EarlyCase(tk, a & t, y) /\ w \notin Data \cup Lengths
    BY <1>1, EarlyReads
  <2>2. CASE w \in Data \cup Lengths /\ Early(tk, t, s)
    BY <2>1, <2>2 DEF Talk
  <2>3. CASE EarlyCase(tk, a & t, y) /\ w \notin Data \cup Lengths
    <3>1. (a & t)[1] = a /\ a # R("reasonLength") /\ a.op = "read"
      BY <1>0, <2>3, Kinds, ConsParts DEF Lengths
    <3>2. \/ tk # Nil /\ a = R("result") /\ a & t = R("result") & Z /\ ResultOf(y)
          \/ tk = OnlyVe /\ Fresh /\ VeCase(a & t, y)
          \/ /\ tk = OnlyTLS \/ (tk = Nil /\ Fresh /\ Listed(version))
             /\ a = R("count") /\ a & t = R("count") & Z /\ Offer(y)
      BY <2>3, <3>1, Kinds DEF EarlyCase, OpenCase
    <3>3. CASE tk # Nil /\ a = R("result") /\ a & t = R("result") & Z /\ ResultOf(y)
      BY <2>1, <3>3, <1>0, Kinds, ConsEqual, ZFacts
    <3>4. CASE tk = OnlyVe /\ Fresh /\ VeCase(a & t, y)
      <4>1. w \in {"veVersion", "veStatus", "veCount"}
        BY <3>1, <3>4, <1>0, Kinds DEF VeCase
      <4> QED BY <2>1, <3>4, <4>1
    <3>5. CASE /\ tk = OnlyTLS \/ (tk = Nil /\ Fresh /\ Listed(version))
               /\ a = R("count") /\ a & t = R("count") & Z /\ Offer(y)
      BY <2>1, <3>5, <1>0, Kinds, ConsEqual, ZFacts
    <3> QED BY <3>2, <3>3, <3>4, <3>5
  <2> QED BY <2>1, <2>2, <2>3
<1>2. CASE tk # Nil /\ Joining(c, y)
  <2>1. \/ c = Ready & Nil /\ y = Nil
        \/ p = Nil /\ a \in Ordinary /\ a.what = b.what /\ Near(Ordinary, Ready & Nil, Nil, t, s)
    BY <1>0, <1>2, NearReads DEF Joining
  <2>2. y # Nil
    BY ConsNotNil
  <2>3. w \in Data \cup Lengths
    <4>1. PICK x \in Ordinary : x = a
      BY <2>1, <2>2
    <4>2. CASE \E what \in Data \cup Lengths : x = R(what)
      BY <4>1, <4>2, <1>0, Kinds
    <4>3. CASE \E what : x = W(what, 0)
      BY <4>1, <4>3, <1>0, Kinds
    <4>4. CASE \E what : x = L(what)
      BY <4>1, <4>4, <1>0, Kinds
    <4> QED BY <4>2, <4>3, <4>4 DEF Ordinary
  <2>4. Talk(tk, t, s)
    BY <1>2, <2>1, <2>2 DEF Talk, Joining
  <2> QED BY <1>0, <2>1, <2>2, <2>3, <2>4
<1>3. CASE tk # Nil /\ SaslTalk(c, y)
  <2>1. Fit(c) /\ SaslCase(c, y)
    BY <1>3, SaslFirst
  <2>2. c[1].op # "write"
    <3>1. D("saslLayer").op # "send" /\ G("saslData").op # "send"
      BY Kinds
    <3>2. W("clientInit", 0).op = "write"
      BY Kinds
    <3> QED BY <1>0, <2>1, <3>1, Kinds DEF SaslCase
  <2>3. p = Nil /\ a = c[1] /\ c = a & t
    BY <1>0, <2>1, <2>2, NotWritten DEF Fit
  <2>4. b # D("saslVerdict")
    BY Kinds
  <2>5. y # D("saslVerdict") & Nil
    BY <2>4, <1>0, NilSequence, ConsParts
  <2>6. \/ a = R("saslData") /\ b.what = "saslData" /\ SaslReplied(c, y)
        \/ a = R("saslComplete") /\ b.what = "saslComplete" /\ SaslHalf(c, y)
        \/ a = R("saslResult") /\ b.what = "saslResult" /\ SaslClosing(c, y) /\ c = R("saslResult") & Z
    BY <1>0, <2>1, <2>2, <2>3, <2>5, Kinds DEF SaslCase
  <2>7. CASE a = R("saslResult") /\ b.what = "saslResult" /\ SaslClosing(c, y) /\ c = R("saslResult") & Z
    <3>1. t = Z
      BY <2>3, <2>7, ConsEqual, ZFacts
    <3> QED BY <1>0, <1>3, <2>3, <2>7, <3>1, Kinds
  <2> QED BY <1>0, <1>3, <2>3, <2>6, <2>7, Kinds
<1>4. CASE Lead(tk, c, y)
  <2>1. PICK c1, s1 : Inside(tk, c1, s1) /\ c = F & c1
    BY <1>4 DEF Lead
  <2>2. a = F
    BY <1>0, <2>1, InsideFacts, NextIs, Lasts
  <2> QED BY <1>0, <2>2, Lasts
<1>5. CASE Lag(tk, c, y)
  <2>1. PICK s1 : Waiting(tk, c, s1) /\ y = D("tls") & s1
    BY <1>5 DEF Lag
  <2>2. b = D("tls")
    BY <1>0, <2>1, WaitingFacts, ConsParts
  <2> QED BY <2>2, Kinds
<1> QED BY <1>1, <1>2, <1>3, <1>4, <1>5 DEF Talk

-------------------------------------------------------------------------------
(* What the client does by itself. *)
Locals == {"keys", "password", "credential", "certificate", "framebuffer", "saslSetup", "library"}

LEMMA OrdinaryLocal == \A w : L(w) \in Ordinary => w \in Locals
<1> SUFFICES ASSUME NEW w, L(w) \in Ordinary PROVE w \in Locals
  OBVIOUS
<1>1. PICK x \in Ordinary : x = L(w)
  OBVIOUS
<1>2. x.op = "local" /\ x.what = w
  BY <1>1, Kinds
<1> HIDE <1>1
<1>3. CASE \E what : x = R(what)
  BY <1>2, <1>3, Kinds
<1>4. CASE \E what : x = W(what, 0)
  BY <1>2, <1>4, Kinds
<1>5. CASE \E what \in Locals : x = L(what)
  BY <1>2, <1>5, Kinds
<1> QED BY <1>3, <1>4, <1>5 DEF Ordinary, Locals

LEMMA OpeningLocals ==
  ASSUME NEW p, AllOp(p, "write"), NEW w, NEW t, ASequence(t), NEW s,
         Opening(p ++ (L(w) & t), s)
  PROVE  /\ p = Nil
         /\ \/ w \in Locals /\ Opening(t, s)
            \/ w = "plainCredential" /\ t = Z /\ s = G("lengths") & Nil
            \/ w = "saslStart" /\ t = Z /\ s = Mechanism
<1> DEFINE a == L(w)
           c == p ++ (a & t)
<1>0. a.op = "local" /\ a.what = w /\ ASequence(a & t) /\ ASequence(c)
  BY Kinds, ConsSequence, AllOpSequence, JoinSequence
<1>1. PICK K, B : OpenGoal(K, B) /\ Near(Ordinary, K, B, c, s)
  BY DEF Opening
<1>2. Fit(K) /\ ASequence(B) /\ OpenCase(K, B)
  BY <1>1, OpenFirst
<1>3. p = Nil /\ ((a & t = K /\ s = B) \/ (a \in Ordinary /\ Near(Ordinary, K, B, t, s)))
  BY <1>1, <1>2, <1>0, NearLocals DEF Fit
<1>4. CASE a \in Ordinary /\ Near(Ordinary, K, B, t, s)
  BY <1>1, <1>3, <1>4, OrdinaryLocal DEF Opening
<1>5. CASE a & t = K /\ s = B
  <2>1. K[1] = a
    BY <1>5, ConsParts
  <2>2. \/ a = L("plainCredential") /\ K = L("plainCredential") & Z /\ B = G("lengths") & Nil
        \/ a = L("saslStart") /\ K = L("saslStart") & Z /\ B = Mechanism
    BY <1>0, <1>2, <2>1, Kinds DEF OpenCase
  <2>3. \A x : K = x & Z => t = Z
    BY <1>5, ConsEqual, ZFacts
  <2> QED BY <1>0, <1>3, <1>5, <2>2, <2>3, Kinds
<1> QED BY <1>3, <1>4, <1>5

LEMMA EarlyLocals ==
  ASSUME NEW tk, NEW p, AllOp(p, "write"), NEW w, NEW t, ASequence(t), NEW s,
         Early(tk, p ++ (L(w) & t), s)
  PROVE  /\ p = Nil /\ Calm
         /\ \/ w \in Locals /\ Early(tk, t, s)
            \/ w = "plainCredential" /\ tk # Nil /\ t = Z /\ s = G("lengths") & Nil
            \/ w = "saslStart" /\ tk # Nil /\ t = Z /\ s = Mechanism
            \/ w = "tls" /\ tk # Nil /\ Hail(tk, L(w) & t, s)
<1> DEFINE a == L(w)
           c == p ++ (a & t)
<1>0. a.op = "local" /\ a.what = w /\ ASequence(a & t) /\ ASequence(c)
  BY Kinds, ConsSequence, AllOpSequence, JoinSequence
<1>1. CASE Shake(tk, c, s)
  <2>1. PICK c1, s1 : /\ Waiting(tk, c1, s1)
                      /\ c = W("hello", 0) & (F & c1) \/ c = F & c1
    BY <1>1 DEF Shake
  <2>2. ASequence(c1) /\ ASequence(F & c1)
    BY <2>1, WaitingFacts
  <2>3. CASE c = F & c1
    <3>1. a = F
      BY <1>0, <2>2, <2>3, NextIs, Lasts
    <3> QED BY <1>0, <3>1, Lasts
  <2>4. CASE c = W("hello", 0) & (F & c1)
    <3> DEFINE f == F & c1
    <3>1. ASequence(f) /\ c = W("hello", 0) & f /\ W("hello", 0) # a
      BY <1>0, <2>2, <2>4, Kinds
    <3> HIDE DEF f
    <3>2. PICK p1 : AllOp(p1, "write") /\ f = p1 ++ (a & t)
      BY <1>0, <3>1, Heads
    <3>3. p1 ++ (a & t) = F & c1
      BY <3>2 DEF f
    <3>4. a = F
      BY <1>0, <2>2, <3>2, <3>3, NextIs, Lasts
    <3> QED BY <1>0, <3>4, Lasts
  <2> QED BY <2>1, <2>3, <2>4
<1>2. CASE Calm /\ \E K, B : EarlyGoal(tk, K, B) /\ Near(Ordinary, K, B, c, s)
  <2>1. PICK K, B : EarlyGoal(tk, K, B) /\ Near(Ordinary, K, B, c, s)
    BY <1>2
  <2>2. Fit(K) /\ ASequence(B) /\ EarlyCase(tk, K, B)
    BY <2>1, EarlyFirst
  <2>3. p = Nil /\ ((a & t = K /\ s = B) \/ (a \in Ordinary /\ Near(Ordinary, K, B, t, s)))
    BY <2>1, <2>2, <1>0, NearLocals DEF Fit
  <2>4. CASE a \in Ordinary /\ Near(Ordinary, K, B, t, s)
    <3>1. w \in Locals
      BY <2>4, OrdinaryLocal
    <3>2. Early(tk, t, s)
      BY <1>2, <2>1, <2>4 DEF Early
    <3> QED BY <1>2, <2>3, <3>1, <3>2
  <2>5. CASE a & t = K /\ s = B
    <3>1. K[1] = a
      BY <2>5, ConsParts
    <3>2. \/ tk # Nil /\ a = L("plainCredential") /\ K = L("plainCredential") & Z /\ B = G("lengths") & Nil
          \/ tk # Nil /\ a = L("saslStart") /\ K = L("saslStart") & Z /\ B = Mechanism
          \/ tk # Nil /\ a = L("tls") /\ Hail(tk, K, B)
      BY <1>0, <2>2, <3>1, Kinds DEF EarlyCase, OpenCase, VeCase
    <3>3. \A x : K = x & Z => t = Z
      BY <2>5, ConsEqual, ZFacts
    <3> QED BY <1>0, <1>2, <2>3, <2>5, <3>2, <3>3, Kinds
  <2> QED BY <2>3, <2>4, <2>5
<1> QED BY <1>1, <1>2 DEF Early

(* The client has finished the handshake, the server not yet. *)
Behind(tk, s1, s) ==
  ViaVe(tk) /\ tls /\ ~saslconn /\ serverLayer = "plain" /\ s = D("tls") & s1

LEMMA TalkLocals ==
  ASSUME NEW tk, NEW p, AllOp(p, "write"), NEW w, NEW t, ASequence(t), NEW s,
         Talk(tk, p ++ (L(w) & t), s)
  PROVE  /\ p = Nil
         /\ \/ w \in Locals /\ Talk(tk, t, s)
            \/ w = "plainCredential" /\ tk # Nil /\ t = Z /\ Calm /\ s = G("lengths") & Nil
            \/ w = "plainCredential" /\ tk # Nil /\ t = Z /\ Behind(tk, G("lengths") & Nil, s)
            \/ w = "saslStart" /\ tk # Nil /\ t = Z /\ Calm /\ s = Mechanism
            \/ w = "saslStart" /\ tk # Nil /\ t = Z /\ Behind(tk, Mechanism, s)
            \/ w = "tls" /\ tk # Nil /\ Calm /\ Hail(tk, L(w) & t, s)
            \/ w = "saslStep" /\ tk # Nil /\ SaslAsks(L(w) & t, s) /\ t = Z
            \/ w = "saslStrength" /\ tk # Nil /\ SaslClosing(L(w) & t, s) /\ SaslClosing(t, s)
<1> DEFINE a == L(w)
           c == p ++ (a & t)
<1>0. a.op = "local" /\ a.what = w /\ ASequence(a & t) /\ ASequence(c)
  BY Kinds, ConsSequence, AllOpSequence, JoinSequence
<1>1. CASE Early(tk, c, s)
  <2>1. /\ p = Nil /\ Calm
        /\ \/ w \in Locals /\ Early(tk, t, s)
           \/ w = "plainCredential" /\ tk # Nil /\ t = Z /\ s = G("lengths") & Nil
           \/ w = "saslStart" /\ tk # Nil /\ t = Z /\ s = Mechanism
           \/ w = "tls" /\ tk # Nil /\ Hail(tk, L(w) & t, s)
    BY <1>1, EarlyLocals
  <2> QED BY <2>1 DEF Talk
<1>2. CASE tk # Nil /\ Joining(c, s)
  <2>1. Steady(Ready & Nil)
    BY Lasts, SteadyOther, NilSequence
  <2>2. p = Nil /\ ((a & t = Ready & Nil /\ s = Nil) \/ (a \in Ordinary /\ Near(Ordinary, Ready & Nil, Nil, t, s)))
    BY <1>0, <1>2, <2>1, NearLocals DEF Joining
  <2>3. a & t # Ready & Nil
    BY <1>0, Lasts, NilSequence, ConsEqual
  <2>4. Joining(t, s)
    BY <1>2, <2>2, <2>3 DEF Joining
  <2> QED BY <1>2, <2>2, <2>3, <2>4, OrdinaryLocal DEF Talk
<1>3. CASE tk # Nil /\ SaslTalk(c, s)
  <2>1. Fit(c) /\ SaslCase(c, s)
    BY <1>3, SaslFirst
  <2>2. p = Nil /\ c = a & t /\ c[1] = a
    <3>1. p = Nil
      BY <1>0, <2>1 DEF Fit, Steady
    <3> QED BY <1>0, <3>1, JoinNil, ConsParts
  <2>3. \/ a = L("saslStep") /\ SaslAsks(c, s)
        \/ a = L("saslStrength") /\ SaslClosing(c, s)
    BY <1>0, <2>1, <2>2, Kinds DEF SaslCase
  <2>4. CASE a = L("saslStep") /\ SaslAsks(c, s)
    <3>1. t = Z
      BY <2>2, <2>4, ConsEqual, ZFacts DEF SaslAsks
    <3> QED BY <1>0, <1>3, <2>2, <2>4, <3>1, Kinds
  <2>5. CASE a = L("saslStrength") /\ SaslClosing(c, s)
    <3> DEFINE r == R("saslResult") & Z
    <3>1. ASequence(r) /\ L("saslStrength") # R("saslResult")
      BY ZFacts, ConsSequence, Kinds
    <3>2. c = L("saslStrength") & r \/ c = r
      BY <2>5 DEF SaslClosing
    <3>3. c # r
      BY <2>2, <2>5, <3>1, ZFacts, ConsEqual
    <3> HIDE DEF r
    <3>4. t = r
      BY <2>2, <3>1, <3>2, <3>3, ConsEqual
    <3>5. SaslClosing(t, s)
      BY <2>5, <3>4 DEF SaslClosing, r
    <3> QED BY <1>0, <1>3, <2>2, <2>5, <3>5, Kinds
  <2> QED BY <2>3, <2>4, <2>5
<1>4. CASE Lead(tk, c, s)
  <2>1. PICK c1, s1 : Inside(tk, c1, s1) /\ c = F & c1
    BY <1>4 DEF Lead
  <2>2. a = F
    BY <1>0, <2>1, InsideFacts, NextIs, Lasts
  <2> QED BY <1>0, <2>2, Lasts
<1>5. CASE tk # Nil /\ Lag(tk, c, s)
  <2>1. PICK s1 : Waiting(tk, c, s1) /\ s = D("tls") & s1
    BY <1>5 DEF Lag
  <2>2. CASE c = R("count") & Z
    <3>1. a = R("count")
      BY <1>0, <2>2, NextIs, ZFacts, Kinds
    <3> QED BY <1>0, <3>1, Kinds
  <2>3. CASE ViaVe(tk) /\ Opening(c, s1)
    <3>1. /\ p = Nil
          /\ \/ w \in Locals /\ Opening(t, s1)
             \/ w = "plainCredential" /\ t = Z /\ s1 = G("lengths") & Nil
             \/ w = "saslStart" /\ t = Z /\ s1 = Mechanism
      BY <2>3, OpeningLocals
    <3>2. Behind(tk, s1, s)
      BY <1>5, <2>1, <2>3 DEF Behind, Lag
    <3>3. Opening(t, s1) => Lag(tk, t, s)
      BY <1>5, <2>1, <2>3 DEF Lag, Waiting
    <3> QED BY <1>5, <3>1, <3>2, <3>3 DEF Talk
  <2> QED BY <2>1, <2>2, <2>3 DEF Waiting
<1> QED BY <1>1, <1>2, <1>3, <1>4, <1>5 DEF Talk

-------------------------------------------------------------------------------
(* What the server gets is what the client has written. *)
LEMMA OrdinaryWrite == \A w \in Ordinary : w.op = "write" => w.what \in Plainly
<1> SUFFICES ASSUME NEW w \in Ordinary, w.op = "write" PROVE w.what \in Plainly
  OBVIOUS
<1>1. CASE \E what : w = R(what)
  BY <1>1, Kinds
<1>2. CASE \E what \in Plainly : w = W(what, 0)
  BY <1>2, Kinds
<1>3. CASE \E what : w = L(what)
  BY <1>3, Kinds
<1> QED BY <1>1, <1>2, <1>3 DEF Ordinary

LEMMA EarlyGets ==
  ASSUME NEW tk, NEW w, w.op = "write", NEW c, ASequence(c),
         NEW r, AllOp(r, "send"), NEW g, g.op = "get", NEW s, ASequence(s),
         Early(tk, w & c, r ++ (g & s))
  PROVE  /\ r = Nil /\ g = G(w.what) /\ serverLayer = layer /\ ~saslconn
         /\ \/ w.what \in Plainly /\ Early(tk, c, s)
            \/ /\ w.what = "lengths" /\ tk # Nil /\ Calm /\ s = Nil
               /\ \E u, p \in 0 .. 1 : w & c = PlainMessage(u, p) ++ Z
            \/ /\ tk # Nil /\ Calm /\ Exchanged /\ sasl.calls = 0 /\ serverin = 0
               /\ w = W("mechanism", mech) /\ c = SaslExchange(1) ++ Z /\ s = G("saslData") & Nil
<1> DEFINE y == r ++ (g & s)
           x == w & c
<1>0. ASequence(x) /\ x[1] = w /\ ASequence(y) /\ ASequence(g & s)
  BY ConsSequence, ConsParts, AllOpSequence, JoinSequence
<1>1. CASE tk # Nil /\ Shake(tk, x, y)
  <2>1. PICK c1, s1 : /\ Waiting(tk, c1, s1)
                      /\ \/ x = W("hello", 0) & (F & c1) /\ y = Hello(Finish(s1))
                         \/ x = F & c1
    BY <1>1 DEF Shake
  <2>2. ASequence(c1) /\ ASequence(F & c1) /\ ASequence(Finish(s1))
    BY <2>1, WaitingFacts
  <2>3. x # F & c1
    BY <2>2, ConsEqual, Lasts
  <2>4. x = W("hello", 0) & (F & c1) /\ y = G("hello") & Finish(s1)
    BY <2>1, <2>3 DEF Hello
  <2>5. w = W("hello", 0) /\ c = F & c1
    BY <2>2, <2>4, ConsEqual
  <2>6. r = Nil /\ g = G("hello") /\ s = Finish(s1)
    <3>1. G("hello").op # "send"
      BY Kinds
    <3> QED BY <2>2, <2>4, <3>1, Heads
  <2>7. Early(tk, c, s)
    BY <1>1, <2>1, <2>5, <2>6 DEF Early, Shake
  <2>8. w.what = "hello" /\ "hello" \in Plainly
    BY <2>5, Kinds DEF Plainly
  <2>9. serverLayer = layer /\ ~saslconn
    BY <1>1 DEF Shake, Fresh, layer
  <2> QED BY <2>6, <2>7, <2>8, <2>9
<1>2. CASE Calm /\ \E K, B : EarlyGoal(tk, K, B) /\ Near(Ordinary, K, B, x, y)
  <2>0. serverLayer = layer /\ ~saslconn
    BY <1>2 DEF Calm
  <2>1. PICK K, B : EarlyGoal(tk, K, B) /\ Near(Ordinary, K, B, x, y)
    BY <1>2
  <2>2. ASequence(B) /\ EarlyCase(tk, K, B)
    BY <2>1, EarlyFirst
  <2>3. (x = K /\ y = B) \/ (r = Nil /\ w \in Ordinary /\ g = G(w.what) /\ Near(Ordinary, K, B, c, s))
    BY <2>1, <1>0, NearGets
  <2>4. CASE r = Nil /\ w \in Ordinary /\ g = G(w.what) /\ Near(Ordinary, K, B, c, s)
    <3>1. Early(tk, c, s)
      BY <1>2, <2>1, <2>4 DEF Early
    <3>2. w.what \in Plainly
      BY <2>4, OrdinaryWrite
    <3> QED BY <2>0, <2>4, <3>1, <3>2
  <2>5. CASE x = K /\ y = B
    <3>1. \/ /\ w.what = "lengths" /\ tk # Nil /\ B = G("lengths") & Nil
             /\ \E u, p \in 0 .. 1 : K = PlainMessage(u, p) ++ Z
          \/ /\ tk # Nil /\ w = W("mechanism", mech) /\ B = Mechanism
             /\ K = W("mechanism", mech) & (SaslExchange(1) ++ Z)
             /\ Exchanged /\ sasl.calls = 0 /\ serverin = 0
          \/ B = D("admit") & Nil
      BY <1>0, <2>2, <2>5, Kinds DEF EarlyCase, OpenCase, VeCase
    <3>2. \A v, q : ASequence(q) /\ y = v & q /\ v.op # "send" => r = Nil /\ g = v /\ s = q
      BY Heads
    <3>3. B # D("admit") & Nil
      BY <2>5, <3>2, NilSequence, Kinds
    <3>4. CASE /\ w.what = "lengths" /\ tk # Nil /\ B = G("lengths") & Nil
               /\ \E u, p \in 0 .. 1 : K = PlainMessage(u, p) ++ Z
      <4>1. r = Nil /\ g = G("lengths") /\ s = Nil
        BY <2>5, <3>2, <3>4, NilSequence, Kinds
      <4> QED BY <1>2, <2>0, <2>5, <3>4, <4>1
    <3>5. CASE /\ tk # Nil /\ w = W("mechanism", mech) /\ B = Mechanism
               /\ K = W("mechanism", mech) & (SaslExchange(1) ++ Z)
               /\ Exchanged /\ sasl.calls = 0 /\ serverin = 0
      <4>1. ASequence(G("saslData") & Nil) /\ y = G("mechanism") & (G("saslData") & Nil)
        BY <2>5, <3>5, MechanismFacts DEF Mechanism
      <4>2. r = Nil /\ g = G("mechanism") /\ s = G("saslData") & Nil
        BY <3>2, <4>1, Kinds
      <4>3. c = SaslExchange(1) ++ Z
        BY <2>5, <3>5, ExchangeFacts, ConsEqual
      <4> QED BY <1>2, <2>0, <3>5, <4>2, <4>3, Kinds
    <3> QED BY <3>1, <3>3, <3>4, <3>5
  <2> QED BY <2>3, <2>4, <2>5
<1> QED BY <1>1, <1>2 DEF Early

LEMMA TalkGets ==
  ASSUME NEW tk, NEW w, w.op = "write", NEW c, ASequence(c),
         NEW r, AllOp(r, "send"), NEW g, g.op = "get", NEW s, ASequence(s),
         Talk(tk, w & c, r ++ (g & s))
  PROVE  /\ r = Nil /\ g = G(w.what) /\ serverLayer = layer
         /\ \/ w.what \in Plainly /\ Talk(tk, c, s)
            \/ /\ w.what = "lengths" /\ tk # Nil /\ Calm /\ s = Nil
               /\ \E u, p \in 0 .. 1 : w & c = PlainMessage(u, p) ++ Z
            \/ /\ tk # Nil /\ Calm /\ Exchanged /\ sasl.calls = 0 /\ serverin = 0
               /\ w = W("mechanism", mech) /\ c = SaslExchange(1) ++ Z /\ s = G("saslData") & Nil
            \/ w.what = "saslData" /\ tk # Nil /\ SaslWaits(w & c, G("saslData") & Nil) /\ s = Nil
<1> DEFINE y == r ++ (g & s)
           x == w & c
<1>0. ASequence(x) /\ x[1] = w /\ ASequence(y) /\ ASequence(g & s)
  BY ConsSequence, ConsParts, AllOpSequence, JoinSequence
<1>1. \A v, q : ASequence(q) /\ y = v & q /\ v.op # "send" => r = Nil /\ g = v /\ s = q
  BY Heads
<1>2. CASE Early(tk, x, y)
  <2>1. /\ r = Nil /\ g = G(w.what) /\ serverLayer = layer /\ ~saslconn
        /\ \/ w.what \in Plainly /\ Early(tk, c, s)
           \/ /\ w.what = "lengths" /\ tk # Nil /\ Calm /\ s = Nil
              /\ \E u, p \in 0 .. 1 : w & c = PlainMessage(u, p) ++ Z
           \/ /\ tk # Nil /\ Calm /\ Exchanged /\ sasl.calls = 0 /\ serverin = 0
              /\ w = W("mechanism", mech) /\ c = SaslExchange(1) ++ Z /\ s = G("saslData") & Nil
    BY <1>2, EarlyGets
  <2> QED BY <2>1 DEF Talk
<1>3. CASE tk # Nil /\ Joining(x, y)
  <2>1. (x = Ready & Nil /\ y = Nil) \/ (r = Nil /\ w \in Ordinary /\ g = G(w.what) /\ Near(Ordinary, Ready & Nil, Nil, c, s))
    BY <1>0, <1>3, NearGets DEF Joining
  <2>2. x # Ready & Nil
    BY ConsEqual, NilSequence, Lasts
  <2>3. Joining(c, s) /\ serverLayer = layer
    BY <1>3, <2>1, <2>2 DEF Joining
  <2> QED BY <1>3, <2>1, <2>2, <2>3, OrdinaryWrite DEF Talk
<1>4. CASE tk # Nil /\ SaslTalk(x, y)
  <2>1. SaslCase(x, y)
    BY <1>4, SaslFirst
  <2>2. (w.what = "saslData" /\ SaslWaits(x, y)) \/ SaslSecured(x, y)
    BY <1>0, <2>1, Kinds DEF SaslCase
  <2>3. CASE w.what = "saslData" /\ SaslWaits(x, y)
    <3>1. y = G("saslData") & Nil
      BY <2>3 DEF SaslWaits
    <3>2. r = Nil /\ g = G("saslData") /\ s = Nil
      BY <1>1, <3>1, NilSequence, Kinds
    <3> QED BY <1>4, <2>3, <3>1, <3>2 DEF SaslWaits, Calm
  <2>4. CASE SaslSecured(x, y)
    <3>1. y = D("saslLayer") & ServerJoin("fits") /\ ASequence(ServerJoin("fits"))
      BY <2>4, ServedScripts DEF SaslSecured
    <3> QED BY <1>1, <3>1, Kinds
  <2> QED BY <2>2, <2>3, <2>4
<1>5. CASE Lead(tk, x, y)
  <2>1. PICK c1, s1 : Inside(tk, c1, s1) /\ x = F & c1
    BY <1>5 DEF Lead
  <2> QED BY <2>1, InsideFacts, ConsEqual, Lasts
<1>6. CASE Lag(tk, x, y)
  <2>1. PICK s1 : Waiting(tk, x, s1) /\ y = D("tls") & s1
    BY <1>6 DEF Lag
  <2>2. ASequence(s1)
    BY <2>1, WaitingFacts
  <2> QED BY <1>1, <2>1, <2>2, Kinds
<1> QED BY <1>2, <1>3, <1>4, <1>5, <1>6 DEF Talk

-------------------------------------------------------------------------------
(* Both sides of a stretch. *)
LEMMA JoinNear ==
  ASSUME NEW size
  PROVE  Near(Ordinary, Ready & Nil, Nil, Z, ServerJoin(size))
<1> DEFINE K == Ready & Nil
           c9 == W("incrementalRequest", 0) & K
           c8 == W("incrementalRequest", 0) & c9
           c7 == W("updateRequest", 0) & c8
           c6 == W("setEncodings", 0) & c7
           c5 == W("setPixelFormat", 0) & c6
           c4 == L("framebuffer") & c5
           c3 == R("name") & c4
           c2 == R("serverInit") & c3
           s9 == G("incrementalRequest") & Nil
           s8 == G("incrementalRequest") & s9
           s7 == G("updateRequest") & s8
           s6 == G("setEncodings") & s7
           s5 == G("setPixelFormat") & s6
           s3 == S("name", 0) & s5
           s2 == S("serverInit", size) & s3
<1>1. /\ W("incrementalRequest", 0) \in Ordinary /\ W("updateRequest", 0) \in Ordinary
      /\ W("setEncodings", 0) \in Ordinary /\ W("setPixelFormat", 0) \in Ordinary
      /\ W("clientInit", 0) \in Ordinary
  BY DEF Ordinary, Plainly
<1>2. L("framebuffer") \in Ordinary /\ R("name") \in Ordinary /\ R("serverInit") \in Ordinary
  BY DEF Ordinary, Data, Lengths
<1>3. \A w : Meets(W(w, 0), G(w))
  BY Kinds DEF Meets
<1>4. \A w, v : Meets(R(w), S(w, v))
  BY Kinds DEF Meets
<1>5. \A w : W(w, 0).op = "write" /\ R(w).op = "read" /\ L(w).op = "local"
  BY Kinds
<1>10. ASequence(K) /\ Onward(K) /\ Near(Ordinary, K, Nil, K, Nil)
  BY NilSequence, ConsSequence, Lasts, OnwardOther, NearEnd
<1> HIDE DEF K
<1>9. ASequence(c9) /\ Onward(c9) /\ Near(Ordinary, K, Nil, c9, s9)
  BY <1>10, <1>1, <1>3, <1>5, ConsSequence, OnwardWrite, NearStep
<1> HIDE DEF c9, s9
<1>8. ASequence(c8) /\ Onward(c8) /\ Near(Ordinary, K, Nil, c8, s8)
  BY <1>9, <1>1, <1>3, <1>5, ConsSequence, OnwardWrite, NearStep
<1> HIDE DEF c8, s8
<1>7. ASequence(c7) /\ Onward(c7) /\ Near(Ordinary, K, Nil, c7, s7)
  BY <1>8, <1>1, <1>3, <1>5, ConsSequence, OnwardWrite, NearStep
<1> HIDE DEF c7, s7
<1>6. ASequence(c6) /\ Onward(c6) /\ Near(Ordinary, K, Nil, c6, s6)
  BY <1>7, <1>1, <1>3, <1>5, ConsSequence, OnwardWrite, NearStep
<1> HIDE DEF c6, s6
<1>11. ASequence(c5) /\ Onward(c5) /\ Near(Ordinary, K, Nil, c5, s5)
  BY <1>6, <1>1, <1>3, <1>5, ConsSequence, OnwardWrite, NearStep
<1> HIDE DEF c5, s5
<1>12. ASequence(c4) /\ Near(Ordinary, K, Nil, c4, s5)
  BY <1>11, <1>2, <1>5, ConsSequence, NearLocal
<1> HIDE DEF c4
<1>13. ASequence(c3) /\ Near(Ordinary, K, Nil, c3, s3)
  BY <1>12, <1>2, <1>4, <1>5, ConsSequence, NearStep
<1> HIDE DEF c3, s3
<1>14. ASequence(c2) /\ Onward(c2) /\ Near(Ordinary, K, Nil, c2, s2)
  BY <1>13, <1>2, <1>4, <1>5, ConsSequence, OnwardOther, NearStep
<1>15. Z = W("clientInit", 0) & c2
  BY InitScript DEF c3, c4, c5, c6, c7, c8, c9, K
<1>16. ServerJoin(size) = G("clientInit") & s2
  BY ServedScripts DEF s3, s5, s6, s7, s8, s9
<1> HIDE DEF c2, s2
<1>17. Onward(W("clientInit", 0) & c2)
  BY <1>14, <1>5, OnwardWrite
<1>18. Near(Ordinary, K, Nil, W("clientInit", 0) & c2, G("clientInit") & s2)
  BY <1>14, <1>17, <1>1, <1>3, <1>5, NearStep
<1> QED BY <1>15, <1>16, <1>18 DEF K

LEMMA ReasonNear ==
  ASSUME NEW X, ASequence(X), NEW size
  PROVE  Near(Ordinary, GiveUp("refused") & X, D("close") & Nil, ReadReason ++ X, ServerReason(size))
<1> DEFINE K == GiveUp("refused") & X
           B == D("close") & Nil
           c2 == R("reason") & K
           s2 == S("reason", 0) & B
<1>1. R("reason") \in Ordinary /\ R("reasonLength") \in Ordinary
  BY DEF Ordinary, Data, Lengths
<1>2. \A w, v : Meets(R(w), S(w, v))
  BY Kinds DEF Meets
<1>3. \A w : R(w).op = "read"
  BY Kinds
<1>4. ASequence(K) /\ ASequence(B) /\ Near(Ordinary, K, B, K, B)
  BY ConsSequence, NilSequence, NearEnd
<1>5. ReadReason ++ X = R("reasonLength") & c2
  BY ReasonScript
<1>6. ServerReason(size) = S("reasonLength", size) & s2
  BY ServedScripts
<1> HIDE DEF K, B
<1>7. Near(Ordinary, K, B, c2, s2)
  BY <1>1, <1>2, <1>3, <1>4, NearStep
<1> HIDE DEF c2, s2
<1>8. Near(Ordinary, K, B, R("reasonLength") & c2, S("reasonLength", size) & s2)
  BY <1>1, <1>2, <1>3, <1>7, NearStep
<1> QED BY <1>5, <1>6, <1>8 DEF K, B

(* Nothing is decided in a list. *)
LEMMA ListWire ==
  ASSUME NEW entry, NEW list, Len(list) \in Nat, NEW w
  PROVE  Wire(Entries(entry, list) ++ (G(w) & Nil))
<1> DEFINE q == Entries(entry, list)
           e == G(w) & Nil
<1>1. ASequence(q) /\ Len(q) = Len(list) /\ \A i \in 1 .. Len(q) : q[i].op = "send"
  <2>1. ASequence(q) /\ Len(q) = Len(list)
    BY ListServed
  <2>2. \A i \in 1 .. Len(list) : q[i] = S(entry, list[i])
    BY DEF Entries
  <2> HIDE DEF q
  <2> QED BY <2>1, <2>2, Kinds
<1>2. Wire(e)
  BY WireNil, WireCons, Kinds
<1> HIDE DEF q, e
<1>3. ASequence(e) /\ \A i \in 1 .. Len(e) : e[i].op \in {"send", "get"}
  BY <1>2 DEF Wire
<1> DEFINE n == q \o e
<1>4. ASequence(n) /\ Len(q) \in Nat /\ Len(e) \in Nat /\ Len(n) = Len(q) + Len(e)
      /\ \A i \in 1 .. Len(q) + Len(e) : n[i] = IF i <= Len(q) THEN q[i] ELSE e[i - Len(q)]
  BY <1>1, <1>3, Concats
<1> HIDE DEF n
<1>5. ASSUME NEW i \in 1 .. Len(n) PROVE n[i].op \in {"send", "get"}
  <2>1. CASE i <= Len(q)
    <3>1. i \in 1 .. Len(q) /\ n[i] = q[i]
      BY <2>1, <1>4
    <3> QED BY <3>1, <1>1
  <2>2. CASE ~(i <= Len(q))
    <3>1. i - Len(q) \in 1 .. Len(e) /\ n[i] = e[i - Len(q)]
      BY <2>2, <1>4
    <3> QED BY <3>1, <1>3
  <2> QED BY <2>1, <2>2
<1>6. Wire(n)
  BY <1>4, <1>5 DEF Wire
<1> QED BY <1>6 DEF n, q, e, ++

(* Where a decision may stand among the steps of the server. *)
Decision(r, x, d) ==
  AllOp(r, "send") /\ x.op \notin {"send", "get"} /\ ASequence(d)

LEMMA DecisionAfter ==
  ASSUME NEW r, NEW x, NEW d, Decision(r, x, d), NEW b, b.op # x.op, NEW B, ASequence(B),
         r ++ (x & d) = b & B
  PROVE  b.op = "send" /\ \E r1 : Decision(r1, x, d) /\ r = b & r1 /\ B = r1 ++ (x & d)
BY Heads DEF Decision

LEMMA DecisionNow ==
  ASSUME NEW r, NEW x, NEW d, Decision(r, x, d), NEW b, b.op # "send", NEW B, ASequence(B),
         r ++ (x & d) = b & B
  PROVE  r = Nil /\ x = b /\ d = B
BY Heads DEF Decision

LEMMA DecisionNot ==
  ASSUME NEW r, NEW x, NEW d, Decision(r, x, d), NEW B, Wire(B)
  PROVE  r ++ (x & d) # B
BY WireDecides DEF Decision

LEMMA ReasonDecides ==
  ASSUME NEW r, NEW x, NEW d, Decision(r, x, d), NEW size, r ++ (x & d) = ServerReason(size)
  PROVE  x = D("close")
<1> DEFINE n == D("close") & Nil
           m == S("reason", 0) & n
<1>1. ASequence(n) /\ ASequence(m) /\ ServerReason(size) = S("reasonLength", size) & m
  BY ConsSequence, NilSequence, ServedScripts
<1>2. x.op # "send" /\ \A w, v : S(w, v).op = "send" /\ D(w).op # "send"
  BY Kinds DEF Decision
<1> HIDE DEF m
<1>3. PICK r1 : Decision(r1, x, d) /\ m = r1 ++ (x & d)
  BY <1>1, <1>2, DecisionAfter
<1>4. r1 ++ (x & d) = S("reason", 0) & n
  BY <1>3 DEF m
<1> HIDE DEF n
<1>5. PICK r2 : Decision(r2, x, d) /\ n = r2 ++ (x & d)
  BY <1>1, <1>2, <1>3, <1>4, DecisionAfter
<1>6. r2 ++ (x & d) = D("close") & Nil
  BY <1>5 DEF n
<1> QED BY <1>2, <1>5, <1>6, NilSequence, DecisionNow

LEMMA OfferDecides ==
  ASSUME NEW r, NEW x, NEW d, Decision(r, x, d), Offer(r ++ (x & d))
  PROVE  \/ x = D("close")
         \/ x = D("reason") /\ d = Nil /\ r = S("count", 0) & Nil
<1>2. x.op # "send" /\ \A w, v : S(w, v).op = "send" /\ D(w).op # "send"
  BY Kinds DEF Decision
<1>3. CASE r ++ (x & d) = S("count", 0) & (D("reason") & Nil)
  <2> DEFINE n == D("reason") & Nil
  <2>1. ASequence(n)
    BY ConsSequence, NilSequence
  <2>2. r ++ (x & d) = S("count", 0) & n
    BY <1>3
  <2> HIDE DEF n
  <2>3. PICK r1 : Decision(r1, x, d) /\ r = S("count", 0) & r1 /\ n = r1 ++ (x & d)
    BY <1>2, <2>1, <2>2, DecisionAfter
  <2>4. r1 ++ (x & d) = D("reason") & Nil
    BY <2>3 DEF n
  <2> QED BY <1>2, <2>3, <2>4, NilSequence, DecisionNow
<1>4. ASSUME NEW size, r ++ (x & d) = S("count", 0) & ServerReason(size) PROVE x = D("close")
  <2>1. PICK r1 : Decision(r1, x, d) /\ ServerReason(size) = r1 ++ (x & d)
    BY <1>2, <1>4, ServedScripts, DecisionAfter
  <2> QED BY <2>1, ReasonDecides
<1>5. ASSUME NEW list, Len(list) \in Nat,
             r ++ (x & d) = S("count", Len(list)) & (Entries("type", list) ++ (G("choice") & Nil))
      PROVE FALSE
  <2> DEFINE q == Entries("type", list) ++ (G("choice") & Nil)
  <2>1. Wire(q) /\ r ++ (x & d) = S("count", Len(list)) & q
    BY <1>5, ListWire
  <2> HIDE DEF q
  <2>2. Wire(S("count", Len(list)) & q)
    BY <2>1, <1>2, WireCons
  <2> QED BY <2>1, <2>2, DecisionNot
<1> QED BY <1>3, <1>4, <1>5, OfferFacts

LEMMA VeOfferDecides ==
  ASSUME NEW r, NEW x, NEW d, Decision(r, x, d), VeOffer(r ++ (x & d))
  PROVE  x = D("close")
<1>2. x.op # "send" /\ \A w, v : S(w, v).op = "send" /\ D(w).op # "send"
  BY Kinds DEF Decision
<1>3. CASE r ++ (x & d) = S("veCount", 0) & (D("close") & Nil)
  <2> DEFINE n == D("close") & Nil
  <2>1. ASequence(n)
    BY ConsSequence, NilSequence
  <2>2. r ++ (x & d) = S("veCount", 0) & n
    BY <1>3
  <2> HIDE DEF n
  <2>3. PICK r1 : Decision(r1, x, d) /\ n = r1 ++ (x & d)
    BY <1>2, <2>1, <2>2, DecisionAfter
  <2>4. r1 ++ (x & d) = D("close") & Nil
    BY <2>3 DEF n
  <2> QED BY <1>2, <2>3, <2>4, NilSequence, DecisionNow
<1>5. ASSUME NEW list, Len(list) \in Nat,
             r ++ (x & d) = S("veCount", Len(list)) & (Entries("veType", list) ++ (G("veChoice") & Nil))
      PROVE FALSE
  <2> DEFINE q == Entries("veType", list) ++ (G("veChoice") & Nil)
  <2>1. Wire(q) /\ r ++ (x & d) = S("veCount", Len(list)) & q
    BY <1>5, ListWire
  <2> HIDE DEF q
  <2>2. Wire(S("veCount", Len(list)) & q)
    BY <2>1, <1>2, WireCons
  <2> QED BY <2>1, <2>2, DecisionNot
<1> QED BY <1>3, <1>5, VeOfferFacts

-------------------------------------------------------------------------------
(* What the server decides, and where the client is then. *)
(* The client is in a stretch that leads to K, and to what the server does. *)
Toward(K, c, r, u) ==
  \A d2 : ASequence(d2) => Near(Ordinary, K, u ++ d2, c, r ++ d2)

LEMMA ResultDecides ==
  ASSUME NEW r, NEW x, NEW d, Decision(r, x, d), ResultOf(r ++ (x & d))
  PROVE  \/ x = D("close")
         \/ x = D("verdict") /\ d = Nil /\ r = Nil
         \/ x = D("reason") /\ d = Nil /\ Minor = 8 /\ r = S("result", "failed") & Nil
<1>2. x.op # "send" /\ \A w, v : S(w, v).op = "send" /\ D(w).op # "send"
  BY Kinds DEF Decision
<1>3. ASSUME NEW v, NEW w, r ++ (x & d) = S("result", v) & (D(w) & Nil)
      PROVE  x = D(w) /\ d = Nil /\ r = S("result", v) & Nil
  <2> DEFINE n == D(w) & Nil
  <2>1. ASequence(n) /\ r ++ (x & d) = S("result", v) & n
    BY <1>3, ConsSequence, NilSequence
  <2> HIDE DEF n
  <2>2. PICK r1 : Decision(r1, x, d) /\ r = S("result", v) & r1 /\ n = r1 ++ (x & d)
    BY <1>2, <2>1, DecisionAfter
  <2>3. r1 ++ (x & d) = D(w) & Nil
    BY <2>2 DEF n
  <2> QED BY <1>2, <2>2, <2>3, NilSequence, DecisionNow
<1>4. ASSUME NEW size, r ++ (x & d) = S("result", "ok") & ServerJoin(size) PROVE FALSE
  <2>1. Wire(S("result", "ok") & ServerJoin(size))
    BY JoinFacts, <1>2, WireCons
  <2> QED BY <1>4, <2>1, DecisionNot
<1>5. ASSUME NEW size, r ++ (x & d) = S("result", "failed") & ServerReason(size) PROVE x = D("close")
  <2>1. PICK r1 : Decision(r1, x, d) /\ ServerReason(size) = r1 ++ (x & d)
    BY <1>2, <1>5, ServedScripts, DecisionAfter
  <2> QED BY <2>1, ReasonDecides
<1>6. r ++ (x & d) = D("verdict") & Nil => r = Nil /\ x = D("verdict") /\ d = Nil
  BY <1>2, NilSequence, DecisionNow
<1> QED BY <1>3, <1>4, <1>5, <1>6 DEF ResultOf

LEMMA OpenDecides ==
  ASSUME NEW K, NEW r, NEW x, NEW d, Decision(r, x, d), OpenGoal(K, r ++ (x & d))
  PROVE  \/ x = D("close")
         \/ K = R("result") & Z /\ x = D("verdict") /\ d = Nil /\ r = Nil
         \/ K = R("result") & Z /\ x = D("reason") /\ d = Nil /\ Minor = 8 /\ r = S("result", "failed") & Nil
<1>1. ASSUME NEW w, NEW q, ASequence(q), r ++ (x & d) = G(w) & q PROVE FALSE
  <2>1. x = G(w)
    BY <1>1, Kinds, DecisionNow
  <2> QED BY <2>1, Kinds DEF Decision
<1>2. r ++ (x & d) # G("lengths") & Nil
  BY <1>1, NilSequence
<1>3. r ++ (x & d) # Mechanism
  BY <1>1, MechanismFacts DEF Mechanism
<1>4. K = R("result") & Z /\ ResultOf(r ++ (x & d))
  BY <1>2, <1>3 DEF OpenGoal
<1> QED BY <1>4, ResultDecides

LEMMA OpeningDecides ==
  ASSUME NEW c, NEW r, NEW x, NEW d, Decision(r, x, d), Opening(c, r ++ (x & d))
  PROVE  \/ x = D("close")
         \/ x = D("verdict") /\ d = Nil /\ Toward(R("result") & Z, c, r, Nil)
         \/ x = D("reason") /\ d = Nil /\ Minor = 8 /\ Toward(R("result") & Z, c, r, S("result", "failed") & Nil)
<1>1. PICK K, B : OpenGoal(K, B) /\ Near(Ordinary, K, B, c, r ++ (x & d))
  BY DEF Opening
<1>2. PICK r2 : /\ AllOp(r2, "send") /\ B = r2 ++ (x & d)
                /\ \A d2 : ASequence(d2) => Near(Ordinary, K, r2 ++ d2, c, r ++ d2)
  BY <1>1, NearDecision DEF Decision
<1>3. Decision(r2, x, d) /\ OpenGoal(K, r2 ++ (x & d)) /\ Toward(K, c, r, r2)
  BY <1>1, <1>2 DEF Decision, Toward
<1> QED BY <1>3, OpenDecides

(* The server's decisions in the way to an authentication. *)
EarlyDecided(tk, c, r, x, d) ==
  \/ x = D("close")
  \/ /\ x = D("tls") /\ tk # Nil /\ Fresh /\ r = S("finished", 0) & Nil
     /\ \E c1 : c = F & c1 /\ Waiting(tk, c1, d)
  \/ /\ x = D("reason") /\ d = Nil /\ Calm
     /\ \E X : ASequence(X) /\ Toward(ReadReason ++ X, c, r, Nil)
  \/ /\ x = D("reason") /\ d = Nil /\ Calm /\ tk # Nil /\ Minor = 8
     /\ Toward(R("result") & Z, c, r, S("result", "failed") & Nil)
  \/ /\ x = D("reason") /\ d = Nil /\ Calm /\ Toward(R("count") & Z, c, r, S("count", 0) & Nil)
     /\ tk = OnlyTLS \/ (tk = Nil /\ Fresh /\ Listed(version))
  \/ /\ Calm /\ \E K, c2, r2 : /\ Ends(K) /\ AllOp(r2, "send") /\ Opening(c2, r2 ++ (x & d))
                               /\ Toward(K, c, r, r2)
  \/ x = D("verdict") /\ d = Nil /\ Calm /\ tk # Nil /\ Toward(R("result") & Z, c, r, Nil)
  \/ x = D("admit") /\ d = Nil /\ Calm /\ tk # Nil /\ Toward(Z, c, r, Nil)
  \/ /\ x = D("veAnnounce") /\ d = Nil /\ Calm /\ tk = OnlyVe /\ Fresh
     /\ Toward(R("veVersion") & Z, c, r, Nil)
  \/ /\ x = D("veVersion") /\ d = Nil /\ Calm /\ tk = OnlyVe /\ Fresh
     /\ Toward(R("veStatus") & (R("veCount") & Z), c, r, Nil)

LEMMA GetNotDecided ==
  ASSUME NEW r, NEW x, NEW d, Decision(r, x, d), NEW w, NEW q, ASequence(q)
  PROVE  r ++ (x & d) # G(w) & q
<1> SUFFICES ASSUME r ++ (x & d) = G(w) & q PROVE FALSE
  OBVIOUS
<1>1. x = G(w)
  BY Kinds, DecisionNow
<1> QED BY <1>1, Kinds DEF Decision

LEMMA VeDecides ==
  ASSUME NEW K, NEW r, NEW x, NEW d, Decision(r, x, d), VeCase(K, r ++ (x & d))
  PROVE  \/ x = D("close")
         \/ x = D("veAnnounce") /\ d = Nil /\ r = Nil /\ K = R("veVersion") & Z
         \/ x = D("veVersion") /\ d = Nil /\ r = Nil /\ K = R("veStatus") & (R("veCount") & Z)
<1>2. x.op # "send" /\ \A w, v : S(w, v).op = "send" /\ D(w).op # "send"
  BY Kinds DEF Decision
<1>3. \A w : r ++ (x & d) = D(w) & Nil => r = Nil /\ x = D(w) /\ d = Nil
  BY <1>2, NilSequence, DecisionNow
<1>4. ASSUME NEW v, r ++ (x & d) = ServerVeNCrypt(v) PROVE FALSE
  <2> DEFINE q == D("veVersion") & Nil
             m == G("veVersion") & q
  <2>1. ASequence(q) /\ ASequence(m) /\ r ++ (x & d) = S("veVersion", v) & m
    BY <1>4, ServedScripts, ConsSequence, NilSequence
  <2> HIDE DEF m
  <2>2. PICK r1 : Decision(r1, x, d) /\ m = r1 ++ (x & d)
    BY <1>2, <2>1, DecisionAfter
  <2>3. r1 ++ (x & d) = G("veVersion") & q
    BY <2>2 DEF m
  <2> HIDE DEF q
  <2> QED BY <2>1, <2>2, <2>3, GetNotDecided
<1>5. ASSUME NEW v, NEW m, ASequence(m), r ++ (x & d) = S("veStatus", v) & m
      PROVE \E r1 : Decision(r1, x, d) /\ m = r1 ++ (x & d)
  BY <1>2, <1>5, DecisionAfter
<1>6. ASSUME NEW m, VeOffer(m), r ++ (x & d) = S("veStatus", 0) & m PROVE x = D("close")
  <2>1. PICK r1 : Decision(r1, x, d) /\ m = r1 ++ (x & d)
    BY <1>5, <1>6, VeOfferFacts
  <2> QED BY <1>6, <2>1, VeOfferDecides
<1>7. ASSUME r ++ (x & d) = S("veStatus", 1) & (D("close") & Nil) PROVE x = D("close")
  <2> DEFINE n == D("close") & Nil
  <2>1. ASequence(n) /\ r ++ (x & d) = S("veStatus", 1) & n
    BY <1>7, ConsSequence, NilSequence
  <2> HIDE DEF n
  <2>2. PICK r1 : Decision(r1, x, d) /\ n = r1 ++ (x & d)
    BY <1>5, <2>1
  <2>3. r1 ++ (x & d) = D("close") & Nil
    BY <2>2 DEF n
  <2> QED BY <1>2, <2>2, <2>3, NilSequence, DecisionNow
<1>8. VeOffer(r ++ (x & d)) => x = D("close")
  BY VeOfferDecides
<1> QED BY <1>3, <1>4, <1>6, <1>7, <1>8 DEF VeCase, VeAnswer

LEMMA EarlyDecides ==
  ASSUME NEW tk, NEW c, NEW r, NEW x, NEW d, Decision(r, x, d), Early(tk, c, r ++ (x & d))
  PROVE  EarlyDecided(tk, c, r, x, d)
<1> DEFINE y == r ++ (x & d)
<1>0. x.op # "send" /\ \A w, v : S(w, v).op = "send" /\ D(w).op # "send"
  BY Kinds DEF Decision
<1>1. CASE tk # Nil /\ Shake(tk, c, y)
  <2>1. PICK c1, s1 : /\ Waiting(tk, c1, s1)
                      /\ \/ y = Hello(Finish(s1))
                         \/ c = F & c1 /\ y = Finish(s1)
    BY <1>1 DEF Shake
  <2> DEFINE f == Finish(s1)
             e == D("tls") & s1
  <2>2. ASequence(f) /\ ASequence(s1) /\ ASequence(e) /\ f = S("finished", 0) & e
    BY <2>1, WaitingFacts DEF Finish
  <2> HIDE DEF f
  <2>3. y # Hello(f)
    BY <2>2, GetNotDecided DEF Hello
  <2>4. c = F & c1 /\ y = f
    BY <2>1, <2>3 DEF f
  <2> HIDE DEF e
  <2>5. PICK r1 : Decision(r1, x, d) /\ r = S("finished", 0) & r1 /\ e = r1 ++ (x & d)
    BY <1>0, <2>2, <2>4, DecisionAfter
  <2>6. r1 ++ (x & d) = D("tls") & s1
    BY <2>5 DEF e
  <2>7. r1 = Nil /\ x = D("tls") /\ d = s1
    BY <1>0, <2>2, <2>5, <2>6, DecisionNow
  <2> QED BY <1>1, <2>1, <2>4, <2>5, <2>7 DEF EarlyDecided, Shake
<1>2. CASE Calm /\ \E K, B : EarlyGoal(tk, K, B) /\ Near(Ordinary, K, B, c, y)
  <2>1. PICK K, B : EarlyGoal(tk, K, B) /\ Near(Ordinary, K, B, c, y)
    BY <1>2
  <2>2. PICK r2 : /\ AllOp(r2, "send") /\ B = r2 ++ (x & d)
                  /\ \A d2 : ASequence(d2) => Near(Ordinary, K, r2 ++ d2, c, r ++ d2)
    BY <2>1, NearDecision DEF Decision
  <2>3. Decision(r2, x, d) /\ EarlyCase(tk, K, r2 ++ (x & d)) /\ Toward(K, c, r, r2)
    BY <2>1, <2>2, EarlyFirst DEF Decision, Toward
  <2> HIDE <2>2
  <2> DEFINE b == r2 ++ (x & d)
  <2>4. \A w : b = D(w) & Nil => r2 = Nil /\ x = D(w) /\ d = Nil
    BY <1>0, <2>3, NilSequence, DecisionNow
  <2>5. CASE b = D("reason") & Nil /\ \E X : ASequence(X) /\ K = ReadReason ++ X
    BY <1>2, <2>3, <2>4, <2>5 DEF EarlyDecided
  <2>6. CASE Ends(K) /\ b = D("close") & Nil
    BY <2>4, <2>6 DEF EarlyDecided
  <2>7. CASE Ends(K) /\ \E c2 : Opening(c2, b)
    BY <1>2, <2>3, <2>7 DEF EarlyDecided, Decision
  <2>8. CASE tk # Nil /\ OpenGoal(K, b)
    BY <1>2, <2>3, <2>8, OpenDecides DEF EarlyDecided
  <2>9. CASE tk # Nil /\ K = Z /\ b = D("admit") & Nil
    BY <1>2, <2>3, <2>4, <2>9 DEF EarlyDecided
  <2>10. CASE Hail(tk, K, b)
    <3>1. PICK c1, s1 : Waiting(tk, c1, s1) /\ b = G("hello") & Finish(s1)
      BY <2>10 DEF Hail, Hello
    <3> QED BY <2>3, <3>1, WaitingFacts, GetNotDecided
  <2>11. CASE tk = OnlyVe /\ Fresh /\ VeCase(K, b)
    BY <1>2, <2>3, <2>11, VeDecides DEF EarlyDecided
  <2>12. CASE /\ tk = OnlyTLS \/ (tk = Nil /\ Fresh /\ Listed(version))
              /\ K = R("count") & Z /\ Offer(b)
    BY <1>2, <2>3, <2>12, OfferDecides DEF EarlyDecided
  <2> HIDE DEF b
  <2>13. EarlyCase(tk, K, b)
    BY <2>3 DEF b
  <2> QED BY <2>13, <2>5, <2>6, <2>7, <2>8, <2>9, <2>10, <2>11, <2>12 DEF EarlyCase
<1> QED BY <1>1, <1>2 DEF Early
(* Where the client is when SASL is decided. *)
SaslToward(c, r, u) ==
  \/ /\ Answered /\ Through /\ c = R("saslData") & (R("saslComplete") & Z)
     /\ \E data \in {Served, -1} : r = S("saslData", data) & (S("saslComplete", Through) & u)
  \/ /\ Answered /\ Through /\ serverin = Served /\ c = R("saslComplete") & Z
     /\ r = S("saslComplete", Through) & u
  \/ /\ Answered /\ Through /\ serverin = Served /\ complete = Through /\ c = L("saslStep") & Z
     /\ r = u
  \/ /\ Exchanged /\ sasl.ok /\ sasl.given = 2 * Half /\ r = u
     /\ c = L("saslStrength") & (R("saslResult") & Z) \/ c = R("saslResult") & Z

LEMMA SaslThere ==
  ASSUME NEW c, NEW r, NEW u, AllOp(u, "send"), SaslToward(c, r, u)',
         NEW d, ASequence(d), SaslVerdict(u ++ d)'
  PROVE  SaslTalk(c, r ++ d)'
<1> DEFINE v == u ++ d
           tu == S("saslComplete", Through') & u
           tv == S("saslComplete", Through') & v
<1>1. ASequence(u) /\ ASequence(tu) /\ tu ++ d = tv
  BY AllOpSequence, JoinCons, ConsSequence
<1>2. \A data : (S("saslData", data) & tu) ++ d = S("saslData", data) & tv
  BY <1>1, JoinCons
<1>3. CASE /\ Answered' /\ Through' /\ c = R("saslData") & (R("saslComplete") & Z)
           /\ \E data \in {Served', -1} : r = S("saslData", data) & tu
  <2>1. PICK data \in {Served', -1} : r ++ d = S("saslData", data) & tv
    BY <1>2, <1>3
  <2>2. SaslReplied(c, r ++ d)'
    BY <1>3, <2>1 DEF SaslReplied, SaslGoesOn
  <2> QED BY <2>2 DEF SaslTalk
<1>4. CASE /\ Answered' /\ Through' /\ serverin' = Served' /\ c = R("saslComplete") & Z
           /\ r = tu
  BY <1>1, <1>4 DEF SaslTalk, SaslHalf, SaslGoesOn
<1>5. CASE /\ Answered' /\ Through' /\ serverin' = Served' /\ complete' = Through' /\ c = L("saslStep") & Z
           /\ r = u
  BY <1>5 DEF SaslTalk, SaslAsks, SaslGoesOn
<1>6. CASE /\ Exchanged' /\ sasl'.ok /\ sasl'.given = 2 * Half' /\ r = u
           /\ c = L("saslStrength") & (R("saslResult") & Z) \/ c = R("saslResult") & Z
  BY <1>6 DEF SaslTalk, SaslClosing
<1> QED BY <1>3, <1>4, <1>5, <1>6 DEF SaslToward

LEMMA VerdictDecides ==
  ASSUME NEW r, NEW x, NEW d, Decision(r, x, d), SaslVerdict(r ++ (x & d))
  PROVE  \/ x = D("close")
         \/ x = D("saslVerdict") /\ d = Nil /\ r = Nil /\ Calm
         \/ /\ x = D("saslLayer") /\ d = ServerJoin("fits") /\ r = S("saslResult", "ok") & Nil
            /\ Calm /\ verdict = "ok"
<1>2. x.op # "send" /\ \A w, v : S(w, v).op = "send" /\ D(w).op # "send"
  BY Kinds DEF Decision
<1>3. ASSUME NEW v, NEW w, NEW q, ASequence(q), r ++ (x & d) = S("saslResult", v) & (D(w) & q)
      PROVE  x = D(w) /\ d = q /\ r = S("saslResult", v) & Nil
  <2> DEFINE n == D(w) & q
  <2>1. ASequence(n) /\ r ++ (x & d) = S("saslResult", v) & n
    BY <1>3, ConsSequence
  <2> HIDE DEF n
  <2>2. PICK r1 : Decision(r1, x, d) /\ r = S("saslResult", v) & r1 /\ n = r1 ++ (x & d)
    BY <1>2, <2>1, DecisionAfter
  <2>3. r1 ++ (x & d) = D(w) & q
    BY <2>2 DEF n
  <2> QED BY <1>2, <1>3, <2>2, <2>3, DecisionNow
<1>4. r ++ (x & d) # S("saslResult", "ok") & ServerJoin("fits")
  BY JoinFacts, <1>2, WireCons, DecisionNot
<1>5. r ++ (x & d) = D("saslVerdict") & Nil => r = Nil /\ x = D("saslVerdict") /\ d = Nil
  BY <1>2, NilSequence, DecisionNow
<1>6. ASequence(Nil) /\ ASequence(ServerJoin("fits"))
  BY NilSequence, ServedScripts
<1> QED BY <1>3, <1>4, <1>5, <1>6 DEF SaslVerdict

SaslDecided(c, r, x, d) ==
  \/ x = D("close")
  \/ x = D("saslVerdict") /\ d = Nil /\ Calm /\ SaslToward(c, r, Nil)
  \/ /\ x = D("saslLayer") /\ d = ServerJoin("fits") /\ Calm /\ verdict = "ok"
     /\ SaslToward(c, r, S("saslResult", "ok") & Nil)
  \/ /\ x = D("saslLayer") /\ d = ServerJoin("fits") /\ verdict = "ok" /\ r = Nil /\ c = Z
     /\ saslconn /\ serverLayer = (IF tls THEN "tls" ELSE "plain")

LEMMA SaslDecides ==
  ASSUME NEW c, NEW r, NEW x, NEW d, Decision(r, x, d), SaslTalk(c, r ++ (x & d))
  PROVE  SaslDecided(c, r, x, d)
<1> DEFINE y == r ++ (x & d)
<1>0. x.op # "send" /\ \A w, v : S(w, v).op = "send" /\ D(w).op # "send"
  BY Kinds DEF Decision
<1>1. ASSUME NEW u, Decision(u, x, d), SaslVerdict(u ++ (x & d)), SaslToward(c, r, u)
      PROVE  SaslDecided(c, r, x, d)
  BY <1>1, VerdictDecides DEF SaslDecided
<1>2. ASSUME NEW u, Decision(u, x, d), SaslGoesOn(u ++ (x & d))
      PROVE  Through /\ SaslVerdict(u ++ (x & d))
  BY <1>2, NilSequence, GetNotDecided DEF SaslGoesOn
<1>3. ~SaslWaits(c, y)
  BY NilSequence, GetNotDecided DEF SaslWaits
<1>4. CASE SaslReplied(c, y)
  <2>1. PICK data \in {Served, -1} : \E s1 :
          y = S("saslData", data) & (S("saslComplete", Through) & s1) /\ SaslGoesOn(s1)
    BY <1>4 DEF SaslReplied
  <2>2. PICK s1 : y = S("saslData", data) & (S("saslComplete", Through) & s1) /\ SaslGoesOn(s1)
    BY <2>1
  <2> DEFINE m == S("saslComplete", Through) & s1
  <2>3. ASequence(s1) /\ ASequence(m) /\ y = S("saslData", data) & m
    BY <2>2, GoesOnFacts, ConsSequence
  <2> HIDE DEF m
  <2>4. PICK r1 : Decision(r1, x, d) /\ r = S("saslData", data) & r1 /\ m = r1 ++ (x & d)
    BY <1>0, <2>3, DecisionAfter
  <2>5. r1 ++ (x & d) = S("saslComplete", Through) & s1
    BY <2>4 DEF m
  <2>6. PICK u : Decision(u, x, d) /\ r1 = S("saslComplete", Through) & u /\ s1 = u ++ (x & d)
    BY <1>0, <2>3, <2>4, <2>5, DecisionAfter
  <2>7. Through /\ SaslVerdict(u ++ (x & d))
    BY <1>2, <2>2, <2>6
  <2>8. SaslToward(c, r, u)
    BY <1>4, <2>4, <2>6, <2>7 DEF SaslToward, SaslReplied
  <2> QED BY <1>1, <2>6, <2>7, <2>8
<1>5. CASE SaslHalf(c, y)
  <2>1. PICK s1 : y = S("saslComplete", Through) & s1 /\ SaslGoesOn(s1)
    BY <1>5 DEF SaslHalf
  <2>2. PICK u : Decision(u, x, d) /\ r = S("saslComplete", Through) & u /\ s1 = u ++ (x & d)
    BY <1>0, <2>1, GoesOnFacts, DecisionAfter
  <2>3. Through /\ SaslVerdict(u ++ (x & d))
    BY <1>2, <2>1, <2>2
  <2>4. SaslToward(c, r, u)
    BY <1>5, <2>2, <2>3 DEF SaslToward, SaslHalf
  <2> QED BY <1>1, <2>2, <2>3, <2>4
<1>6. CASE SaslAsks(c, y)
  <2>1. Through /\ SaslVerdict(y)
    BY <1>2, <1>6 DEF SaslAsks
  <2>2. SaslToward(c, r, r)
    BY <1>6, <2>1 DEF SaslToward, SaslAsks
  <2> QED BY <1>1, <2>1, <2>2
<1>7. CASE SaslClosing(c, y)
  <2>1. SaslToward(c, r, r) /\ SaslVerdict(y)
    BY <1>7 DEF SaslToward, SaslClosing
  <2> QED BY <1>1, <2>1
<1>8. CASE SaslSecured(c, y)
  <2>1. y = D("saslLayer") & ServerJoin("fits") /\ ASequence(ServerJoin("fits"))
    BY <1>8, ServedScripts DEF SaslSecured
  <2>2. r = Nil /\ x = D("saslLayer") /\ d = ServerJoin("fits")
    BY <1>0, <2>1, DecisionNow
  <2> QED BY <1>8, <2>2 DEF SaslDecided, SaslSecured
<1> QED BY <1>3, <1>4, <1>5, <1>6, <1>7, <1>8 DEF SaslTalk

LeadDecided(tk, c, r, x, d) ==
  /\ ~tls /\ ~saslconn /\ serverLayer = "tls"
  /\ \E c1, r1 : /\ c = F & c1 /\ r = S("finished", 0) & r1 /\ Decision(r1, x, d)
                 /\ \/ /\ tk = OnlyTLS /\ c1 = R("count") & Z
                       /\ x = D("reason") /\ d = Nil /\ r1 = S("count", 0) & Nil
                    \/ ViaVe(tk) /\ Opening(c1, r1 ++ (x & d))
LagDecided(tk, c, r, x, d) ==
  /\ tls /\ ~saslconn /\ serverLayer = "plain" /\ x = D("tls") /\ r = Nil /\ Waiting(tk, c, d)

LEMMA TalkDecides ==
  ASSUME NEW tk, NEW c, NEW r, NEW x, NEW d, Decision(r, x, d), Talk(tk, c, r ++ (x & d))
  PROVE  \/ x = D("close")
         \/ EarlyDecided(tk, c, r, x, d)
         \/ tk # Nil /\ SaslDecided(c, r, x, d)
         \/ tk # Nil /\ LeadDecided(tk, c, r, x, d)
         \/ tk # Nil /\ LagDecided(tk, c, r, x, d)
<1> DEFINE y == r ++ (x & d)
<1>0. x.op # "send" /\ \A w, v : S(w, v).op = "send" /\ D(w).op # "send"
  BY Kinds DEF Decision
<1>1. ~Joining(c, y)
  <2> SUFFICES ASSUME Joining(c, y) PROVE FALSE
    OBVIOUS
  <2>1. PICK r2 : AllOp(r2, "send") /\ Nil = r2 ++ (x & d)
    BY NearDecision DEF Joining, Decision
  <2> QED BY <2>1, HeadsNil DEF Decision
<1>2. CASE tk # Nil /\ Lead(tk, c, y)
  <2>1. PICK c1, s1 : Inside(tk, c1, s1) /\ c = F & c1 /\ y = S("finished", 0) & s1
    BY <1>2 DEF Lead
  <2>2. PICK r1 : Decision(r1, x, d) /\ r = S("finished", 0) & r1 /\ s1 = r1 ++ (x & d)
    BY <1>0, <2>1, InsideFacts, DecisionAfter
  <2>3. CASE tk = OnlyTLS /\ c1 = R("count") & Z /\ Offer(s1)
    <3>1. x = D("close") \/ (x = D("reason") /\ d = Nil /\ r1 = S("count", 0) & Nil)
      BY <2>2, <2>3, OfferDecides
    <3> QED BY <1>2, <2>1, <2>2, <2>3, <3>1 DEF Lead, LeadDecided
  <2>4. CASE ViaVe(tk) /\ Opening(c1, s1)
    BY <1>2, <2>1, <2>2, <2>4 DEF Lead, LeadDecided
  <2> QED BY <2>1, <2>3, <2>4 DEF Inside
<1>3. CASE tk # Nil /\ Lag(tk, c, y)
  <2>1. PICK s1 : Waiting(tk, c, s1) /\ y = D("tls") & s1
    BY <1>3 DEF Lag
  <2>2. r = Nil /\ x = D("tls") /\ d = s1
    BY <1>0, <2>1, WaitingFacts, DecisionNow
  <2> QED BY <1>3, <2>1, <2>2 DEF Lag, LagDecided
<1> QED BY <1>1, <1>2, <1>3, EarlyDecides, SaslDecides DEF Talk

-------------------------------------------------------------------------------
(* When the server decides, the conversation goes on. *)
Firm == UNCHANGED <<version, tls, saslconn, mech, sasl, serverin, complete, reply,
                    serverLayer, exchanges>>

LEMMA FirmFacts ==
  ASSUME Firm
  PROVE  /\ layer' = layer /\ Minor' = Minor
         /\ Calm' <=> Calm
         /\ Fresh' <=> Fresh
         /\ Exchanged' <=> Exchanged
         /\ Answered' <=> Answered
         /\ Through' <=> Through
         /\ Served' = Served /\ Half' = Half /\ NextMessage' = NextMessage
<1> USE DEF Firm
<1>1. layer' = layer
  BY DEF layer
<1>2. Calm' <=> Calm
  BY <1>1 DEF Calm
<1>3. Fresh' <=> Fresh
  BY DEF Fresh
<1>4. Minor' = Minor
  BY DEF Minor
<1>5. Half' = Half /\ NextMessage' = NextMessage
  BY DEF Half, NextMessage
<1>6. Exchanged' <=> Exchanged
  BY <1>5 DEF Exchanged
<1>7. Answered' <=> Answered
  BY <1>6 DEF Answered
<1>8. (Through' <=> Through) /\ Served' = Served
  BY <1>5 DEF Through, Served
<1> QED BY <1>1, <1>2, <1>3, <1>4, <1>5, <1>6, <1>7, <1>8

Distinct == \A v, w : D(v) = D(w) => v = w

LEMMA DecisionsDistinct == Distinct
BY Kinds DEF Distinct

(* What the server goes on with in an authentication, ... *)
LEMMA OpeningThere ==
  ASSUME NEW c, NEW r, AllOp(r, "send"), NEW u, NEW d, ASequence(d), ASequence(u),
         Toward(R("result") & Z, c, r, u), ResultOf(u ++ d)'
  PROVE  Opening(c, r ++ d)'
<1>1. Near(Ordinary, R("result") & Z, u ++ d, c, r ++ d)
  BY DEF Toward
<1>2. OpenGoal(R("result") & Z, u ++ d)'
  BY DEF OpenGoal
<1> QED BY <1>1, <1>2 DEF Opening

LEMMA OpeningJudged ==
  ASSUME NEW c, NEW r, AllOp(r, "send"), NEW d, ASequence(d), Opening(c, r ++ (D("verdict") & d)),
         NEW B, ASequence(B), ResultOf(B)'
  PROVE  Opening(c, r ++ B)'
<1>1. Decision(r, D("verdict"), d)
  BY Kinds DEF Decision
<1>2. Toward(R("result") & Z, c, r, Nil)
  BY <1>1, OpeningDecides, DecisionsDistinct DEF Distinct
<1>3. Nil ++ B = B
  BY JoinNil
<1> QED BY <1>2, <1>3, OpeningThere, NilSequence

LEMMA OpeningExplained ==
  ASSUME NEW c, NEW r, AllOp(r, "send"), NEW d, ASequence(d), Opening(c, r ++ (D("reason") & d)),
         Firm, NEW size \in Sizes
  PROVE  Opening(c, r ++ ServerReason(size))'
<1> DEFINE q == ServerReason(size)
           u == S("result", "failed") & Nil
<1>1. Decision(r, D("reason"), d)
  BY Kinds DEF Decision
<1>2. Toward(R("result") & Z, c, r, u) /\ Minor = 8
  BY <1>1, OpeningDecides, DecisionsDistinct DEF Distinct
<1>3. ASequence(q) /\ ASequence(u) /\ u ++ q = S("result", "failed") & q
  BY ServedScripts, NilSequence, ConsSequence, JoinCons, JoinNil
<1>4. Minor' = 8
  BY <1>2, FirmFacts
<1>5. ResultOf(S("result", "failed") & q)'
  BY <1>4 DEF ResultOf
<1> HIDE DEF q, u
<1> QED BY <1>2, <1>3, <1>5, OpeningThere DEF q

LEMMA EarlyThere ==
  ASSUME NEW tk, NEW c, NEW K, NEW r, NEW u, NEW d, ASequence(d),
         Toward(K, c, r, u), EarlyGoal(tk, K, u ++ d)', Calm'
  PROVE  Early(tk, c, r ++ d)'
<1>1. Near(Ordinary, K, u ++ d, c, r ++ d)
  BY DEF Toward
<1> QED BY <1>1 DEF Early

LEMMA Explained ==
  ASSUME NEW tk, NEW c, NEW r, AllOp(r, "send"), NEW d, ASequence(d),
         Talk(tk, c, r ++ (D("reason") & d)), Firm, NEW size \in Sizes
  PROVE  Talk(tk, c, r ++ ServerReason(size))'
<1> DEFINE q == ServerReason(size)
           x == D("reason")
<1>0. Decision(r, x, d) /\ ASequence(q)
  BY Kinds, ServedScripts DEF Decision
<1>1. x # D("close") /\ x # D("tls") /\ x # D("verdict") /\ x # D("admit") /\ x # D("veAnnounce")
      /\ x # D("veVersion") /\ x # D("saslVerdict") /\ x # D("saslLayer")
  BY DecisionsDistinct DEF Distinct
<1>2. (Calm => Calm') /\ (Fresh => Fresh') /\ Minor' = Minor /\ (Listed(version) => Listed(version)')
  BY FirmFacts DEF Firm
<1>3. Nil ++ q = q
  BY <1>0, JoinNil
<1>4. \A v : (S(v, 0) & Nil) ++ q = S(v, 0) & q
  BY <1>0, JoinCons, JoinNil, NilSequence
<1>5. (S("result", "failed") & Nil) ++ q = S("result", "failed") & q
  BY <1>0, JoinCons, JoinNil, NilSequence
<1> HIDE DEF q
<1>6. ASSUME Calm, NEW X, ASequence(X), Toward(ReadReason ++ X, c, r, Nil)
      PROVE  Early(tk, c, r ++ q)'
  <2>1. Near(Ordinary, ReadReason ++ X, q, c, r ++ q)
    BY <1>0, <1>3, <1>6 DEF Toward
  <2>2. Near(Ordinary, GiveUp("refused") & X, D("close") & Nil, ReadReason ++ X, q)
    BY <1>6, ReasonNear DEF q
  <2>3. Near(Ordinary, GiveUp("refused") & X, D("close") & Nil, c, r ++ q)
    BY <2>1, <2>2, NearNear
  <2>4. Ends(GiveUp("refused") & X)
    BY <1>6 DEF Ends
  <2>5. EarlyGoal(tk, GiveUp("refused") & X, D("close") & Nil)'
    BY <2>4 DEF EarlyGoal, Refusal, Ends
  <2> QED BY <1>2, <1>6, <2>3, <2>5 DEF Early
<1>7. ASSUME Calm, tk # Nil, Minor = 8, Toward(R("result") & Z, c, r, S("result", "failed") & Nil)
      PROVE  Early(tk, c, r ++ q)'
  <2>1. ResultOf(S("result", "failed") & q)'
    BY <1>2, <1>7 DEF ResultOf, q
  <2>2. EarlyGoal(tk, R("result") & Z, S("result", "failed") & q)'
    BY <2>1, <1>7 DEF EarlyGoal, OpenGoal
  <2> QED BY <1>0, <1>2, <1>5, <1>7, <2>2, EarlyThere
<1>8. ASSUME Calm, Toward(R("count") & Z, c, r, S("count", 0) & Nil),
             tk = OnlyTLS \/ (tk = Nil /\ Fresh /\ Listed(version))
      PROVE  Early(tk, c, r ++ q)'
  <2>1. Offer(S("count", 0) & q)'
    BY DEF Offer, q
  <2>2. EarlyGoal(tk, R("count") & Z, S("count", 0) & q)'
    BY <1>2, <1>8, <2>1 DEF EarlyGoal
  <2> QED BY <1>0, <1>2, <1>4, <1>8, <2>2, EarlyThere
<1>9. ASSUME Calm, NEW K, NEW c2, NEW r2, Ends(K), AllOp(r2, "send"), Opening(c2, r2 ++ (x & d)),
             Toward(K, c, r, r2)
      PROVE  Early(tk, c, r ++ q)'
  <2>1. Opening(c2, r2 ++ q)'
    BY <1>9, OpeningExplained DEF q
  <2>2. EarlyGoal(tk, K, r2 ++ q)'
    BY <1>9, <2>1 DEF EarlyGoal, Refusal, Ends
  <2> QED BY <1>0, <1>2, <1>9, <2>2, EarlyThere
<1>10. ASSUME EarlyDecided(tk, c, r, x, d) PROVE Early(tk, c, r ++ q)'
  BY <1>1, <1>6, <1>7, <1>8, <1>9, <1>10 DEF EarlyDecided
<1>11. ~SaslDecided(c, r, x, d)
  BY <1>1 DEF SaslDecided
<1>12. ASSUME LeadDecided(tk, c, r, x, d) PROVE Lead(tk, c, r ++ q)'
  <2>1. PICK c1, r1 :
          /\ c = F & c1 /\ r = S("finished", 0) & r1 /\ Decision(r1, x, d)
          /\ \/ tk = OnlyTLS /\ c1 = R("count") & Z /\ r1 = S("count", 0) & Nil
             \/ ViaVe(tk) /\ Opening(c1, r1 ++ (x & d))
    BY <1>12 DEF LeadDecided
  <2>2. r ++ q = S("finished", 0) & (r1 ++ q)
    BY <1>0, <2>1, AllOpSequence, JoinCons DEF Decision
  <2>3. Inside(tk, c1, r1 ++ q)'
    <3>1. CASE tk = OnlyTLS /\ c1 = R("count") & Z /\ r1 = S("count", 0) & Nil
      <4>1. Offer(S("count", 0) & q)'
        BY DEF Offer, q
      <4> QED BY <1>4, <3>1, <4>1 DEF Inside
    <3>2. CASE ViaVe(tk) /\ Opening(c1, r1 ++ (x & d))
      <4>1. Opening(c1, r1 ++ q)'
        BY <1>0, <2>1, <3>2, OpeningExplained DEF Decision, q
      <4> QED BY <3>2, <4>1 DEF Inside, ViaVe
    <3> QED BY <2>1, <3>1, <3>2
  <2>4. (~tls /\ ~saslconn /\ serverLayer = "tls")'
    BY <1>12 DEF LeadDecided, Firm
  <2> QED BY <2>1, <2>2, <2>3, <2>4 DEF Lead
<1>13. ~LagDecided(tk, c, r, x, d)
  BY <1>1 DEF LagDecided
<1>14. Talk(tk, c, r ++ q)'
  BY <1>0, <1>1, <1>10, <1>11, <1>12, <1>13, TalkDecides DEF Talk
<1> QED BY <1>14 DEF q

LEMMA OpeningNot ==
  ASSUME NEW c, NEW r, NEW x, NEW d, Decision(r, x, d), Opening(c, r ++ (x & d))
  PROVE  x = D("close") \/ x = D("verdict") \/ x = D("reason")
BY OpeningDecides

LEMMA Judged ==
  ASSUME NEW tk, NEW c, NEW r, AllOp(r, "send"), NEW d, ASequence(d),
         Talk(tk, c, r ++ (D("verdict") & d)), Firm, NEW B, ASequence(B), ResultOf(B)'
  PROVE  Talk(tk, c, r ++ B)'
<1> DEFINE x == D("verdict")
<1>0. Decision(r, x, d)
  BY Kinds DEF Decision
<1>1. x # D("close") /\ x # D("tls") /\ x # D("reason") /\ x # D("admit") /\ x # D("veAnnounce")
      /\ x # D("veVersion") /\ x # D("saslVerdict") /\ x # D("saslLayer")
  BY DecisionsDistinct DEF Distinct
<1>2. Calm => Calm'
  BY FirmFacts
<1>3. Nil ++ B = B
  BY JoinNil
<1>7. ASSUME Calm, tk # Nil, Toward(R("result") & Z, c, r, Nil)
      PROVE  Early(tk, c, r ++ B)'
  <2>2. EarlyGoal(tk, R("result") & Z, B)'
    BY <1>7 DEF EarlyGoal, OpenGoal
  <2> QED BY <1>2, <1>3, <1>7, <2>2, EarlyThere
<1>9. ASSUME Calm, NEW K, NEW c2, NEW r2, Ends(K), AllOp(r2, "send"), Opening(c2, r2 ++ (x & d)),
             Toward(K, c, r, r2)
      PROVE  Early(tk, c, r ++ B)'
  <2>1. Opening(c2, r2 ++ B)'
    BY <1>9, OpeningJudged
  <2>2. EarlyGoal(tk, K, r2 ++ B)'
    BY <1>9, <2>1 DEF EarlyGoal, Refusal, Ends
  <2> QED BY <1>2, <1>9, <2>2, EarlyThere
<1>10. ASSUME EarlyDecided(tk, c, r, x, d) PROVE Early(tk, c, r ++ B)'
  BY <1>1, <1>7, <1>9, <1>10 DEF EarlyDecided
<1>11. ~SaslDecided(c, r, x, d)
  BY <1>1 DEF SaslDecided
<1>12. ASSUME LeadDecided(tk, c, r, x, d) PROVE Lead(tk, c, r ++ B)'
  <2>1. PICK c1, r1 :
          /\ c = F & c1 /\ r = S("finished", 0) & r1 /\ Decision(r1, x, d)
          /\ ViaVe(tk) /\ Opening(c1, r1 ++ (x & d))
    BY <1>1, <1>12 DEF LeadDecided
  <2>2. r ++ B = S("finished", 0) & (r1 ++ B)
    BY <2>1, AllOpSequence, JoinCons DEF Decision
  <2>3. Inside(tk, c1, r1 ++ B)'
    <3>1. Opening(c1, r1 ++ B)'
      BY <2>1, OpeningJudged DEF Decision
    <3> QED BY <2>1, <3>1 DEF Inside, ViaVe
  <2>4. (~tls /\ ~saslconn /\ serverLayer = "tls")'
    BY <1>12 DEF LeadDecided, Firm
  <2> QED BY <2>1, <2>2, <2>3, <2>4 DEF Lead
<1>13. ~LagDecided(tk, c, r, x, d)
  BY <1>1 DEF LagDecided
<1> QED BY <1>0, <1>1, <1>10, <1>11, <1>12, <1>13, TalkDecides DEF Talk

LEMMA Admitted ==
  ASSUME NEW tk, NEW c, NEW r, AllOp(r, "send"), NEW d, ASequence(d),
         Talk(tk, c, r ++ (D("admit") & d)), Firm, verdict' = "ok", NEW size
  PROVE  Talk(tk, c, r ++ ServerJoin(size))'
<1> DEFINE x == D("admit")
           q == ServerJoin(size)
<1>0. Decision(r, x, d) /\ ASequence(q)
  BY Kinds, ServedScripts DEF Decision
<1>1. x # D("close") /\ x # D("tls") /\ x # D("reason") /\ x # D("verdict") /\ x # D("veAnnounce")
      /\ x # D("veVersion") /\ x # D("saslVerdict") /\ x # D("saslLayer")
  BY DecisionsDistinct DEF Distinct
<1>2. Calm => (serverLayer = layer)'
  BY FirmFacts DEF Calm
<1>3. Nil ++ q = q
  BY <1>0, JoinNil
<1>4. ~SaslDecided(c, r, x, d) /\ ~LagDecided(tk, c, r, x, d)
  BY <1>1 DEF SaslDecided, LagDecided
<1>5. ~LeadDecided(tk, c, r, x, d)
  BY <1>1, OpeningNot DEF LeadDecided
<1>6. EarlyDecided(tk, c, r, x, d)
  BY <1>0, <1>1, <1>4, <1>5, TalkDecides
<1>7. Calm /\ tk # Nil /\ Toward(Z, c, r, Nil)
  <2>1. ASSUME NEW K, NEW c2, NEW r2, AllOp(r2, "send"), Opening(c2, r2 ++ (x & d)) PROVE FALSE
    <3>1. Decision(r2, x, d)
      BY <1>0, <2>1 DEF Decision
    <3> QED BY <1>1, <2>1, <3>1, OpeningNot
  <2> QED BY <1>1, <1>6, <2>1 DEF EarlyDecided
<1>8. Near(Ordinary, Z, q, c, r ++ q)
  BY <1>0, <1>3, <1>7 DEF Toward
<1>9. Near(Ordinary, Ready & Nil, Nil, c, r ++ q)
  BY <1>8, JoinNear, NearNear
<1>10. Joining(c, r ++ q)'
  BY <1>2, <1>7, <1>9 DEF Joining
<1> QED BY <1>7, <1>10 DEF Talk

LEMMA VeGoesOn ==
  ASSUME NEW tk, NEW c, NEW r, AllOp(r, "send"), NEW d, ASequence(d), NEW w,
         Talk(tk, c, r ++ (D(w) & d)), Firm, UNCHANGED verdict, NEW q, ASequence(q),
         \/ w = "veAnnounce" /\ \E v \in VeVersions : q = ServerVeNCrypt(v)
         \/ w = "veVersion" /\ VeAnswer(q)
  PROVE  Talk(tk, c, r ++ q)' /\ d = Nil
<1> DEFINE x == D(w)
<1>0. Decision(r, x, d)
  BY Kinds DEF Decision
<1>1. x # D("close") /\ x # D("tls") /\ x # D("reason") /\ x # D("verdict") /\ x # D("admit")
      /\ x # D("saslVerdict") /\ x # D("saslLayer")
      /\ (x = D("veAnnounce") => w = "veAnnounce") /\ (x = D("veVersion") => w = "veVersion")
  BY DecisionsDistinct DEF Distinct
<1>2. (Calm => Calm') /\ (Fresh => Fresh')
  BY FirmFacts
<1>3. Nil ++ q = q
  BY JoinNil
<1>4. ~SaslDecided(c, r, x, d) /\ ~LagDecided(tk, c, r, x, d)
  BY <1>1 DEF SaslDecided, LagDecided
<1>5. ~LeadDecided(tk, c, r, x, d)
  BY <1>1, OpeningNot DEF LeadDecided
<1>6. EarlyDecided(tk, c, r, x, d)
  BY <1>0, <1>1, <1>4, <1>5, TalkDecides
<1>7. ASSUME NEW K, NEW c2, NEW r2, AllOp(r2, "send"), Opening(c2, r2 ++ (x & d)) PROVE FALSE
  <2>1. Decision(r2, x, d)
    BY <1>0, <1>7 DEF Decision
  <2> QED BY <1>1, <1>7, <2>1, OpeningNot
<1>8. /\ d = Nil /\ Calm /\ tk = OnlyVe /\ Fresh
      /\ \/ w = "veAnnounce" /\ Toward(R("veVersion") & Z, c, r, Nil)
         \/ w = "veVersion" /\ Toward(R("veStatus") & (R("veCount") & Z), c, r, Nil)
  BY <1>1, <1>6, <1>7 DEF EarlyDecided
<1>9. CASE w = "veAnnounce" /\ Toward(R("veVersion") & Z, c, r, Nil)
  <2>1. \E v \in VeVersions : q = ServerVeNCrypt(v)
    BY <1>9
  <2>2. EarlyGoal(tk, R("veVersion") & Z, q)'
    BY <1>2, <1>8, <2>1 DEF EarlyGoal, VeGoal
  <2> QED BY <1>2, <1>3, <1>8, <1>9, <2>2, EarlyThere DEF Talk
<1>10. CASE w = "veVersion" /\ Toward(R("veStatus") & (R("veCount") & Z), c, r, Nil)
  <2>1. VeAnswer(q)
    BY <1>10
  <2>2. EarlyGoal(tk, R("veStatus") & (R("veCount") & Z), q)'
    BY <1>2, <1>8, <2>1 DEF EarlyGoal, VeGoal, VeAnswer, VeOffer
  <2> QED BY <1>2, <1>3, <1>8, <1>10, <2>2, EarlyThere DEF Talk
<1> QED BY <1>8, <1>9, <1>10

LEMMA SaslTowardStays ==
  ASSUME UNCHANGED <<mech, sasl, serverin, complete, exchanges>>,
         NEW c, NEW r, NEW u, SaslToward(c, r, u)
  PROVE  SaslToward(c, r, u)'
<1>1. Half' = Half /\ NextMessage' = NextMessage
  BY DEF Half, NextMessage
<1>2. Exchanged' <=> Exchanged
  BY <1>1 DEF Exchanged
<1>3. Answered' <=> Answered
  BY <1>2 DEF Answered
<1>4. Through' = Through /\ Served' = Served
  BY <1>1 DEF Through, Served
<1> QED BY <1>1, <1>2, <1>3, <1>4 DEF SaslToward

LEMMA OnlySasl ==
  ASSUME NEW tk, NEW c, NEW r, AllOp(r, "send"), NEW d, ASequence(d), NEW w \in {"saslVerdict", "saslLayer"},
         Talk(tk, c, r ++ (D(w) & d))
  PROVE  tk # Nil /\ SaslDecided(c, r, D(w), d)
<1> DEFINE x == D(w)
<1>0. Decision(r, x, d)
  BY Kinds DEF Decision
<1>1. x # D("close") /\ x # D("tls") /\ x # D("reason") /\ x # D("verdict") /\ x # D("admit")
      /\ x # D("veAnnounce") /\ x # D("veVersion")
  BY DecisionsDistinct DEF Distinct
<1>4. ~LagDecided(tk, c, r, x, d)
  BY <1>1 DEF LagDecided
<1>5. ~LeadDecided(tk, c, r, x, d)
  BY <1>1, OpeningNot DEF LeadDecided
<1>7. ASSUME NEW K, NEW c2, NEW r2, AllOp(r2, "send"), Opening(c2, r2 ++ (x & d)) PROVE FALSE
  <2>1. Decision(r2, x, d)
    BY <1>0, <1>7 DEF Decision
  <2> QED BY <1>1, <1>7, <2>1, OpeningNot
<1>8. ~EarlyDecided(tk, c, r, x, d)
  BY <1>1, <1>7 DEF EarlyDecided
<1> QED BY <1>0, <1>1, <1>4, <1>5, <1>8, TalkDecides

LEMMA SaslJudged ==
  ASSUME NEW tk, NEW c, NEW r, AllOp(r, "send"), NEW d, ASequence(d),
         Talk(tk, c, r ++ (D("saslVerdict") & d)), Firm, NEW q,
         \/ verdict' = "ok" /\ q = S("saslResult", "ok") & (D("saslLayer") & ServerJoin("fits"))
         \/ q = S("saslResult", "failed") & (D("close") & Nil)
  PROVE  Talk(tk, c, r ++ q)'
<1>1. tk # Nil /\ Calm /\ SaslToward(c, r, Nil)
  BY OnlySasl, DecisionsDistinct DEF SaslDecided, Distinct
<1>2. SaslToward(c, r, Nil)'
  BY <1>1, SaslTowardStays DEF Firm
<1>3. Calm'
  BY <1>1, FirmFacts
<1>4. SaslVerdict(q)'
  BY <1>3 DEF SaslVerdict
<1>5. ASequence(q)
  BY ServedScripts, ConsSequence, NilSequence
<1>6. Nil ++ q = q
  BY <1>5, JoinNil
<1>7. SaslTalk(c, r ++ q)'
  BY <1>2, <1>4, <1>5, <1>6, AllOpNil, SaslThere
<1> QED BY <1>1, <1>7 DEF Talk

LEMMA SaslLayered ==
  ASSUME NEW tk, NEW c, NEW r, AllOp(r, "send"), NEW d, ASequence(d),
         Talk(tk, c, r ++ (D("saslLayer") & d)),
         UNCHANGED <<version, tls, saslconn, mech, sasl, serverin, complete, reply, exchanges, verdict>>,
         serverLayer' = IF serverLayer = "tls" THEN "tls" ELSE "sasl", tls \in BOOLEAN
  PROVE  Talk(tk, c, r ++ d)'
<1>1. /\ tk # Nil /\ verdict = "ok" /\ d = ServerJoin("fits")
      /\ \/ Calm /\ SaslToward(c, r, S("saslResult", "ok") & Nil)
         \/ r = Nil /\ c = Z /\ saslconn /\ serverLayer = (IF tls THEN "tls" ELSE "plain")
  BY OnlySasl, DecisionsDistinct DEF SaslDecided, Distinct
<1>2. CASE Calm /\ SaslToward(c, r, S("saslResult", "ok") & Nil)
  <2> DEFINE u == S("saslResult", "ok") & Nil
  <2>1. SaslToward(c, r, u)'
    BY <1>2, SaslTowardStays
  <2>2. AllOp(u, "send") /\ u ++ d = S("saslResult", "ok") & d
    BY AllOpNil, AllOpCons, NilSequence, JoinCons, JoinNil, Kinds
  <2>3. ~saslconn' /\ serverLayer' = (IF tls' THEN "tls" ELSE "sasl")
    BY <1>2 DEF Calm, layer
  <2>4. SaslVerdict(S("saslResult", "ok") & d)'
    BY <1>1, <2>3 DEF SaslVerdict
  <2> HIDE DEF u
  <2>5. SaslTalk(c, r ++ d)'
    BY <2>1, <2>2, <2>4, SaslThere
  <2> QED BY <1>1, <2>5 DEF Talk
<1>3. CASE r = Nil /\ c = Z /\ saslconn /\ serverLayer = (IF tls THEN "tls" ELSE "plain")
  <2>1. r ++ d = ServerJoin("fits")
    BY <1>1, <1>3, JoinNil
  <2>2. serverLayer' = layer'
    BY <1>3 DEF layer
  <2>3. Joining(c, r ++ d)'
    BY <1>1, <1>3, <2>1, <2>2, JoinNear DEF Joining
  <2> QED BY <1>1, <2>3 DEF Talk
<1> QED BY <1>1, <1>2, <1>3

-------------------------------------------------------------------------------
(* What the conversation depends on. *)
LEMMA OpeningStays ==
  ASSUME UNCHANGED <<verdict, reply, mech, sasl, serverin>>, NEW c, NEW s, Opening(c, s)
  PROVE  Opening(c, s)'
<1>1. Minor' = Minor /\ Half' = Half
  BY DEF Minor, Half
<1>2. Exchanged' <=> Exchanged
  BY <1>1 DEF Exchanged
<1>3. PICK K, B : OpenGoal(K, B) /\ Near(Ordinary, K, B, c, s)
  BY DEF Opening
<1>4. ResultOf(B) => ResultOf(B)'
  BY <1>1 DEF ResultOf
<1>5. OpenGoal(K, B)'
  BY <1>2, <1>3, <1>4 DEF OpenGoal
<1> QED BY <1>3, <1>5 DEF Opening

LEMMA WaitingStays ==
  ASSUME UNCHANGED <<verdict, reply, mech, sasl, serverin>>, NEW tk, NEW c, NEW s
  PROVE  /\ Waiting(tk, c, s) => Waiting(tk, c, s)'
         /\ Inside(tk, c, s) => Inside(tk, c, s)'
<1>1. Opening(c, s) => Opening(c, s)'
  BY OpeningStays
<1> QED BY <1>1 DEF Waiting, Inside, ViaVe, Offer

LEMMA TlsUp ==
  ASSUME NEW tk, NEW c, NEW r, AllOp(r, "send"), NEW d, ASequence(d),
         Talk(tk, c, r ++ (D("tls") & d)),
         UNCHANGED <<verdict, reply, mech, sasl, serverin, tls, saslconn>>, serverLayer' = "tls",
         NEW e, ViaVe(tk) => e = d, (tk = OnlyTLS /\ d = Nil) => Offer(e)
  PROVE  Talk(tk, c, r ++ e)' /\ (tk = OnlyTLS => d = Nil) /\ (tk = OnlyTLS \/ ViaVe(tk))
<1> DEFINE x == D("tls")
<1>0. Decision(r, x, d)
  BY Kinds DEF Decision
<1>1. x # D("close") /\ x # D("reason") /\ x # D("verdict") /\ x # D("admit")
      /\ x # D("veAnnounce") /\ x # D("veVersion") /\ x # D("saslVerdict") /\ x # D("saslLayer")
  BY DecisionsDistinct DEF Distinct
<1>2. ~SaslDecided(c, r, x, d)
  BY <1>1 DEF SaslDecided
<1>3. ~LeadDecided(tk, c, r, x, d)
  BY <1>1, OpeningNot DEF LeadDecided
<1>4. ASSUME NEW K, NEW c2, NEW r2, AllOp(r2, "send"), Opening(c2, r2 ++ (x & d)) PROVE FALSE
  <2>1. Decision(r2, x, d)
    BY <1>0, <1>4 DEF Decision
  <2> QED BY <1>1, <1>4, <2>1, OpeningNot
<1>5. \/ tk # Nil /\ LagDecided(tk, c, r, x, d)
      \/ /\ tk # Nil /\ Fresh /\ r = S("finished", 0) & Nil
         /\ \E c1 : c = F & c1 /\ Waiting(tk, c1, d)
  <2>1. EarlyDecided(tk, c, r, x, d) => /\ tk # Nil /\ Fresh /\ r = S("finished", 0) & Nil
                                        /\ \E c1 : c = F & c1 /\ Waiting(tk, c1, d)
    BY <1>1, <1>4 DEF EarlyDecided
  <2> QED BY <1>0, <1>1, <1>2, <1>3, <2>1, TalkDecides
<1>6. ~ViaVe(OnlyTLS)
  BY Ones DEF OnlyTLS, ViaVe
<1>7. ASSUME NEW c1, Waiting(tk, c1, d) PROVE /\ Inside(tk, c1, e)' /\ ASequence(e)
                                              /\ (tk = OnlyTLS => d = Nil) /\ (tk = OnlyTLS \/ ViaVe(tk))
  <2>1. CASE tk = OnlyTLS /\ c1 = R("count") & Z /\ d = Nil
    BY <1>6, <2>1, OfferFacts DEF Inside, Offer
  <2>2. CASE ViaVe(tk) /\ Opening(c1, d)
    <3>1. Opening(c1, d)'
      BY <2>2, OpeningStays
    <3> QED BY <1>6, <2>2, <3>1, OpeningFacts DEF Inside, ViaVe
  <2> QED BY <1>7, <2>1, <2>2 DEF Waiting
<1>8. CASE LagDecided(tk, c, r, x, d)
  <2>1. Inside(tk, c, e)' /\ ASequence(e) /\ (tk = OnlyTLS => d = Nil) /\ (tk = OnlyTLS \/ ViaVe(tk))
    BY <1>7, <1>8 DEF LagDecided
  <2>2. Calm' /\ r = Nil
    BY <1>8 DEF LagDecided, Calm, layer
  <2>3. Early(tk, c, e)'
    <3>1. CASE tk = OnlyTLS /\ c = R("count") & Z /\ Offer(e)'
      <4>1. EarlyGoal(tk, c, e)'
        BY <3>1 DEF EarlyGoal
      <4>2. Near(Ordinary, c, e, c, e)
        BY <2>1, <3>1, NearEnd, ZFacts, ConsSequence
      <4> QED BY <2>2, <4>1, <4>2 DEF Early
    <3>2. CASE ViaVe(tk) /\ Opening(c, e)'
      <4>1. PICK K, B : OpenGoal(K, B)' /\ Near(Ordinary, K, B, c, e)
        BY <3>2 DEF Opening
      <4>2. EarlyGoal(tk, K, B)'
        BY <3>2, <4>1 DEF EarlyGoal, ViaVe
      <4> QED BY <2>2, <4>1, <4>2 DEF Early
    <3> QED BY <2>1, <3>1, <3>2 DEF Inside, ViaVe
  <2> QED BY <2>1, <2>2, <2>3, JoinNil DEF Talk
<1>9. CASE /\ tk # Nil /\ Fresh /\ r = S("finished", 0) & Nil
           /\ \E c1 : c = F & c1 /\ Waiting(tk, c1, d)
  <2>1. PICK c1 : c = F & c1 /\ Waiting(tk, c1, d)
    BY <1>9
  <2>2. Inside(tk, c1, e)' /\ ASequence(e) /\ (tk = OnlyTLS => d = Nil) /\ (tk = OnlyTLS \/ ViaVe(tk))
    BY <1>7, <2>1
  <2>3. r ++ e = S("finished", 0) & e
    BY <1>9, <2>2, JoinCons, JoinNil, NilSequence
  <2>4. Lead(tk, c, r ++ e)'
    BY <1>9, <2>1, <2>2, <2>3 DEF Lead, Fresh
  <2> QED BY <1>9, <2>2, <2>4 DEF Talk
<1> QED BY <1>5, <1>8, <1>9

LEMMA EarlyStays ==
  ASSUME Firm, UNCHANGED verdict, NEW tk, NEW c, NEW s, Early(tk, c, s)
  PROVE  Early(tk, c, s)'
<1>1. (Calm => Calm') /\ (Fresh => Fresh') /\ (Listed(version) => Listed(version)')
  BY FirmFacts DEF Firm
<1>2. \A c2, s2 : Opening(c2, s2) => Opening(c2, s2)'
  BY OpeningStays DEF Firm
<1>3. \A c2, s2 : Waiting(tk, c2, s2) => Waiting(tk, c2, s2)'
  BY WaitingStays DEF Firm
<1>4. Shake(tk, c, s) => Shake(tk, c, s)'
  BY <1>1, <1>3 DEF Shake
<1>5. ASSUME NEW K, NEW B, EarlyGoal(tk, K, B) PROVE EarlyGoal(tk, K, B)'
  <2>1. Refusal(K, B) => Refusal(K, B)'
    BY <1>2 DEF Refusal, Ends
  <2>2. OpenGoal(K, B) => OpenGoal(K, B)'
    <3>1. Minor' = Minor /\ (Exchanged => Exchanged')
      BY FirmFacts
    <3>2. ResultOf(B) => ResultOf(B)'
      BY <3>1 DEF ResultOf
    <3> QED BY <3>1, <3>2 DEF OpenGoal, Firm
  <2>3. Hail(tk, K, B) => Hail(tk, K, B)'
    BY <1>1, <1>3 DEF Hail
  <2>4. VeGoal(tk, K, B) => VeGoal(tk, K, B)'
    BY <1>1 DEF VeGoal, VeOffer
  <2>5. Offer(B) => Offer(B)'
    BY DEF Offer
  <2> QED BY <1>1, <1>5, <2>1, <2>2, <2>3, <2>4, <2>5 DEF EarlyGoal
<1> QED BY <1>1, <1>4, <1>5 DEF Early

LEMMA TalkStays ==
  ASSUME Firm, UNCHANGED verdict, NEW tk, NEW c, NEW s, Talk(tk, c, s)
  PROVE  Talk(tk, c, s)'
<1>1. Early(tk, c, s) => Early(tk, c, s)'
  BY EarlyStays
<1>2. layer' = layer /\ (Calm => Calm')
  BY FirmFacts
<1>3. Joining(c, s) => Joining(c, s)'
  BY <1>2 DEF Joining, Firm
<1>4. \A c2, s2 : /\ Waiting(tk, c2, s2) => Waiting(tk, c2, s2)'
                  /\ Inside(tk, c2, s2) => Inside(tk, c2, s2)'
  BY WaitingStays DEF Firm
<1>5. (Lead(tk, c, s) => Lead(tk, c, s)') /\ (Lag(tk, c, s) => Lag(tk, c, s)')
  BY <1>4 DEF Lead, Lag, Firm
<1>6. SaslTalk(c, s) => SaslTalk(c, s)'
  <2>1. /\ Exchanged' <=> Exchanged
        /\ Answered' <=> Answered
        /\ Through' <=> Through
        /\ Served' = Served /\ Half' = Half
    BY FirmFacts
  <2>0. Through' = Through
    BY <2>1 DEF Through
  <2>2. \A s2 : SaslVerdict(s2) => SaslVerdict(s2)'
    BY <1>2 DEF SaslVerdict, Firm
  <2>3. \A s2 : SaslGoesOn(s2) => SaslGoesOn(s2)'
    BY <1>2, <2>1, <2>2 DEF SaslGoesOn
  <2>4. SaslWaits(c, s) => SaslWaits(c, s)'
    BY <1>2, <2>1 DEF SaslWaits, Firm
  <2>5. SaslReplied(c, s) => SaslReplied(c, s)'
    BY <2>0, <2>1, <2>3 DEF SaslReplied
  <2>6. SaslHalf(c, s) => SaslHalf(c, s)'
    BY <2>0, <2>1, <2>3 DEF SaslHalf, Firm
  <2>7. SaslAsks(c, s) => SaslAsks(c, s)'
    BY <2>0, <2>1, <2>3 DEF SaslAsks, Firm
  <2>8. SaslClosing(c, s) => SaslClosing(c, s)'
    BY <2>1, <2>2 DEF SaslClosing, Firm
  <2>9. SaslSecured(c, s) => SaslSecured(c, s)'
    BY DEF SaslSecured, Firm
  <2> QED BY <2>4, <2>5, <2>6, <2>7, <2>8, <2>9 DEF SaslTalk
<1> QED BY <1>1, <1>3, <1>5, <1>6 DEF Talk

-------------------------------------------------------------------------------
(* The client goes on with what it has read. *)
LEMMA ReasonsRead ==
  ASSUME Calm, NEW tk, NEW X, ASequence(X), NEW s,
         s = D("reason") & Nil \/ \E size \in Sizes : s = ServerReason(size)
  PROVE  Early(tk, ReadReason ++ X, s) /\ Talk(tk, ReadReason ++ X, s)
<1>0. ASequence(ReadReason ++ X) /\ ASequence(D("reason") & Nil)
  BY ReasonScript, ConsSequence, NilSequence
<1>1. CASE s = D("reason") & Nil
  <2>1. EarlyGoal(tk, ReadReason ++ X, s)
    BY <1>1 DEF EarlyGoal, Refusal
  <2>2. Near(Ordinary, ReadReason ++ X, s, ReadReason ++ X, s)
    BY <1>0, <1>1, NearEnd
  <2> QED BY <2>1, <2>2 DEF Talk, Early
<1>2. CASE \E size \in Sizes : s = ServerReason(size)
  <2> DEFINE K == GiveUp("refused") & X
             B == D("close") & Nil
  <2>1. Near(Ordinary, K, B, ReadReason ++ X, s)
    BY <1>2, ReasonNear
  <2>2. Ends(K)
    BY DEF Ends
  <2>3. EarlyGoal(tk, K, B)
    BY <2>2 DEF EarlyGoal, Refusal
  <2> HIDE DEF K, B
  <2> QED BY <2>1, <2>3 DEF Talk, Early
<1> QED BY <1>1, <1>2

LEMMA AfterResult ==
  ASSUME NEW tk, tk # Nil, Calm, NEW b, b.op = "send", NEW s, ASequence(s), ResultOf(b & s)
  PROVE  /\ b.val = "ok" => Talk(tk, Z, s)
         /\ b.val = "failed" /\ Minor = 8 => Talk(tk, ReadReason, s)
<1>0. ReadReason ++ Nil = ReadReason
  BY ReasonScript, ConsSequence, NilSequence, JoinNil
<1>1. \/ verdict = "ok" /\ \E size \in Sizes : b = S("result", "ok") /\ s = ServerJoin(size)
      \/ b = S("result", "failed") /\ (Minor = 8 =>
           s = D("reason") & Nil \/ \E size \in Sizes : s = ServerReason(size))
      \/ b = S("result", "tooMany")
  <2>1. ASequence(Nil) /\ ASequence(D("reason") & Nil) /\ ASequence(D("close") & Nil)
        /\ \A size : ASequence(ServerJoin(size)) /\ ASequence(ServerReason(size))
    BY NilSequence, ConsSequence, ServedScripts
  <2>2. b & s # D("verdict") & Nil
    <3>1. (b & s)[1] = b /\ (D("verdict") & Nil)[1] = D("verdict")
      BY NilSequence, ConsParts
    <3> QED BY <3>1, Kinds
  <2>3. CASE verdict = "ok" /\ \E size \in Sizes : b & s = S("result", "ok") & ServerJoin(size)
    BY <2>1, <2>3, ConsEqual
  <2>4. CASE b & s = S("result", "failed") & (D("reason") & Nil)
    BY <2>1, <2>4, ConsEqual
  <2>5. CASE \E size \in Sizes : b & s = S("result", "failed") & ServerReason(size)
    BY <2>1, <2>5, ConsEqual
  <2>6. CASE Minor # 8 /\ b & s = S("result", "failed") & (D("close") & Nil)
    BY <2>1, <2>6, ConsEqual
  <2>7. CASE b & s = S("result", "tooMany") & (D("close") & Nil)
    BY <2>1, <2>7, ConsEqual
  <2> QED BY <2>2, <2>3, <2>4, <2>5, <2>6, <2>7 DEF ResultOf
<1>2. ASSUME b.val = "ok" PROVE Talk(tk, Z, s)
  <2>1. verdict = "ok" /\ \E size \in Sizes : s = ServerJoin(size)
    BY <1>1, <1>2, Kinds
  <2>2. Joining(Z, s)
    BY <2>1, JoinNear DEF Joining, Calm
  <2> QED BY <2>2 DEF Talk
<1>3. ASSUME b.val = "failed", Minor = 8 PROVE Talk(tk, ReadReason, s)
  <2>1. s = D("reason") & Nil \/ \E size \in Sizes : s = ServerReason(size)
    BY <1>1, <1>3, Kinds
  <2> QED BY <1>0, <2>1, ReasonsRead, NilSequence
<1> QED BY <1>2, <1>3

LEMMA EntriesSent ==
  ASSUME NEW entry, NEW list, Len(list) \in Nat
  PROVE  AllOp(Entries(entry, list), "send")
<1> DEFINE q == Entries(entry, list)
<1>1. ASequence(q) /\ Len(q) = Len(list)
  BY ListServed
<1>2. \A i \in 1 .. Len(list) : q[i] = S(entry, list[i])
  BY DEF Entries
<1> HIDE DEF q
<1>3. \A i \in 1 .. Len(q) : q[i].op = "send"
  BY <1>1, <1>2, Kinds
<1> QED BY <1>1, <1>3 DEF AllOp, q

(* A list of types: its length is read, ... *)
LEMMA AfterCount ==
  ASSUME Calm, NEW tk, NEW b, NEW s, ASequence(s), Offer(b & s)
  PROVE  /\ b.val \in Nat
         /\ b.val = 0 => Talk(tk, ReadReason, s)
         /\ b.val # 0 => Types(G("choice") & Nil, Repeat(b.val, R("type")) ++ (L("switch") & Z), s)
<1>0. ReadReason ++ Nil = ReadReason
  BY ReasonScript, ConsSequence, NilSequence, JoinNil
<1>1. ASequence(Nil) /\ ASequence(D("reason") & Nil) /\ ASequence(G("choice") & Nil)
      /\ (\A size : ASequence(ServerReason(size))) /\ ASequence(L("switch") & Z)
  BY NilSequence, ConsSequence, ServedScripts, ZFacts
<1>2. CASE b & s = S("count", 0) & (D("reason") & Nil)
  <2>1. b = S("count", 0) /\ s = D("reason") & Nil
    BY <1>1, <1>2, ConsEqual
  <2>2. b.val = 0
    BY <2>1, Kinds
  <2> QED BY <1>0, <2>1, <2>2, ReasonsRead, NilSequence
<1>3. CASE \E size \in Sizes : b & s = S("count", 0) & ServerReason(size)
  <2>1. b = S("count", 0) /\ \E size \in Sizes : s = ServerReason(size)
    BY <1>1, <1>3, ConsEqual
  <2>2. b.val = 0
    BY <2>1, Kinds
  <2> QED BY <1>0, <2>1, <2>2, ReasonsRead, NilSequence
<1>4. CASE \E list \in Lists \cup SubLists :
             /\ Len(list) \in Nat \ {0}
             /\ b & s = S("count", Len(list)) & (Entries("type", list) ++ (G("choice") & Nil))
  <2>1. PICK list : /\ Len(list) \in Nat \ {0}
                    /\ b & s = S("count", Len(list)) & (Entries("type", list) ++ (G("choice") & Nil))
    BY <1>4
  <2> DEFINE q == Entries("type", list)
             B == G("choice") & Nil
             K == L("switch") & Z
             n == Len(list)
  <2>2. ASequence(q) /\ ASequence(q ++ B) /\ AllOp(q, "send")
    BY <1>1, <2>1, ListServed, JoinSequence, EntriesSent
  <2>3. b = S("count", n) /\ s = q ++ B
    BY <2>1, <2>2, ConsEqual
  <2>4. Matched({R("type")}, K, Repeat(n, R("type")) ++ K, q)
    BY <1>1, <2>1, ListMatched
  <2>5. Reading(R("type"), K, B, Repeat(n, R("type")) ++ K, s)
    BY <1>1, <2>2, <2>3, <2>4 DEF Reading
  <2>6. b.val = n
    BY <2>3, Kinds
  <2> HIDE DEF n
  <2> QED BY <2>1, <2>5, <2>6 DEF Types, n
<1> QED BY <1>2, <1>3, <1>4, OfferFacts

(* ... or of VeNCrypt types. *)
LEMMA AfterVeCount ==
  ASSUME NEW b, NEW s, ASequence(s), VeOffer(b & s), b.val # 0
  PROVE  /\ b.val \in Nat
         /\ Reading(R("veType"), L("veSwitch") & Z, G("veChoice") & Nil,
                    Repeat(b.val, R("veType")) ++ (L("veSwitch") & Z), s)
<1>1. ASequence(Nil) /\ ASequence(D("close") & Nil) /\ ASequence(G("veChoice") & Nil)
      /\ ASequence(L("veSwitch") & Z)
  BY NilSequence, ConsSequence, ZFacts
<1>2. b & s # S("veCount", 0) & (D("close") & Nil)
  <2>1. b # S("veCount", 0)
    BY Kinds
  <2> QED BY <1>1, <2>1, ConsEqual
<1>3. PICK list : /\ Len(list) \in Nat \ {0}
                  /\ b & s = S("veCount", Len(list)) & (Entries("veType", list) ++ (G("veChoice") & Nil))
  BY <1>2, VeOfferFacts
<1> DEFINE q == Entries("veType", list)
           B == G("veChoice") & Nil
           K == L("veSwitch") & Z
           n == Len(list)
<1>4. ASequence(q) /\ ASequence(q ++ B) /\ AllOp(q, "send")
  BY <1>1, <1>3, ListServed, JoinSequence, EntriesSent
<1>5. b = S("veCount", n) /\ s = q ++ B
  BY <1>3, <1>4, ConsEqual
<1>6. Matched({R("veType")}, K, Repeat(n, R("veType")) ++ K, q)
  BY <1>1, <1>3, ListMatched
<1>7. Reading(R("veType"), K, B, Repeat(n, R("veType")) ++ K, s)
  BY <1>1, <1>4, <1>5, <1>6 DEF Reading
<1>8. b.val = n
  BY <1>5, Kinds
<1>9. Reading(R("veType"), L("veSwitch") & Z, G("veChoice") & Nil, Repeat(n, R("veType")) ++ (L("veSwitch") & Z), s)
  BY <1>7
<1>10. n \in Nat
  <2>1. n \in Nat \ {0}
    BY <1>3
  <2> HIDE DEF n
  <2> QED BY ONLY <2>1
<1> HIDE DEF n, q, B, K
<1> QED BY <1>8, <1>9, <1>10

(* The version of VeNCrypt, and what the server says of it. *)
LEMMA AfterVeVersion ==
  ASSUME Calm, Fresh, NEW b, b.op = "send", NEW t, ASequence(t), NEW s, ASequence(s),
         VeCase(R("veVersion") & t, b & s)
  PROVE  Talk(OnlyVe, VeNCryptAgreed ++ t, s)
<1>1. (R("veVersion") & t)[1] = R("veVersion") /\ R("veVersion") # R("veStatus")
      /\ R("veVersion") # R("veCount")
  BY ConsParts, Kinds
<1>2. /\ R("veVersion") & t = R("veVersion") & Z
      /\ b & s = D("veAnnounce") & Nil \/ \E v \in VeVersions : b & s = ServerVeNCrypt(v)
  BY <1>1 DEF VeCase
<1>3. t = Z
  BY <1>2, ConsEqual, ZFacts
<1>4. b & s # D("veAnnounce") & Nil
  <2>1. b # D("veAnnounce")
    BY Kinds
  <2> QED BY <2>1, ConsEqual, NilSequence
<1> DEFINE B == D("veVersion") & Nil
           K == R("veStatus") & (R("veCount") & Z)
           w == W("veVersion", 0)
<1>5. ASequence(B) /\ ASequence(G("veVersion") & B) /\ ASequence(K)
  BY NilSequence, ConsSequence, ZFacts
<1>6. s = G("veVersion") & B
  BY <1>2, <1>4, <1>5, ServedScripts, ConsEqual
<1>7. VeNCryptAgreed ++ t = w & K
  BY <1>3, ShortScripts, ZFacts
<1>8. EarlyGoal(OnlyVe, K, B)
  BY DEF EarlyGoal, VeGoal
<1>9. Near(Ordinary, K, B, K, B)
  BY <1>5, NearEnd
<1>10. w \in Ordinary /\ Meets(w, G("veVersion")) /\ Onward(w & K)
  <2>1. w \in Ordinary
    BY DEF Ordinary, Plainly
  <2>2. Meets(w, G("veVersion"))
    BY Kinds DEF Meets
  <2>3. Onward(K)
    BY OnwardOther, Kinds, ConsSequence, ZFacts
  <2> QED BY <1>5, <2>1, <2>2, <2>3, OnwardWrite, Kinds
<1> HIDE DEF B, K, w
<1>11. Near(Ordinary, K, B, w & K, s)
  BY <1>6, <1>9, <1>10, NearStep
<1> QED BY <1>7, <1>8, <1>11 DEF Talk, Early

LEMMA AfterVeStatus ==
  ASSUME Calm, Fresh, NEW b, b.op = "send", b.val = 0, NEW t, ASequence(t), NEW s, ASequence(s),
         VeCase(R("veStatus") & t, b & s)
  PROVE  Talk(OnlyVe, t, s)
<1>1. (R("veStatus") & t)[1] = R("veStatus") /\ R("veStatus") # R("veVersion")
      /\ R("veStatus") # R("veCount")
  BY ConsParts, Kinds
<1>2. R("veStatus") & t = R("veStatus") & (R("veCount") & Z) /\ VeAnswer(b & s)
  BY <1>1 DEF VeCase
<1>3. t = R("veCount") & Z
  BY <1>2, ConsEqual, ZFacts, ConsSequence
<1>4. b & s # D("veVersion") & Nil
  <2>1. b # D("veVersion")
    BY Kinds
  <2> QED BY <2>1, ConsEqual, NilSequence
<1>5. b & s # S("veStatus", 1) & (D("close") & Nil)
  <2>1. b # S("veStatus", 1)
    BY Kinds
  <2> QED BY <2>1, ConsEqual, NilSequence, ConsSequence
<1>6. PICK s1 : b & s = S("veStatus", 0) & s1 /\ VeOffer(s1)
  BY <1>2, <1>4, <1>5 DEF VeAnswer
<1>7. s = s1 /\ VeOffer(s)
  BY <1>6, ConsEqual, VeOfferFacts
<1>8. EarlyGoal(OnlyVe, t, s)
  BY <1>3, <1>7 DEF EarlyGoal, VeGoal
<1>9. Near(Ordinary, t, s, t, s)
  BY NearEnd
<1> QED BY <1>8, <1>9 DEF Talk, Early

(* An authentication that the client has asked the user about, or its       *)
(* library.                                                                 *)
LEMMA OpenNear ==
  ASSUME NEW K, NEW B, OpenGoal(K, B)'
  PROVE  ASequence(K) /\ ASequence(B) /\ Near(Ordinary, K, B, K, B)
<1>1. \A c : ASequence(R(c) & Z) /\ ASequence(L(c) & Z)
  BY ZFacts, ConsSequence
<1>2. \A u, p \in 0 .. 1 : ASequence(PlainMessage(u, p) ++ Z)
  BY PlainFacts
<1>3. ASequence(W("mechanism", mech') & (SaslExchange(1) ++ Z))
  BY ExchangeFacts, ConsSequence
<1>4. ASequence(Mechanism) /\ ASequence(G("lengths") & Nil)
  BY MechanismFacts, ConsSequence, NilSequence
<1>5. ResultOf(B)' => ASequence(B)
  <2>1. \A w : ASequence(D(w) & Nil)
    BY ConsSequence, NilSequence
  <2>2. \A size : ASequence(ServerJoin(size)) /\ ASequence(ServerReason(size))
    BY ServedScripts
  <2> QED BY <2>1, <2>2, ConsSequence DEF ResultOf
<1>6. ASequence(K) /\ ASequence(B)
  BY <1>1, <1>2, <1>3, <1>4, <1>5 DEF OpenGoal
<1> QED BY <1>6, NearEnd

LEMMA OpenStarts ==
  ASSUME NEW tk, tk # Nil, NEW K, NEW B, OpenGoal(K, B)', Calm'
  PROVE  Early(tk, K, B)'
<1>1. Near(Ordinary, K, B, K, B)
  BY OpenNear
<1>2. EarlyGoal(tk, K, B)'
  BY DEF EarlyGoal
<1> QED BY <1>1, <1>2 DEF Early

LEMMA OpenTalk ==
  ASSUME NEW tk, tk # Nil, NEW K, NEW B, NEW s, OpenGoal(K, B)',
         \/ Calm' /\ s = B
         \/ Behind(tk, B, s)'
  PROVE  Talk(tk, K, s)'
<1>1. CASE Calm' /\ s = B
  BY <1>1, OpenStarts DEF Talk
<1>2. CASE Behind(tk, B, s)'
  <2>1. Opening(K, B)'
    BY OpenNear DEF Opening
  <2>2. Waiting(tk, K, B)'
    BY <1>2, <2>1 DEF Waiting, Behind
  <2>3. Lag(tk, K, s)'
    BY <1>2, <2>2 DEF Lag, Behind
  <2> QED BY <2>3 DEF Talk
<1> QED BY <1>1, <1>2

LEMMA AfterPlain ==
  ASSUME NEW tk, tk # Nil, NEW s, NEW u \in 0 .. 1, NEW q \in 0 .. 1,
         UNCHANGED <<tls, saslconn, serverLayer>>,
         (Calm /\ s = G("lengths") & Nil) \/ Behind(tk, G("lengths") & Nil, s)
  PROVE  Talk(tk, PlainMessage(u, q) ++ Z, s)'
<1> DEFINE B == G("lengths") & Nil
           K == PlainMessage(u, q) ++ Z
<1>1. OpenGoal(K, B)'
  BY DEF OpenGoal
<1>2. (Calm => Calm') /\ (Behind(tk, B, s) => Behind(tk, B, s)')
  BY DEF Calm, Behind, layer, ViaVe
<1> HIDE DEF B, K
<1>3. (Calm /\ s = B) \/ Behind(tk, B, s)
  BY DEF B
<1>4. Talk(tk, K, s)'
  BY <1>1, <1>2, <1>3, OpenTalk
<1> QED BY <1>4 DEF K

(* The server gets the lengths, and what has as many bytes. *)
LEMMA LengthsGot ==
  ASSUME NEW tk, tk # Nil, Calm, NEW w, NEW c, ASequence(c),
         \E u, p \in 0 .. 1 : w & c = PlainMessage(u, p) ++ Z
  PROVE  Talk(tk, c, ServerPlainMessage(w.val) ++ Nil)
<1>1. PICK u \in 0 .. 1, q \in 0 .. 1 : w & c = PlainMessage(u, q) ++ Z
  OBVIOUS
<1> DEFINE v == <<u, q>>
           K == R("result") & Z
           B == D("verdict") & Nil
<1>2. PICK x : /\ PlainMessage(u, q) ++ Z = W("lengths", v) & x /\ ASequence(x)
               /\ Near(Ordinary, K, B, x, ServerPlainMessage(v))
  BY PlainFacts
<1> HIDE DEF v, K, B
<1>3. w = W("lengths", v) /\ c = x
  BY <1>1, <1>2, ConsEqual
<1>4. w.val = v
  BY <1>3, Kinds
<1> DEFINE s == ServerPlainMessage(v)
<1>5. Near(Ordinary, K, B, c, s) /\ ASequence(s)
  BY <1>2, <1>3, NearFacts
<1>6. EarlyGoal(tk, K, B)
  BY DEF EarlyGoal, OpenGoal, ResultOf, K, B
<1>7. s ++ Nil = s
  BY <1>5, JoinNil
<1> HIDE DEF s
<1>8. Talk(tk, c, s ++ Nil)
  BY <1>5, <1>6, <1>7 DEF Talk, Early
<1> QED BY <1>4, <1>8 DEF s

-------------------------------------------------------------------------------
(* SASL, step by step. *)
LEMMA MechanismScript ==
  ASSUME NEW m
  PROVE  (<<W("mechanism", m)>> ++ SaslExchange(1)) ++ Z = W("mechanism", m) & (SaslExchange(1) ++ Z)
<1> DEFINE q == SaslExchange(1)
           a == W("mechanism", m)
<1>0. ASequence(q)
  BY Tuple3, NilSequence DEF SaslExchange
<1>1. <<a>> ++ q = a & q
  BY <1>0, Tuple1
<1> HIDE DEF q, a
<1>2. (a & q) ++ Z = a & (q ++ Z)
  BY <1>0, ZFacts, JoinCons
<1>3. (<<a>> ++ q) ++ Z = a & (q ++ Z)
  BY <1>1, <1>2
<1> QED BY <1>3 DEF q, a

LEMMA StartGoal ==
  ASSUME NEW m \in 1 .. MaxSasl,
         mech' = m, sasl' = [calls |-> 0, given |-> 0, ok |-> FALSE], serverin' = 0
  PROVE  OpenGoal(W("mechanism", m) & (SaslExchange(1) ++ Z), Mechanism)'
<1>1. Exchanged' /\ sasl'.calls = 0
  <2>1. sasl'.calls = 0 /\ sasl'.given = 0 /\ sasl'.ok = FALSE
    OBVIOUS
  <2>2. m \div 2 \in Nat
    BY HandshakeAssumption
  <2>3. Half' \in Nat
    BY <2>2 DEF Half
  <2>4. Smaller(0, Half') = 0
    BY <2>3 DEF Smaller
  <2>5. sasl'.ok = (sasl'.calls > 0 /\ 2 * sasl'.calls + 1 >= mech')
    <3>1. ~(sasl'.calls > 0)
      BY <2>1
    <3> QED BY <2>1, <3>1, Zenon
  <2>6. mech' \in 1 .. MaxSasl /\ sasl'.calls \in Nat /\ sasl'.given = 2 * Smaller(sasl'.calls, Half')
    BY <2>1, <2>4
  <2> QED BY <2>1, <2>5, <2>6, Zenon DEF Exchanged
<1> QED BY <1>1 DEF OpenGoal

LEMMA AfterStart ==
  ASSUME NEW tk, tk # Nil, NEW s, UNCHANGED <<tls, saslconn, serverLayer>>,
         (Calm /\ s = Mechanism) \/ Behind(tk, Mechanism, s), NEW m \in 1 .. MaxSasl,
         mech' = m, sasl' = [calls |-> 0, given |-> 0, ok |-> FALSE], serverin' = 0
  PROVE  Talk(tk, W("mechanism", m) & (SaslExchange(1) ++ Z), s)'
<1> DEFINE K == W("mechanism", m) & (SaslExchange(1) ++ Z)
           B == Mechanism
<1>2. OpenGoal(K, B)'
  BY StartGoal
<1>3. (Calm => Calm') /\ (Behind(tk, B, s) => Behind(tk, B, s)')
  BY DEF Calm, Behind, layer, ViaVe, Mechanism
<1> HIDE DEF K, B
<1>4. (Calm /\ s = B) \/ Behind(tk, B, s)
  BY DEF B
<1>5. Talk(tk, K, s)'
  BY <1>2, <1>3, <1>4, OpenTalk
<1> QED BY <1>5 DEF K

LEMMA StartGot ==
  ASSUME NEW tk, tk # Nil, Calm, Exchanged, sasl.calls = 0, serverin = 0,
         UNCHANGED <<tls, saslconn, serverLayer, mech, sasl, serverin>>,
         exchanges' = Two(mech, 0)
  PROVE  Talk(tk, SaslExchange(1) ++ Z, G("saslData") & Nil)'
<1>1. Calm' /\ Exchanged'
  BY DEF Calm, layer, Exchanged, Half, Smaller
<1>2. 1 \in 0 .. MaxSasl
  BY HandshakeAssumption
<1>3. SaslWaits(SaslExchange(1) ++ Z, G("saslData") & Nil)'
  BY <1>1, <1>2 DEF SaslWaits
<1> QED BY <1>3 DEF Talk, SaslTalk

LEMMA DataGot ==
  ASSUME NEW tk, tk # Nil, NEW w, NEW c, ASequence(c), SaslWaits(w & c, G("saslData") & Nil),
         UNCHANGED <<tls, saslconn, serverLayer, mech, sasl, serverin, verdict>>,
         exchanges' = Two(exchanges[1], exchanges[2] + 1),
         NEW data \in IF NextMessage <= mech THEN {NextMessage, -1} ELSE {0},
         NEW x, x = IF Through THEN D("saslVerdict") ELSE G("saslData")
  PROVE  /\ exchanges = Two(mech, sasl.calls)
         /\ Talk(tk, c, S("saslData", data) & (S("saslComplete", Through) & (x & Nil)))'
<1>0. exchanges = Two(mech, sasl.calls) /\ exchanges[1] = mech /\ exchanges[2] = sasl.calls
  BY Ones DEF SaslWaits
<1>1. Calm' /\ (Exchanged' <=> Exchanged) /\ Through' = Through /\ Served' = Served
      /\ NextMessage' = NextMessage
  BY DEF Calm, layer, Exchanged, Half, Smaller, Through, Served, NextMessage, SaslWaits
<1>2. Answered'
  BY <1>0, <1>1 DEF Answered, SaslWaits
<1>3. c = R("saslData") & (R("saslComplete") & Z)
  <2>1. PICK m : w & c = SaslExchange(m) ++ Z
    BY DEF SaslWaits
  <2>2. ASequence(R("saslData") & (R("saslComplete") & Z))
    BY ZFacts, ConsSequence
  <2> QED BY <2>1, <2>2, ExchangeFacts, ConsEqual
<1>4. data \in {Served, -1}
  BY DEF Served
<1>5. SaslGoesOn(x & Nil)'
  BY <1>1 DEF SaslGoesOn, SaslVerdict
<1>6. SaslReplied(c, S("saslData", data) & (S("saslComplete", Through) & (x & Nil)))'
  BY <1>1, <1>2, <1>3, <1>4, <1>5 DEF SaslReplied
<1> QED BY <1>0, <1>6 DEF Talk, SaslTalk

LEMMA AfterData ==
  ASSUME NEW tk, tk # Nil, NEW t, ASequence(t), NEW b, NEW s, ASequence(s),
         SaslReplied(R("saslData") & t, b & s), b.val # -1,
         UNCHANGED <<version, tls, saslconn, mech, sasl, complete, reply, serverLayer, exchanges, verdict>>,
         serverin' = b.val
  PROVE  Talk(tk, t, s)'
<1>0. \E data, s1 : /\ data \in {Served, -1} /\ SaslGoesOn(s1)
                    /\ b & s = S("saslData", data) & (S("saslComplete", Through) & s1)
  BY DEF SaslReplied
<1>1. PICK data, s1 : /\ data \in {Served, -1} /\ SaslGoesOn(s1)
                      /\ b & s = S("saslData", data) & (S("saslComplete", Through) & s1)
  BY <1>0
<1>2. ASequence(s1) /\ ASequence(S("saslComplete", Through) & s1)
  BY <1>1, GoesOnFacts, ConsSequence
<1>3. b = S("saslData", data) /\ s = S("saslComplete", Through) & s1
  BY <1>1, <1>2, ConsEqual
<1>4. serverin' = Served
  BY <1>1, <1>3, Kinds
<1>5. t = R("saslComplete") & Z
  BY ConsEqual, ZFacts, ConsSequence DEF SaslReplied
<1>6. /\ Calm' <=> Calm
      /\ Exchanged' <=> Exchanged
      /\ Through' = Through /\ Served' = Served
  BY DEF Calm, layer, Exchanged, Half, Smaller, Through, Served, NextMessage
<1>7. Answered'
  BY <1>6 DEF Answered, SaslReplied
<1>8. SaslGoesOn(s1)'
  BY <1>1, <1>6 DEF SaslGoesOn, SaslVerdict
<1>9. SaslHalf(t, s)'
  BY <1>3, <1>4, <1>5, <1>6, <1>7, <1>8 DEF SaslHalf
<1> QED BY <1>9 DEF Talk, SaslTalk

LEMMA AfterComplete ==
  ASSUME NEW tk, tk # Nil, NEW t, ASequence(t), NEW b, NEW s, ASequence(s),
         SaslHalf(R("saslComplete") & t, b & s),
         UNCHANGED <<version, tls, saslconn, mech, sasl, serverin, reply, serverLayer, exchanges, verdict>>,
         complete' = b.val
  PROVE  /\ t = Z
         /\ complete' /\ sasl.ok => Talk(tk, L("saslStrength") & (R("saslResult") & Z), s)'
         /\ Talk(tk, L("saslStep") & Z, s)'
<1>1. PICK s1 : b & s = S("saslComplete", Through) & s1 /\ SaslGoesOn(s1)
  BY DEF SaslHalf
<1>2. b = S("saslComplete", Through) /\ s = s1
  BY <1>1, GoesOnFacts, ConsEqual
<1>3. complete' = Through
  BY <1>2, Kinds
<1>4. t = Z
  BY ConsEqual, ZFacts, ConsSequence DEF SaslHalf
<1>5. /\ Calm' <=> Calm
      /\ Exchanged' <=> Exchanged
      /\ Through' = Through /\ Served' = Served
  BY DEF Calm, layer, Exchanged, Half, Smaller, Through, Served, NextMessage
<1>6. Exchanged /\ Answered' /\ serverin' = Served
  BY <1>5 DEF Answered, SaslHalf
<1>7. SaslGoesOn(s)'
  BY <1>1, <1>2, <1>5 DEF SaslGoesOn, SaslVerdict
<1>8. SaslAsks(L("saslStep") & Z, s)'
  BY <1>3, <1>5, <1>6, <1>7 DEF SaslAsks
<1>9. ASSUME complete', sasl.ok PROVE SaslClosing(L("saslStrength") & (R("saslResult") & Z), s)'
  <2>1. Through
    BY <1>3, <1>9
  <2>2. SaslVerdict(s)'
    BY <1>5, <1>7, <2>1 DEF SaslGoesOn
  <2>7. 2 * sasl.calls + 1 >= mech /\ mech \in 1 .. MaxSasl /\ sasl.calls \in Nat
        /\ sasl.given = 2 * Smaller(sasl.calls, Half)
    BY <1>6, <1>9, Zenon DEF Exchanged
  <2>3. mech \in Nat
    BY <2>7, HandshakeAssumption
  <2>4. Half \in Nat /\ Half <= sasl.calls
    BY <2>3, <2>7 DEF Half
  <2>5. Smaller(sasl.calls, Half) = Half
    BY <2>3, <2>4, <2>7 DEF Smaller
  <2>6. Half' = Half /\ sasl'.given = 2 * Half' /\ sasl'.ok
    BY <1>9, <2>7, <2>5 DEF Half
  <2> QED BY <1>5, <1>6, <2>2, <2>6 DEF SaslClosing
<1> QED BY <1>4, <1>8, <1>9 DEF Talk, SaslTalk

LEMMA WaitsThere ==
  ASSUME NEW c, NEW s, (Calm /\ Exchanged /\ serverin = 0 /\ exchanges = Two(mech, sasl.calls))',
         \E n \in 0 .. MaxSasl : c = SaslExchange(n) ++ Z, s = G("saslData") & Nil
  PROVE  SaslWaits(c, s)'
BY DEF SaslWaits

LEMMA AfterStep ==
  ASSUME NEW tk, tk # Nil, NEW s, SaslAsks(L("saslStep") & Z, s),
         UNCHANGED <<version, tls, saslconn, mech, complete, reply, serverLayer, exchanges, verdict>>,
         NEW calls, calls = sasl.calls + 1, NEW next, next = 2 * calls + 1,
         sasl'.calls = calls, sasl'.given = (IF serverin = 0 THEN sasl.given ELSE serverin),
         sasl'.ok = (next >= mech), serverin' = 0
  PROVE  IF complete /\ sasl'.ok
         THEN Talk(tk, L("saslStrength") & (R("saslResult") & Z), s)'
         ELSE \A m \in 0 .. MaxSasl : Talk(tk, SaslExchange(m) ++ Z, s)'
<1>1. /\ sasl'.calls = calls /\ sasl'.ok = (next >= mech)
      /\ sasl'.given = IF serverin = 0 THEN sasl.given ELSE serverin
  OBVIOUS
<1>2. /\ mech \in 1 .. MaxSasl /\ sasl.calls \in Nat /\ calls \in Nat \ {0} /\ next \in Nat
      /\ sasl.given = 2 * Smaller(sasl.calls, Half) /\ serverin = Served
      /\ complete = Through /\ exchanges = Two(mech, calls) /\ SaslGoesOn(s)
  BY DEF SaslAsks, Answered, Exchanged
<1>3. Half \in Nat /\ Half' = Half
  BY <1>2, HandshakeAssumption DEF Half
<1>4. NextMessage = 2 * calls
  BY <1>2 DEF NextMessage
<1>5. sasl'.given = 2 * Smaller(calls, Half)
  <2>1. CASE 2 * calls <= mech
    <3>1. Served = 2 * calls /\ calls <= Half
      BY <1>2, <1>4, <2>1, HandshakeAssumption DEF Served, Half
    <3>2. Smaller(calls, Half) = calls
      BY <3>1 DEF Smaller
    <3>3. sasl'.given = 2 * calls
      BY <1>1, <1>2, <3>1
    <3> QED BY <3>2, <3>3
  <2>2. CASE ~(2 * calls <= mech)
    <3>1. Served = 0 /\ Half <= sasl.calls /\ Half <= calls
      BY <1>2, <1>4, <2>2, HandshakeAssumption DEF Served, Half
    <3>2. Smaller(calls, Half) = Half /\ Smaller(sasl.calls, Half) = Half
      BY <1>2, <1>3, <3>1 DEF Smaller
    <3> QED BY <1>1, <1>2, <3>1, <3>2
  <2> QED BY <2>1, <2>2
<1>6. Exchanged'
  BY <1>1, <1>2, <1>3, <1>5 DEF Exchanged
<1>7. Calm' <=> Calm
  BY DEF Calm, layer
<1>8. CASE complete /\ sasl'.ok
  <2>1. SaslVerdict(s)'
    BY <1>2, <1>7, <1>8 DEF SaslGoesOn, SaslVerdict
  <2>5. next >= mech
    BY <1>1, <1>8, Zenon
  <2>2. Half <= calls
    BY <1>2, <2>5, HandshakeAssumption DEF Half
  <2>3. Smaller(calls, Half) = Half
    BY <1>2, <1>3, <2>2 DEF Smaller
  <2>4. SaslClosing(L("saslStrength") & (R("saslResult") & Z), s)'
    BY <1>3, <1>5, <1>6, <1>8, <2>1, <2>3 DEF SaslClosing
  <2> QED BY <1>8, <2>4 DEF Talk, SaslTalk
<1>9. CASE ~(complete /\ sasl'.ok)
  <2>6. ASSUME Through PROVE FALSE
    <3>1. next >= mech
      BY <1>2, <1>4, <2>6, HandshakeAssumption DEF Through
    <3>2. complete /\ sasl'.ok
      BY <1>1, <1>2, <2>6, <3>1, Zenon
    <3> QED BY <1>9, <3>2
  <2>1. ~Through
    BY <2>6
  <2>2. Calm' /\ s = G("saslData") & Nil
    BY <1>2, <1>7, <2>1 DEF SaslGoesOn
  <2>3. exchanges' = Two(mech', sasl'.calls) /\ (serverin = 0)'
    BY <1>1, <1>2
  <2>4. ASSUME NEW m \in 0 .. MaxSasl PROVE Talk(tk, SaslExchange(m) ++ Z, s)'
    <3>1. SaslWaits(SaslExchange(m) ++ Z, s)'
      BY <1>6, <2>2, <2>3, WaitsThere
    <3> QED BY <3>1 DEF Talk, SaslTalk
  <2> QED BY <1>9, <2>4
<1> QED BY <1>8, <1>9

LEMMA AfterSasl ==
  ASSUME NEW tk, tk # Nil, NEW b, b.op = "send", b.val = "ok", NEW s, ASequence(s),
         SaslClosing(R("saslResult") & Z, b & s),
         UNCHANGED <<version, tls, mech, sasl, complete, reply, serverLayer, exchanges, verdict>>,
         saslconn' = TRUE
  PROVE  Talk(tk, Z, s)' /\ sasl.ok /\ sasl.given = 2 * Half /\ sasl.calls \in Nat \ {0}
<1>0. ASequence(Nil) /\ ASequence(D("close") & Nil) /\ ASequence(ServerJoin("fits"))
      /\ ASequence(D("saslLayer") & ServerJoin("fits"))
  BY NilSequence, ConsSequence, ServedScripts
<1>1. b & s # D("saslVerdict") & Nil
  <2>1. b # D("saslVerdict")
    BY Kinds
  <2> QED BY <1>0, <2>1, ConsEqual
<1>2. b & s # S("saslResult", "failed") & (D("close") & Nil)
  <2>1. b # S("saslResult", "failed")
    BY Kinds
  <2> QED BY <1>0, <2>1, ConsEqual
<1>6. /\ sasl.ok /\ sasl.given = 2 * Half /\ sasl.calls > 0 /\ sasl.calls \in Nat
      /\ SaslVerdict(b & s)
  BY Zenon DEF SaslClosing, Exchanged
<1>3. sasl.ok /\ sasl.given = 2 * Half /\ sasl.calls \in Nat \ {0} /\ SaslVerdict(b & s)
  BY <1>6
<1>4. CASE Calm /\ verdict = "ok" /\ b & s = S("saslResult", "ok") & (D("saslLayer") & ServerJoin("fits"))
  <2>1. s = D("saslLayer") & ServerJoin("fits")
    BY <1>0, <1>4, ConsEqual
  <2>2. SaslSecured(Z, s)'
    BY <1>4, <2>1 DEF SaslSecured, Calm, layer
  <2> QED BY <1>3, <2>2 DEF Talk, SaslTalk
<1>5. CASE /\ ~saslconn /\ serverLayer = (IF tls THEN "tls" ELSE "sasl") /\ verdict = "ok"
           /\ b & s = S("saslResult", "ok") & ServerJoin("fits")
  <2>1. s = ServerJoin("fits")
    BY <1>0, <1>5, ConsEqual
  <2>2. serverLayer' = layer'
    BY <1>5 DEF layer
  <2>3. Joining(Z, s)'
    BY <1>5, <2>1, <2>2, JoinNear DEF Joining
  <2> QED BY <1>3, <2>3 DEF Talk
<1> QED BY <1>1, <1>2, <1>3, <1>4, <1>5 DEF SaslVerdict

-------------------------------------------------------------------------------
(* TLS. *)
LEMMA HailFacts ==
  ASSUME NEW tk, NEW t, ASequence(t), NEW s, Hail(tk, L("tls") & t, s)
  PROVE  /\ \E s1 : ASequence(s1) /\ s = Hello(Finish(s1)) /\ Waiting(tk, t, s1)
         /\ Shake(tk, W("hello", 0) & (F & t), s)
<1>1. PICK c1, s1 : Waiting(tk, c1, s1) /\ L("tls") & t = L("tls") & c1 /\ s = Hello(Finish(s1))
  BY DEF Hail
<1>2. t = c1 /\ ASequence(s1)
  BY <1>1, WaitingFacts, ConsEqual
<1>3. Shake(tk, W("hello", 0) & (F & t), s)
  BY <1>1, <1>2 DEF Shake, Hail
<1> QED BY <1>1, <1>2, <1>3

(* The server's last part of the handshake, which the client reads. *)
LEMMA TalkTls ==
  ASSUME NEW tk, NEW p, AllOp(p, "write"), NEW t, ASequence(t),
         NEW b, b.op = "send", NEW s, ASequence(s), Talk(tk, p ++ (F & t), b & s)
  PROVE  /\ tk # Nil /\ p = Nil /\ b = S("finished", 0)
         /\ \/ Fresh /\ \E s1 : Waiting(tk, t, s1) /\ s = D("tls") & s1
            \/ ~tls /\ ~saslconn /\ serverLayer = "tls" /\ Inside(tk, t, s)
<1> DEFINE c == p ++ (F & t)
<1>0. /\ F.op \notin {"local", "write", "read"} /\ F.op # "write" /\ F.op = "tls"
      /\ ASequence(p) /\ ASequence(F & t) /\ ASequence(c)
      /\ (b & s)[1] = b /\ b & s # Nil
  BY Lasts, AllOpSequence, ConsSequence, JoinSequence, ConsParts, ConsNotNil
<1>1. ASSUME NEW K, ASequence(K), c = K, K[1].op \in {"read", "stop", "local"} PROVE FALSE
  BY <1>0, <1>1, NotWritten
<1>2. ASSUME NEW K, NEW B, EarlyGoal(tk, K, B), Near(Ordinary, K, B, c, b & s) PROVE FALSE
  <2>1. c = K /\ b & s = B
    BY <1>0, <1>2, NearTls
  <2>2. K[1].op = "stop" \/ K[1].op = "read"
    BY <1>0, <1>2, <2>1, EarlyFirst DEF Aligned
  <2> QED BY <1>0, <1>1, <2>1, <2>2
<1>3. ASSUME Shake(tk, c, b & s)
      PROVE  /\ p = Nil /\ b = S("finished", 0)
             /\ Fresh /\ \E s1 : Waiting(tk, t, s1) /\ s = D("tls") & s1
  <2>1. PICK c1, s1 : /\ Waiting(tk, c1, s1)
                      /\ \/ b & s = Hello(Finish(s1))
                         \/ c = F & c1 /\ b & s = Finish(s1)
    BY <1>3 DEF Shake
  <2>2. b & s # Hello(Finish(s1))
    <3>1. Hello(Finish(s1))[1] = G("hello")
      BY <2>1, WaitingFacts
    <3> QED BY <1>0, <3>1, Kinds
  <2>3. c = F & c1 /\ b & s = S("finished", 0) & (D("tls") & s1)
    BY <2>1, <2>2 DEF Finish
  <2>4. ASequence(c1) /\ ASequence(D("tls") & s1)
    BY <2>1, WaitingFacts
  <2>5. p = Nil /\ t = c1
    BY <1>0, <2>3, <2>4, NextIs
  <2>6. b = S("finished", 0) /\ s = D("tls") & s1
    BY <2>3, <2>4, ConsEqual
  <2> QED BY <1>3, <2>1, <2>5, <2>6 DEF Shake
<1>4. ~Joining(c, b & s)
  <2>1. ASSUME Near(Ordinary, Ready & Nil, Nil, c, b & s) PROVE FALSE
    <3>1. b & s = Nil
      BY <1>0, <2>1, NearTls
    <3> QED BY <1>0, <3>1
  <2> QED BY <2>1 DEF Joining
<1>5. ASSUME SaslTalk(c, b & s) PROVE FALSE
  <2>1. c[1].op \in {"read", "local"}
    BY <1>0, <1>5, SaslFirst, Kinds DEF SaslCase
  <2> QED BY <1>0, <1>1, <2>1
<1>6. ASSUME Lead(tk, c, b & s)
      PROVE  /\ p = Nil /\ b = S("finished", 0)
             /\ ~tls /\ ~saslconn /\ serverLayer = "tls" /\ Inside(tk, t, s)
  <2>1. PICK c1, s1 : Inside(tk, c1, s1) /\ c = F & c1 /\ b & s = S("finished", 0) & s1
    BY <1>6 DEF Lead
  <2>2. ASequence(c1) /\ ASequence(s1)
    BY <2>1, InsideFacts
  <2>3. p = Nil /\ t = c1
    BY <1>0, <2>1, <2>2, NextIs
  <2>4. b = S("finished", 0) /\ s = s1
    BY <2>1, <2>2, ConsEqual
  <2> QED BY <1>6, <2>1, <2>3, <2>4 DEF Lead
<1>7. ~Lag(tk, c, b & s)
  <2>1. ASSUME NEW s1, Waiting(tk, c, s1), b & s = D("tls") & s1 PROVE FALSE
    <3>1. b = D("tls")
      BY <2>1, WaitingFacts, ConsEqual
    <3> QED BY <3>1, Kinds
  <2> QED BY <2>1 DEF Lag
<1>8. Early(tk, c, b & s) => tk # Nil /\ Shake(tk, c, b & s)
  BY <1>2 DEF Early
<1> HIDE DEF c
<1>9. Talk(tk, c, b & s)
  BY DEF c
<1>10. CASE tk # Nil /\ Shake(tk, c, b & s)
  BY <1>3, <1>10
<1>11. CASE tk # Nil /\ Lead(tk, c, b & s)
  BY <1>6, <1>11
<1>12. CASE Joining(c, b & s) \/ SaslTalk(c, b & s) \/ Lag(tk, c, b & s)
  BY <1>4, <1>5, <1>7, <1>12
<1> QED BY <1>8, <1>9, <1>10, <1>11, <1>12 DEF Talk

LEMMA TlsDone ==
  ASSUME NEW tk, NEW p, AllOp(p, "write"), NEW t, ASequence(t),
         NEW b, b.op = "send", NEW s, ASequence(s), Talk(tk, p ++ (F & t), b & s),
         UNCHANGED <<version, saslconn, mech, sasl, serverin, complete, reply, serverLayer, exchanges, verdict>>,
         tls' = TRUE
  PROVE  Talk(tk, t, s)'
<1>1. tk # Nil /\ p = Nil /\ b = S("finished", 0)
  BY TalkTls
<1>2. CASE Fresh /\ \E s1 : Waiting(tk, t, s1) /\ s = D("tls") & s1
  <2>1. PICK s1 : Waiting(tk, t, s1) /\ s = D("tls") & s1
    BY <1>2
  <2>2. Waiting(tk, t, s1)'
    BY <2>1, WaitingStays
  <2>3. Lag(tk, t, s)'
    BY <1>2, <2>1, <2>2 DEF Lag, Fresh
  <2> QED BY <1>1, <2>3 DEF Talk
<1>3. CASE ~tls /\ ~saslconn /\ serverLayer = "tls" /\ Inside(tk, t, s)
  <2>1. Inside(tk, t, s)'
    BY <1>3, WaitingStays
  <2>2. Calm'
    BY <1>3 DEF Calm, layer
  <2>3. CASE tk = OnlyTLS /\ t = R("count") & Z /\ Offer(s)'
    <3>1. EarlyGoal(tk, t, s)'
      BY <2>3 DEF EarlyGoal
    <3>2. Near(Ordinary, t, s, t, s)
      BY NearEnd
    <3> QED BY <2>2, <3>1, <3>2 DEF Early, Talk
  <2>4. CASE ViaVe(tk) /\ Opening(t, s)'
    <3>1. PICK K, B : OpenGoal(K, B)' /\ Near(Ordinary, K, B, t, s)
      BY <2>4 DEF Opening
    <3>2. EarlyGoal(tk, K, B)'
      BY <1>1, <3>1 DEF EarlyGoal
    <3> QED BY <2>2, <3>1, <3>2 DEF Early, Talk
  <2> QED BY <2>1, <2>3, <2>4 DEF Inside, ViaVe
<1> QED BY <1>2, <1>3, TalkTls

-------------------------------------------------------------------------------
(* How each authentication opens, on both sides. *)
LEMMA NearRead ==
  ASSUME NEW what \in Data \cup Lengths, NEW v, NEW K, NEW B, NEW c, NEW s, Near(Ordinary, K, B, c, s)
  PROVE  Near(Ordinary, K, B, R(what) & c, S(what, v) & s)
<1>1. R(what) \in Ordinary /\ Meets(R(what), S(what, v)) /\ R(what).op # "write"
  BY Kinds DEF Ordinary, Meets
<1> QED BY <1>1, NearStep

LEMMA NearLoc ==
  ASSUME NEW what \in Locals, NEW K, NEW B, NEW c, NEW s, Near(Ordinary, K, B, c, s)
  PROVE  Near(Ordinary, K, B, L(what) & c, s)
<1>1. L(what) \in Ordinary /\ L(what).op = "local"
  BY Kinds DEF Ordinary, Locals
<1> QED BY <1>1, NearLocal

LEMMA NearPut ==
  ASSUME NEW what \in Plainly, NEW K, NEW B, NEW c, NEW s, Near(Ordinary, K, B, c, s), Onward(c)
  PROVE  Near(Ordinary, K, B, W(what, 0) & c, G(what) & s) /\ Onward(W(what, 0) & c)
<1>1. W(what, 0) \in Ordinary /\ Meets(W(what, 0), G(what)) /\ W(what, 0).op = "write"
  BY Kinds DEF Ordinary, Meets
<1>2. ASequence(c)
  BY NearFacts
<1>3. Onward(W(what, 0) & c)
  BY <1>1, <1>2, OnwardWrite
<1> QED BY <1>1, <1>3, NearStep

LEMMA NearResult ==
  /\ Near(Ordinary, R("result") & Z, D("verdict") & Nil, R("result") & Z, D("verdict") & Nil)
  /\ Onward(R("result") & Z)
  /\ \A c, s : Near(Ordinary, R("result") & Z, D("verdict") & Nil, c, s) => Opening(c, s)
<1>1. ASequence(R("result") & Z) /\ ASequence(D("verdict") & Nil)
  BY ZFacts, NilSequence, ConsSequence
<1>2. Onward(R("result") & Z)
  BY ZFacts, OnwardOther, Kinds
<1>3. OpenGoal(R("result") & Z, D("verdict") & Nil)
  BY DEF OpenGoal, ResultOf
<1> QED BY <1>1, <1>2, <1>3, NearEnd DEF Opening

LEMMA OpensVNC == Opening(HandleVncAuth ++ Z, ServerVNC)
<1> DEFINE K == R("result") & Z
           B == D("verdict") & Nil
<1> HIDE DEF K, B
<1>1. Near(Ordinary, K, B, K, B) /\ Onward(K)
  BY NearResult DEF K, B
<1>2. Near(Ordinary, K, B, W("response", 0) & K, G("response") & B)
  BY <1>1, NearPut DEF Plainly
<1>3. Near(Ordinary, K, B, L("password") & (W("response", 0) & K), G("response") & B)
  BY <1>2, NearLoc DEF Locals
<1>4. Near(Ordinary, K, B, R("challenge") & (L("password") & (W("response", 0) & K)),
           S("challenge", 0) & (G("response") & B))
  BY <1>3, NearRead DEF Data
<1> QED BY <1>4, VncScript, ServedScripts, NearResult, ZFacts DEF K, B

LEMMA OpensSASL == Opening(HandleSASLAuth ++ Z, ServerSASL("fits"))
<1> DEFINE K == L("saslStart") & Z
           B == Mechanism
<1>0. OpenGoal(K, B) /\ ASequence(K) /\ ASequence(B)
  BY MechanismFacts, ZFacts, ConsSequence DEF OpenGoal
<1> HIDE DEF K, B
<1>1. Near(Ordinary, K, B, K, B)
  BY <1>0, NearEnd
<1>2. Near(Ordinary, K, B, R("mechlist") & K, S("mechlist", 0) & B)
  BY <1>1, NearRead DEF Data
<1>3. Near(Ordinary, K, B, R("mechlistLength") & (R("mechlist") & K),
           S("mechlistLength", "fits") & (S("mechlist", 0) & B))
  BY <1>2, NearRead DEF Lengths
<1>4. Near(Ordinary, K, B, L("saslSetup") & (R("mechlistLength") & (R("mechlist") & K)),
           S("mechlistLength", "fits") & (S("mechlist", 0) & B))
  BY <1>3, NearLoc DEF Locals
<1>5. HandleSASLAuth ++ Z = L("saslSetup") & (R("mechlistLength") & (R("mechlist") & K))
  BY ShortScripts, ZFacts DEF K
<1>6. ServerSASL("fits") = S("mechlistLength", "fits") & (S("mechlist", 0) & B)
  BY ServedScripts DEF B, Mechanism
<1> QED BY <1>0, <1>4, <1>5, <1>6 DEF Opening

LEMMA Credentials ==
  ASSUME NEW K, NEW B, NEW c, NEW s, Near(Ordinary, K, B, c, s), Onward(c)
  PROVE  Near(Ordinary, K, B, L("credential") & (W("pub", 0) & (W("user", 0) & (W("password", 0) & c))),
              G("pub") & (G("user") & (G("password") & s)))
<1>1. Near(Ordinary, K, B, W("password", 0) & c, G("password") & s) /\ Onward(W("password", 0) & c)
  BY NearPut DEF Plainly
<1>2. /\ Near(Ordinary, K, B, W("user", 0) & (W("password", 0) & c), G("user") & (G("password") & s))
      /\ Onward(W("user", 0) & (W("password", 0) & c))
  BY <1>1, NearPut DEF Plainly
<1>3. Near(Ordinary, K, B, W("pub", 0) & (W("user", 0) & (W("password", 0) & c)),
           G("pub") & (G("user") & (G("password") & s)))
  BY <1>2, NearPut DEF Plainly
<1> QED BY <1>3, NearLoc DEF Locals

LEMMA OpensMSLogon ==
  Opening(HandleMSLogonAuth ++ Z, ServerMSLogon) /\ Opening(HandleUltraMSLogonIIAuth ++ Z, ServerMSLogon)
<1> DEFINE K == R("result") & Z
           B == D("verdict") & Nil
           x == L("credential") & (W("pub", 0) & (W("user", 0) & (W("password", 0) & K)))
           y == G("pub") & (G("user") & (G("password") & B))
<1> HIDE DEF K, B
<1>1. Near(Ordinary, K, B, K, B) /\ Onward(K)
  BY NearResult DEF K, B
<1>2. Near(Ordinary, K, B, x, y)
  BY <1>1, Credentials
<1> HIDE DEF x, y
<1>3. ASSUME NEW c, Near(Ordinary, K, B, c, y)
      PROVE  Near(Ordinary, K, B, R("gen") & (R("mod") & (R("resp") & c)),
                  S("gen", 0) & (S("mod", 0) & (S("resp", 0) & y)))
  <2>1. Near(Ordinary, K, B, R("resp") & c, S("resp", 0) & y)
    BY <1>3, NearRead DEF Data
  <2>2. Near(Ordinary, K, B, R("mod") & (R("resp") & c), S("mod", 0) & (S("resp", 0) & y))
    BY <2>1, NearRead DEF Data
  <2> QED BY <2>2, NearRead DEF Data
<1>4. Near(Ordinary, K, B, L("keys") & x, y)
  BY <1>2, NearLoc DEF Locals
<1>5. ServerMSLogon = S("gen", 0) & (S("mod", 0) & (S("resp", 0) & y))
  BY ServedScripts DEF y, B
<1>6. HandleMSLogonAuth ++ Z = R("gen") & (R("mod") & (R("resp") & x))
  BY MSLogonScript, ZFacts DEF x, K
<1>7. HandleUltraMSLogonIIAuth ++ Z = R("gen") & (R("mod") & (R("resp") & (L("keys") & x)))
  BY MSLogonIIScript, ZFacts DEF x, K
<1>8. \A c, s : Near(Ordinary, K, B, c, s) => Opening(c, s)
  BY NearResult DEF K, B
<1> QED BY <1>2, <1>3, <1>4, <1>5, <1>6, <1>7, <1>8

LEMMA OpensARD == Opening(HandleARDAuth ++ Z, ServerARD)
<1> DEFINE K == R("result") & Z
           B == D("verdict") & Nil
           c1 == W("ciphertext", 0) & (W("pub", 0) & K)
           s1 == G("ciphertext") & (G("pub") & B)
           c2 == L("keys") & (L("credential") & (L("keys") & c1))
           c3 == R("mod") & (R("resp") & c2)
           s3 == S("mod", 0) & (S("resp", 0) & s1)
           c4 == R("gen") & (R("keyLength") & (L("keys") & c3))
           s4 == S("gen", 0) & (S("keyLength", 0) & s3)
<1> HIDE DEF K, B
<1>1. Near(Ordinary, K, B, K, B) /\ Onward(K)
  BY NearResult DEF K, B
<1>2. Near(Ordinary, K, B, W("pub", 0) & K, G("pub") & B) /\ Onward(W("pub", 0) & K)
  BY <1>1, NearPut DEF Plainly
<1>3. Near(Ordinary, K, B, c1, s1)
  BY <1>2, NearPut DEF Plainly
<1> HIDE DEF c1, s1
<1>4. \A c : Near(Ordinary, K, B, c, s1) => Near(Ordinary, K, B, L("keys") & c, s1)
  BY NearLoc DEF Locals
<1>5. \A c : Near(Ordinary, K, B, c, s1) => Near(Ordinary, K, B, L("credential") & c, s1)
  BY NearLoc DEF Locals
<1>6. Near(Ordinary, K, B, c2, s1)
  BY <1>3, <1>4, <1>5
<1> HIDE DEF c2
<1>7. Near(Ordinary, K, B, R("resp") & c2, S("resp", 0) & s1)
  BY <1>6, NearRead DEF Data
<1>8. Near(Ordinary, K, B, c3, s3)
  BY <1>7, NearRead DEF Data
<1> HIDE DEF c3, s3
<1>9. Near(Ordinary, K, B, L("keys") & c3, s3)
  BY <1>8, NearLoc DEF Locals
<1>10. Near(Ordinary, K, B, R("keyLength") & (L("keys") & c3), S("keyLength", 0) & s3)
  BY <1>9, NearRead DEF Data
<1>11. Near(Ordinary, K, B, c4, s4)
  BY <1>10, NearRead DEF Data
<1>12. HandleARDAuth ++ Z = c4
  BY ARDScript, ZFacts DEF c4, c3, c2, c1, K
<1>13. ServerARD = s4
  BY ServedScripts DEF s4, s3, s1, B
<1> HIDE DEF c4, s4
<1> QED BY <1>11, <1>12, <1>13, NearResult DEF K, B

LEMMA OpensNone == Opening(rfbHandleAuthResult ++ Z, D("verdict") & Nil)
BY NearResult, ResultScript, ZFacts, NilSequence

LEMMA OpensPlain == Opening(HandlePlainAuth ++ Z, ServerPlain)
<1>1. HandlePlainAuth ++ Z = L("plainCredential") & Z /\ ServerPlain = G("lengths") & Nil
  BY ShortScripts, ServedScripts, ZFacts
<1>2. OpenGoal(L("plainCredential") & Z, G("lengths") & Nil)
  BY DEF OpenGoal
<1>3. Near(Ordinary, L("plainCredential") & Z, G("lengths") & Nil, L("plainCredential") & Z, G("lengths") & Nil)
  BY NearEnd, ZFacts, ConsSequence, NilSequence
<1> QED BY <1>1, <1>2, <1>3 DEF Opening

LEMMA OpenEarly ==
  ASSUME Calm, NEW tk, tk # Nil, NEW c, NEW s, Opening(c, s)
  PROVE  Early(tk, c, s)
BY DEF Opening, Early, EarlyGoal

(* Whatever type is taken, both sides go on with it, or the client gives up. *)
LEMMA GivesUp ==
  ASSUME Calm, NEW tk, NEW why \in {"refused", "unknown"}, NEW s,
         s = D("close") & Nil \/ \E c : Opening(c, s)
  PROVE  Early(tk, GiveUp(why) & Z, s)
<1>1. Ends(GiveUp(why) & Z)
  BY ZFacts DEF Ends
<1>2. EarlyGoal(tk, GiveUp(why) & Z, s)
  BY <1>1 DEF EarlyGoal, Refusal
<1>3. ASequence(s)
  BY NilSequence, ConsSequence, OpeningFacts
<1>4. Near(Ordinary, GiveUp(why) & Z, s, GiveUp(why) & Z, s)
  BY <1>3, ZFacts, ConsSequence, NearEnd
<1> QED BY <1>2, <1>4 DEF Early

LEMMA OpensTLS ==
  ASSUME Calm, Fresh
  PROVE  Early(OnlyTLS, (HandleAnonTLSAuth \o <<R("count")>>) ++ Z, Hello(Finish(Nil)))
<1> DEFINE c == R("count") & Z
           K == L("tls") & c
           B == Hello(Finish(Nil))
<1>1. (HandleAnonTLSAuth \o <<R("count")>>) ++ Z = K
  BY TLSScript, ZFacts
<1>2. Waiting(OnlyTLS, c, Nil)
  BY DEF Waiting
<1>3. OnlyTLS # Nil
  BY Ones DEF OnlyTLS
<1>4. ASequence(c) /\ ASequence(B) /\ ASequence(K)
  BY <1>2, WaitingFacts, ConsSequence
<1>5. Hail(OnlyTLS, K, B)
  BY <1>2 DEF Hail
<1> HIDE DEF K, B, c
<1>6. EarlyGoal(OnlyTLS, K, B)
  BY <1>3, <1>5 DEF EarlyGoal
<1>7. Near(Ordinary, K, B, K, B)
  BY <1>4, NearEnd
<1>8. Early(OnlyTLS, K, B)
  BY <1>6, <1>7 DEF Early
<1> QED BY <1>1, <1>8 DEF B

LEMMA OpensVeNCrypt ==
  ASSUME Calm, Fresh
  PROVE  Early(OnlyVe, HandleVeNCryptAuth ++ Z, D("veAnnounce") & Nil)
<1> DEFINE K == R("veVersion") & Z
           B == D("veAnnounce") & Nil
<1>1. HandleVeNCryptAuth ++ Z = L("library") & K
  BY ShortScripts, ZFacts
<1>2. ASequence(K) /\ ASequence(B)
  BY ZFacts, NilSequence, ConsSequence
<1>3. EarlyGoal(OnlyVe, K, B)
  BY DEF EarlyGoal, VeGoal
<1> HIDE DEF K, B
<1>4. Near(Ordinary, K, B, K, B)
  BY <1>2, NearEnd
<1>5. Near(Ordinary, K, B, L("library") & K, B)
  BY <1>4, NearLoc DEF Locals
<1>6. Early(OnlyVe, L("library") & K, B)
  BY <1>3, <1>5 DEF Early
<1> QED BY <1>1, <1>6 DEF B

LEMMA GiveUpScript ==
  ASSUME NEW q, ASequence(q)
  PROVE  <<GiveUp("unknown")>> ++ q = GiveUp("unknown") & q /\ <<>> ++ q = q
BY Tuple1, JoinNil DEF Nil

ServerTLSScript == <<G("hello"), S("finished", 0), D("tls")>>

LEMMA TLSServed ==
  /\ ServerTLSScript = G("hello") & (S("finished", 0) & (D("tls") & Nil))
  /\ ASequence(ServerTLSScript)
BY Tuple3, NilSequence DEF ServerTLSScript

LEMMA Opens ==
  ASSUME Calm, NEW tk, tk # Nil, NEW t,
         Explains(version) <=> Minor = 8,
         t = "TLS" => ~SubAuth /\ tk = OnlyTLS /\ Fresh,
         t = "VeNCrypt" => ~SubAuth /\ tk = OnlyVe /\ Fresh
  PROVE  Early(tk, Handle(t) ++ Z, ServerHandler(t))
<1> DEFINE up == <<GiveUp("unknown")>>
<1>0. up ++ Z = GiveUp("unknown") & Z /\ <<>> ++ Z = Z
  BY GiveUpScript, ZFacts
<1> HIDE DEF up
<1>1. CASE t = "Invalid"
  <2>1. Handle(t) = ReadReason
    BY <1>1 DEF Handle, Handler, SubHandler
  <2>2. ServerHandler(t) = ServerReason("fits")
    BY <1>1 DEF ServerHandler
  <2> QED BY <2>1, <2>2, ReasonsRead, ZFacts DEF Sizes
<1>2. CASE t = "None"
  <2>1. Handle(t) = IF Explains(version) THEN rfbHandleAuthResult ELSE <<>>
    BY <1>2 DEF Handle, Handler, SubHandler
  <2>2. ServerHandler(t) = ServerNone(Minor)
    BY <1>2 DEF ServerHandler
  <2>3. CASE Explains(version)
    <3>1. ServerNone(Minor) = <<D("verdict")>>
      BY <2>3 DEF ServerNone
    <3>2. ServerHandler(t) = D("verdict") & Nil
      BY <2>2, <3>1, Single
    <3>3. Handle(t) = rfbHandleAuthResult
      BY <2>1, <2>3
    <3> QED BY <3>2, <3>3, OpensNone, OpenEarly
  <2>4. CASE ~Explains(version)
    <3>1. ServerNone(Minor) = <<D("admit")>>
      BY <2>4 DEF ServerNone
    <3>2. ServerHandler(t) = D("admit") & Nil
      BY <2>2, <3>1, Single
    <3>3. Handle(t) = <<>>
      BY <2>1, <2>4
    <3>4. Handle(t) ++ Z = Z
      BY <1>0, <3>3
    <3>5. EarlyGoal(tk, Z, D("admit") & Nil)
      BY DEF EarlyGoal
    <3>6. Near(Ordinary, Z, D("admit") & Nil, Z, D("admit") & Nil)
      BY ZFacts, NilSequence, ConsSequence, NearEnd
    <3> QED BY <3>2, <3>4, <3>5, <3>6 DEF Early
  <2> QED BY <2>3, <2>4
<1>3. CASE t = "VNC"
  <2>1. Handle(t) = HandleVncAuth
    BY <1>3 DEF Handle, Handler, SubHandler
  <2>2. ServerHandler(t) = ServerVNC
    BY <1>3 DEF ServerHandler
  <2> QED BY <2>1, <2>2, OpensVNC, OpenEarly
<1>4. CASE t = "SASL"
  <2>2. ServerHandler(t) = ServerSASL("fits")
    BY <1>4 DEF ServerHandler
  <2>3. CASE HaveSASL
    <3>1. Handle(t) = HandleSASLAuth
      BY <1>4, <2>3 DEF Handle, Handler, SubHandler
    <3> QED BY <2>2, <3>1, OpensSASL, OpenEarly
  <2>4. CASE ~HaveSASL
    <3>1. Handle(t) = up
      BY <1>4, <2>4 DEF Handle, Handler, SubHandler, up
    <3> QED BY <1>0, <2>2, <3>1, OpensSASL, GivesUp
  <2> QED BY <2>3, <2>4
<1>5. CASE t \in {"MSLogon", "MSLogonII"}
  <2>2. ServerHandler(t) = ServerMSLogon
    BY <1>5 DEF ServerHandler
  <2>3. CASE SubAuth
    <3>1. Handle(t) = up
      BY <1>5, <2>3 DEF Handle, SubHandler, up
    <3> QED BY <1>0, <2>2, <3>1, OpensMSLogon, GivesUp
  <2>4. CASE ~SubAuth
    <3>1. Handle(t) = HandleMSLogonAuth \/ Handle(t) = HandleUltraMSLogonIIAuth
      BY <1>5, <2>4 DEF Handle, Handler
    <3> QED BY <2>2, <3>1, OpensMSLogon, OpenEarly
  <2> QED BY <2>3, <2>4
<1>6. CASE t = "ARD"
  <2>2. ServerHandler(t) = ServerARD
    BY <1>6 DEF ServerHandler
  <2>3. CASE SubAuth
    <3>1. Handle(t) = up
      BY <1>6, <2>3 DEF Handle, SubHandler, up
    <3> QED BY <1>0, <2>2, <3>1, OpensARD, GivesUp
  <2>4. CASE ~SubAuth
    <3>1. Handle(t) = HandleARDAuth
      BY <1>6, <2>4 DEF Handle, Handler
    <3> QED BY <2>2, <3>1, OpensARD, OpenEarly
  <2> QED BY <2>3, <2>4
<1>7. CASE t = "TLS"
  <2>1. Handle(t) = HandleAnonTLSAuth \o <<R("count")>>
    BY <1>7 DEF Handle, Handler
  <2>2. ServerHandler(t) = <<G("hello"), S("finished", 0), D("tls")>>
    BY <1>7 DEF ServerHandler
  <2>3. ServerHandler(t) = ServerTLSScript
    BY <2>2 DEF ServerTLSScript
  <2>4. ServerHandler(t) = Hello(Finish(Nil))
    BY <2>3, TLSServed DEF Hello, Finish
  <2> QED BY <1>7, <2>1, <2>4, OpensTLS
<1>8. CASE t = "VeNCrypt"
  <2>1. Handle(t) = HandleVeNCryptAuth
    BY <1>8 DEF Handle, Handler
  <2>2. ServerHandler(t) = <<D("veAnnounce")>>
    BY <1>8 DEF ServerHandler
  <2> QED BY <1>8, <2>1, <2>2, OpensVeNCrypt, Single
<1>9. CASE t \notin {"Invalid", "None", "VNC", "SASL", "MSLogon", "MSLogonII", "ARD", "TLS", "VeNCrypt"}
  <2>1. Handle(t) = up
    BY <1>9 DEF Handle, Handler, SubHandler, up
  <2>2. ServerHandler(t) = <<D("close")>>
    BY <1>9 DEF ServerHandler
  <2>3. ServerHandler(t) = D("close") & Nil
    BY <2>2, Single
  <2> QED BY <1>0, <2>1, <2>3, GivesUp
<1> QED BY <1>1, <1>2, <1>3, <1>4, <1>5, <1>6, <1>7, <1>8, <1>9

LEMMA VeOpens ==
  ASSUME NEW t \in VeNCryptTypes
  PROVE  Opening(VeNCryptHandler(t) ++ Z, VeServer(t))
<1> USE DEF NoneTypes, VNCTypes, PlainTypes, SASLTypes
<1>1. CASE t \in NoneTypes
  <2>1. VeNCryptHandler(t) = rfbHandleAuthResult
    BY <1>1 DEF VeNCryptHandler
  <2>2. VeServer(t) = D("verdict") & Nil
    BY <1>1 DEF VeServer
  <2> QED BY <2>1, <2>2, OpensNone
<1>2. CASE t \in VNCTypes
  <2>1. VeNCryptHandler(t) = HandleVncAuth
    BY <1>2 DEF VeNCryptHandler
  <2>2. VeServer(t) = ServerVNC
    BY <1>2 DEF VeServer
  <2> QED BY <2>1, <2>2, OpensVNC
<1>3. CASE t \in PlainTypes
  <2>1. VeNCryptHandler(t) = HandlePlainAuth
    BY <1>3 DEF VeNCryptHandler
  <2>2. VeServer(t) = ServerPlain
    BY <1>3 DEF VeServer
  <2> QED BY <2>1, <2>2, OpensPlain
<1>4. CASE t \in SASLTypes
  <2>1. VeNCryptHandler(t) = HandleSASLAuth
    BY <1>4 DEF VeNCryptHandler
  <2>2. VeServer(t) = ServerSASL("fits")
    BY <1>4 DEF VeServer
  <2> QED BY <2>1, <2>2, OpensSASL
<1> QED BY <1>1, <1>2, <1>3, <1>4 DEF VeNCryptTypes

-------------------------------------------------------------------------------
(* Lists, as they are read. *)
LEMMA ReadingFacts ==
  ASSUME NEW e, NEW K, NEW B, NEW c, NEW s, Reading(e, K, B, c, s)
  PROVE  ASequence(c) /\ ASequence(s) /\ ASequence(B) /\ (Finishes(c) => Finishes(K))
<1>1. PICK q : AllOp(q, "send") /\ Matched({e}, K, c, q) /\ s = q ++ B
  BY DEF Reading
<1>2. ASequence(B) /\ ASequence(q)
  BY <1>1, AllOpSequence DEF Reading
<1> QED BY <1>1, <1>2, MatchedFacts, JoinSequence

LEMMA ReadingReads ==
  ASSUME NEW e, e.op = "read", NEW K, ASequence(K), K[1].op = "local", NEW B,
         NEW p, AllOp(p, "write"), NEW a, a.op = "read", NEW t, ASequence(t),
         NEW b, b.op = "send", NEW s, ASequence(s), Reading(e, K, B, p ++ (a & t), b & s)
  PROVE  p = Nil /\ a = e /\ b.what = e.what /\ Reading(e, K, B, t, s)
<1> DEFINE c == p ++ (a & t)
<1>1. PICK q : AllOp(q, "send") /\ Matched({e}, K, c, q) /\ b & s = q ++ B
  BY DEF Reading
<1>2. ASequence(B) /\ ASequence(q) /\ ASequence(a & t) /\ ASequence(p)
  BY <1>1, AllOpSequence, ConsSequence DEF Reading
<1>3. c # K
  <2>1. SUFFICES ASSUME p ++ (a & t) = K PROVE FALSE
    OBVIOUS
  <2>2. K[1].op # "write"
    OBVIOUS
  <2>3. a = K[1]
    BY <2>1, <2>2, NotWritten
  <2> QED BY <2>3
<1>4. PICK x, c1, y, q1 :
              /\ ASequence(c1) /\ ASequence(q1) /\ c = x & c1 /\ q = y & q1
              /\ x = e /\ Meets(x, y)
              /\ Matched({e}, K, c1, q1)
  <2> HIDE DEF c
  <2> QED BY <1>1, <1>3, MatchedCases
<1>5. p = Nil /\ a = x /\ t = c1
  BY <1>4, NextIs
<1>6. y.what = e.what /\ AllOp(q1, "send")
  BY <1>1, <1>4, AllOpParts, Kinds DEF Meets
<1>7. b & s = y & (q1 ++ B) /\ ASequence(q1 ++ B)
  BY <1>1, <1>2, <1>4, JoinCons, JoinSequence
<1>8. b = y /\ s = q1 ++ B
  BY <1>7, ConsEqual
<1> QED BY <1>2, <1>4, <1>5, <1>6, <1>8 DEF Reading

LEMMA ReadingDone ==
  ASSUME NEW e, e.op = "read", NEW K, ASequence(K), K[1].op = "local", NEW B,
         NEW p, AllOp(p, "write"), NEW a, a.op \notin {"read", "write"}, NEW t, ASequence(t),
         NEW s, Reading(e, K, B, p ++ (a & t), s)
  PROVE  p = Nil /\ a & t = K /\ s = B
<1> DEFINE c == p ++ (a & t)
<1>1. PICK q : AllOp(q, "send") /\ Matched({e}, K, c, q) /\ s = q ++ B
  BY DEF Reading
<1>2. ASequence(B) /\ ASequence(q) /\ ASequence(a & t) /\ ASequence(p)
  BY <1>1, AllOpSequence, ConsSequence DEF Reading
<1>3. c = K /\ q = Nil
  <2>1. ASSUME NEW x, NEW c1, ASequence(c1), c = x & c1, x = e PROVE FALSE
    <3>1. p ++ (a & t) = x & c1 /\ x.op = "read"
      BY <2>1
    <3>2. a = x
      BY <2>1, <3>1, NextIs
    <3> QED BY <3>1, <3>2
  <2> HIDE DEF c
  <2> QED BY <1>1, <2>1, MatchedCases
<1>4. p = Nil /\ K = a & t
  <2>1. p ++ (a & t) = K /\ K[1].op # "write" /\ a.op # "write"
    BY <1>3
  <2> QED BY <2>1, NotWritten
<1>5. s = B
  BY <1>1, <1>2, <1>3, JoinNil
<1> QED BY <1>4, <1>5

(* What the client is writing is not in a list. *)
LEMMA ReadingWrites ==
  ASSUME NEW e, e.op = "read", NEW K, ASequence(K), K[1].op = "local", NEW B,
         NEW w, w.op = "write", NEW t, ASequence(t), NEW s
  PROVE  ~Reading(e, K, B, w & t, s)
<1> SUFFICES ASSUME Reading(e, K, B, w & t, s) PROVE FALSE
  OBVIOUS
<1> DEFINE c == w & t
<1>1. PICK q : Matched({e}, K, c, q)
  BY DEF Reading
<1>2. c # K
  BY ConsParts
<1>3. ASSUME NEW x, NEW c1, ASequence(c1), c = x & c1, x = e PROVE FALSE
  <2>1. w = x
    BY <1>3, ConsEqual
  <2> QED BY <1>3, <2>1
<1> HIDE DEF c
<1> QED BY <1>1, <1>2, <1>3, MatchedCases

(* The next step of the server that is not of the list. *)
LEMMA ReadingOther ==
  ASSUME NEW e, NEW K, NEW B, NEW c, NEW r, AllOp(r, "send"), NEW x, x.op # "send",
         NEW d, ASequence(d), Reading(e, K, B, c, r ++ (x & d))
  PROVE  \E r2 : /\ AllOp(r2, "send") /\ B = r2 ++ (x & d)
                 /\ \A d2 : ASequence(d2) => Reading(e, K, r2 ++ d2, c, r ++ d2)
<1>1. PICK q : AllOp(q, "send") /\ Matched({e}, K, c, q) /\ r ++ (x & d) = q ++ B
  BY DEF Reading
<1>2. ASequence(B) /\ ASequence(q) /\ ASequence(r)
  BY <1>1, AllOpSequence DEF Reading
<1>3. \A i \in 1 .. Len(q) : q[i].op # x.op
  BY <1>1 DEF AllOp
<1> DEFINE y == x & d
<1>4. q ++ B = r ++ y
  BY <1>1
<1>5. y = x & d
  OBVIOUS
<1> HIDE DEF y
<1>6. PICK r2 : AllOp(r2, "send") /\ r = q ++ r2 /\ B = r2 ++ y
  BY <1>2, <1>3, <1>4, <1>5, Cut
<1>7. ASSUME NEW d2, ASequence(d2) PROVE Reading(e, K, r2 ++ d2, c, r ++ d2)
  <2>1. ASequence(r2) /\ ASequence(r2 ++ d2)
    BY <1>6, <1>7, AllOpSequence, JoinSequence
  <2>2. r ++ d2 = q ++ (r2 ++ d2)
    BY <1>2, <1>6, <1>7, <2>1, JoinAssoc
  <2> QED BY <1>1, <2>1, <2>2 DEF Reading
<1> QED BY <1>5, <1>6, <1>7

(* The entries of the list in the two lists. *)
SwitchOn == L("switch") & Z
VeSwitchOn == L("veSwitch") & Z

LEMMA Switches ==
  /\ ASequence(SwitchOn) /\ SwitchOn[1] = L("switch") /\ SwitchOn[1].op = "local" /\ ~Finishes(SwitchOn)
  /\ ASequence(VeSwitchOn) /\ VeSwitchOn[1] = L("veSwitch") /\ VeSwitchOn[1].op = "local" /\ ~Finishes(VeSwitchOn)
<1>1. \A w : L(w).op \notin {"write", "ready"}
  BY Kinds
<1> QED BY <1>1, ZFacts, BeginsWith, Kinds DEF SwitchOn, VeSwitchOn

LEMMA NoTypeNot == \A subAuth : ~Selectable(NoType, subAuth) /\ NoType \notin VeNCryptTypes
  BY DEF Selectable, NoType, VeNCryptTypes, NoneTypes, VNCTypes, PlainTypes, SASLTypes

LEMMA TypesFacts ==
  ASSUME NEW B, NEW c, NEW s, Types(B, c, s)
  PROVE  ASequence(c) /\ ASequence(s) /\ ASequence(B) /\ ~Finishes(c)
<1>1. Reading(R("type"), SwitchOn, B, c, s)
  BY DEF Types, SwitchOn
<1> QED BY <1>1, ReadingFacts, Switches

LEMMA TypesReads ==
  ASSUME NEW B, NEW p, AllOp(p, "write"), NEW w, NEW t, ASequence(t),
         NEW b, b.op = "send", NEW s, ASequence(s), Types(B, p ++ (R(w) & t), b & s)
  PROVE  p = Nil /\ w = "type" /\ b.what = "type" /\ Types(B, t, s)
<1>1. Reading(R("type"), SwitchOn, B, p ++ (R(w) & t), b & s)
  BY DEF Types, SwitchOn
<1>2. \A u : R(u).op = "read" /\ R(u).what = u
  BY Kinds
<1>3. p = Nil /\ R(w) = R("type") /\ b.what = "type" /\ Reading(R("type"), SwitchOn, B, t, s)
  BY <1>1, <1>2, Switches, ReadingReads
<1>4. w = "type"
  BY <1>2, <1>3
<1> QED BY <1>3, <1>4 DEF Types, SwitchOn

LEMMA TypesDone ==
  ASSUME NEW B, NEW p, AllOp(p, "write"), NEW a, a.op \notin {"read", "write"}, NEW t, ASequence(t),
         NEW s, Types(B, p ++ (a & t), s)
  PROVE  p = Nil /\ a = L("switch") /\ t = Z /\ s = B
<1>1. Reading(R("type"), SwitchOn, B, p ++ (a & t), s)
  BY DEF Types, SwitchOn
<1>2. R("type").op = "read"
  BY Kinds
<1>3. p = Nil /\ a & t = SwitchOn /\ s = B
  BY <1>1, <1>2, Switches, ReadingDone
<1>4. a = L("switch") /\ t = Z
  BY <1>3, ZFacts, ConsEqual DEF SwitchOn
<1> QED BY <1>3, <1>4

LEMMA TypesWrites ==
  ASSUME NEW B, NEW w, w.op = "write", NEW t, ASequence(t), NEW s
  PROVE  ~Types(B, w & t, s)
<1>1. ~Reading(R("type"), SwitchOn, B, w & t, s)
  BY Kinds, Switches, ReadingWrites
<1> QED BY <1>1 DEF Types, SwitchOn

LEMMA TypesOther ==
  ASSUME NEW B, NEW c, NEW r, AllOp(r, "send"), NEW x, x.op # "send",
         NEW d, ASequence(d), Types(B, c, r ++ (x & d))
  PROVE  \E r2 : /\ AllOp(r2, "send") /\ B = r2 ++ (x & d)
                 /\ \A d2 : ASequence(d2) => Types(r2 ++ d2, c, r ++ d2)
  BY ReadingOther DEF Types

(* The client reads a security type.                                        *)
LEMMA ListingReads ==
  ASSUME NEW p, AllOp(p, "write"), NEW w, NEW t, ASequence(t),
         NEW b, b.op = "send", NEW s, ASequence(s), Listing(p ++ (R(w) & t), b & s)
  PROVE  /\ w = "type" /\ b.what = "type" /\ Choosing
         /\ Listing(p ++ t, s)
         /\ picked = NoType => p = Nil /\ Unpicked(t, s)
<1>1. CASE Unpicked(p ++ (R(w) & t), b & s)
  <2>1. p = Nil /\ w = "type" /\ b.what = "type" /\ Types(G("choice") & Nil, t, s)
    BY <1>1, TypesReads DEF Unpicked
  <2>2. Unpicked(t, s)
    BY <1>1, <2>1 DEF Unpicked
  <2>3. p ++ t = t
    BY <2>1, JoinNil
  <2> QED BY <2>1, <2>2, <2>3 DEF Listing
<1>2. CASE Picked(p ++ (R(w) & t), b & s)
  <2> DEFINE a == W("choice", picked)
  <2>1. PICK c1 : p ++ (R(w) & t) = a & c1 /\ Types(G("choice") & Nil, c1, b & s)
    BY <1>2 DEF Picked
  <2>2. ASequence(c1) /\ ASequence(R(w) & t)
    BY <2>1, TypesFacts, ConsSequence
  <2>3. a # R(w)
    BY Kinds
  <2>4. PICK p1 : AllOp(p1, "write") /\ p = a & p1 /\ c1 = p1 ++ (R(w) & t)
    <3>1. ~(p = Nil /\ R(w) & t = a & c1)
      BY <2>2, <2>3, ConsEqual
    <3> QED BY <2>1, <2>2, <3>1, Peel
  <2>5. p1 = Nil /\ w = "type" /\ b.what = "type" /\ Types(G("choice") & Nil, t, s)
    <3>1. Types(G("choice") & Nil, p1 ++ (R(w) & t), b & s)
      BY <2>1, <2>4
    <3> QED BY <3>1, <2>4, TypesReads
  <2>6. p ++ t = a & t
    BY <2>4, <2>5, JoinCons, JoinNil, NilSequence
  <2>7. Picked(p ++ t, s)
    BY <1>2, <2>5, <2>6 DEF Picked
  <2>8. picked # NoType
    BY <1>2, NoTypeNot DEF Picked
  <2> QED BY <2>5, <2>7, <2>8 DEF Listing
<1>3. CASE Heard(p ++ (R(w) & t), b & s)
  <2>1. PICK B : Types(B, p ++ (R(w) & t), b & s) /\ Talk(taken, Handle(picked) ++ Z, B)
    BY <1>3 DEF Heard
  <2>2. p = Nil /\ w = "type" /\ b.what = "type" /\ Types(B, t, s)
    BY <2>1, TypesReads
  <2>3. Heard(t, s) /\ picked # NoType
    BY <1>3, <2>1, <2>2, NoTypeNot DEF Heard
  <2>4. p ++ t = t
    BY <2>2, JoinNil
  <2> QED BY <2>2, <2>3, <2>4 DEF Listing
<1> QED BY <1>1, <1>2, <1>3 DEF Listing

(* The end of the list: the client switches on the type. *)
LEMMA ListingDone ==
  ASSUME NEW p, AllOp(p, "write"), NEW a, a.op \notin {"read", "write"}, NEW t, ASequence(t),
         NEW s, Listing(p ++ (a & t), s)
  PROVE  /\ a = L("switch") /\ t = Z /\ Choosing
         /\ \/ p = Nil /\ picked = NoType
            \/ /\ p = W("choice", picked) & Nil /\ s = G("choice") & Nil
               /\ Selectable(picked, SubAuth) /\ Quiet /\ taken = Before
            \/ /\ p = Nil /\ Selectable(picked, SubAuth) /\ taken = Added(Before, picked)
               /\ Talk(taken, Handle(picked) ++ Z, s)
<1>1. CASE Unpicked(p ++ (a & t), s)
  <2>1. p = Nil /\ a = L("switch") /\ t = Z
    BY <1>1, TypesDone DEF Unpicked
  <2> QED BY <1>1, <2>1 DEF Unpicked, Listing
<1>2. CASE Picked(p ++ (a & t), s)
  <2> DEFINE w == W("choice", picked)
  <2>1. PICK c1 : p ++ (a & t) = w & c1 /\ Types(G("choice") & Nil, c1, s)
    BY <1>2 DEF Picked
  <2>2. ASequence(c1) /\ ASequence(a & t)
    BY <2>1, TypesFacts, ConsSequence
  <2>3. a # w
    BY Kinds
  <2>4. PICK p1 : AllOp(p1, "write") /\ p = w & p1 /\ c1 = p1 ++ (a & t)
    <3>1. ~(p = Nil /\ a & t = w & c1)
      BY <2>2, <2>3, ConsEqual
    <3> QED BY <2>1, <2>2, <3>1, Peel
  <2>5. p1 = Nil /\ a = L("switch") /\ t = Z /\ s = G("choice") & Nil
    <3>1. Types(G("choice") & Nil, p1 ++ (a & t), s)
      BY <2>1, <2>4
    <3> QED BY <3>1, <2>4, TypesDone
  <2> QED BY <1>2, <2>4, <2>5 DEF Listing, Picked
<1>3. CASE Heard(p ++ (a & t), s)
  <2>1. PICK B : Types(B, p ++ (a & t), s) /\ Talk(taken, Handle(picked) ++ Z, B)
    BY <1>3 DEF Heard
  <2>2. p = Nil /\ a = L("switch") /\ t = Z /\ s = B
    BY <2>1, TypesDone
  <2> QED BY <1>3, <2>1, <2>2 DEF Listing, Heard
<1> QED BY <1>1, <1>2, <1>3 DEF Listing

(* The server gets the answer.                                              *)
LEMMA ListingGets ==
  ASSUME NEW w, w.op = "write", NEW c, ASequence(c),
         NEW r, AllOp(r, "send"), NEW g, g.op = "get", NEW s, ASequence(s),
         Listing(w & c, r ++ (g & s))
  PROVE  /\ w = W("choice", picked) /\ g = G("choice") /\ s = Nil /\ Choosing
         /\ Selectable(picked, SubAuth) /\ Quiet /\ taken = Before
         /\ \A d : ASequence(d) => Types(d, c, r ++ d)
<1>1. Picked(w & c, r ++ (g & s)) /\ Choosing
  BY TypesWrites DEF Listing, Unpicked, Heard
<1>2. PICK c1 : w & c = W("choice", picked) & c1 /\ Types(G("choice") & Nil, c1, r ++ (g & s))
  BY <1>1 DEF Picked
<1>3. w = W("choice", picked) /\ c1 = c
  BY <1>2, TypesFacts, ConsEqual
<1>4. PICK r2 : /\ AllOp(r2, "send") /\ G("choice") & Nil = r2 ++ (g & s)
                /\ \A d2 : ASequence(d2) => Types(r2 ++ d2, c, r ++ d2)
  <2>1. g.op # "send" /\ Types(G("choice") & Nil, c, r ++ (g & s))
    BY <1>2, <1>3
  <2> QED BY <2>1, TypesOther
<1>5. r2 = Nil /\ g = G("choice") /\ s = Nil
  BY <1>4, Heads, Kinds, NilSequence
<1> QED BY <1>1, <1>3, <1>4, <1>5, JoinNil DEF Picked

(* The server decides, when the list has been answered.                     *)
LEMMA ListingDecides ==
  ASSUME NEW c, NEW r, AllOp(r, "send"), NEW x, x.op \notin {"send", "get"},
         NEW d, ASequence(d), Listing(c, r ++ (x & d))
  PROVE  /\ Choosing /\ Selectable(picked, SubAuth) /\ taken = Added(Before, picked)
         /\ \E r2 : /\ AllOp(r2, "send")
                    /\ Talk(taken, Handle(picked) ++ Z, r2 ++ (x & d))
                    /\ \A d2 : ASequence(d2) => Types(r2 ++ d2, c, r ++ d2)
<1>0. ASequence(G("choice") & Nil)
  BY NilSequence, ConsSequence
<1>1. ASSUME NEW c1 PROVE ~Types(G("choice") & Nil, c1, r ++ (x & d))
  <2>1. SUFFICES ASSUME Types(G("choice") & Nil, c1, r ++ (x & d)) PROVE FALSE
    OBVIOUS
  <2>2. PICK r2 : AllOp(r2, "send") /\ G("choice") & Nil = r2 ++ (x & d)
    BY <2>1, TypesOther
  <2> QED BY <2>2, Heads, Kinds, NilSequence
<1>2. Heard(c, r ++ (x & d)) /\ Choosing
  BY <1>1 DEF Listing, Unpicked, Picked
<1>3. PICK B : Types(B, c, r ++ (x & d)) /\ Talk(taken, Handle(picked) ++ Z, B)
  BY <1>2 DEF Heard
<1>4. PICK r2 : /\ AllOp(r2, "send") /\ B = r2 ++ (x & d)
                /\ \A d2 : ASequence(d2) => Types(r2 ++ d2, c, r ++ d2)
  <2>1. x.op # "send"
    OBVIOUS
  <2> QED BY <1>3, <2>1, TypesOther
<1> QED BY <1>2, <1>3, <1>4 DEF Heard
Taking == R("veAccepted") & Z

LEMMA TakingFacts ==
  /\ ASequence(Taking) /\ Taking[1] = R("veAccepted") /\ Taking[1].op = "read" /\ ~Finishes(Taking)
<1>1. R("veAccepted").op \notin {"write", "ready"} /\ R("veAccepted").op = "read"
  BY Kinds
<1> QED BY <1>1, ZFacts, BeginsWith DEF Taking

LEMMA VeTypesFacts ==
  ASSUME NEW B, NEW c, NEW s, VeTypes(B, c, s)
  PROVE  ASequence(c) /\ ASequence(s) /\ ASequence(B) /\ ~Finishes(c)
<1>1. CASE Reading(R("veType"), VeSwitchOn, B, c, s)
  BY <1>1, ReadingFacts, Switches
<1>2. CASE c = Taking /\ s = B /\ ASequence(B)
  BY <1>2, TakingFacts
<1> QED BY <1>1, <1>2 DEF VeTypes, VeSwitchOn, Taking

LEMMA VeTypesReads ==
  ASSUME NEW B, NEW p, AllOp(p, "write"), NEW w, NEW t, ASequence(t),
         NEW b, b.op = "send", NEW s, ASequence(s), VeTypes(B, p ++ (R(w) & t), b & s)
  PROVE  /\ p = Nil
         /\ \/ w = "veType" /\ b.what = "veType" /\ VeTypes(B, t, s)
            \/ w = "veAccepted" /\ t = Z /\ B = b & s
<1>1. \A u : R(u).op = "read" /\ R(u).what = u
  BY Kinds
<1>2. CASE Reading(R("veType"), VeSwitchOn, B, p ++ (R(w) & t), b & s)
  <2>1. p = Nil /\ R(w) = R("veType") /\ b.what = "veType" /\ Reading(R("veType"), VeSwitchOn, B, t, s)
    BY <1>1, <1>2, Switches, ReadingReads
  <2>2. w = "veType"
    BY <1>1, <2>1
  <2> QED BY <2>1, <2>2 DEF VeTypes, VeSwitchOn
<1>3. CASE p ++ (R(w) & t) = Taking /\ b & s = B
  <2>1. Taking[1].op # "write" /\ R(w).op # "write"
    BY <1>1, TakingFacts
  <2>2. p = Nil /\ R(w) = R("veAccepted") /\ Taking = R(w) & t
    BY <1>3, <2>1, TakingFacts, NotWritten
  <2>3. t = Z /\ w = "veAccepted"
    BY <1>1, <2>2, ZFacts, ConsEqual DEF Taking
  <2> QED BY <1>3, <2>2, <2>3
<1> QED BY <1>2, <1>3 DEF VeTypes, VeSwitchOn, Taking

LEMMA VeTypesDone ==
  ASSUME NEW B, NEW p, AllOp(p, "write"), NEW a, a.op \notin {"read", "write"}, NEW t, ASequence(t),
         NEW s, VeTypes(B, p ++ (a & t), s)
  PROVE  p = Nil /\ a = L("veSwitch") /\ t = Z /\ s = B
<1>1. Reading(R("veType"), VeSwitchOn, B, p ++ (a & t), s)
  <2>1. SUFFICES ASSUME p ++ (a & t) = Taking PROVE FALSE
    BY DEF VeTypes, VeSwitchOn, Taking
  <2>2. a = Taking[1]
    BY <2>1, TakingFacts, NotWritten
  <2> QED BY <2>2, TakingFacts
<1>2. R("veType").op = "read"
  BY Kinds
<1>3. p = Nil /\ a & t = VeSwitchOn /\ s = B
  BY <1>1, <1>2, Switches, ReadingDone
<1>4. a = L("veSwitch") /\ t = Z
  BY <1>3, ZFacts, ConsEqual DEF VeSwitchOn
<1> QED BY <1>3, <1>4

LEMMA VeTypesWrites ==
  ASSUME NEW B, NEW w, w.op = "write", NEW t, ASequence(t), NEW s
  PROVE  ~VeTypes(B, w & t, s)
<1>1. ~Reading(R("veType"), VeSwitchOn, B, w & t, s)
  BY Kinds, Switches, ReadingWrites
<1>2. w & t # Taking
  BY ConsParts, TakingFacts
<1> QED BY <1>1, <1>2 DEF VeTypes, VeSwitchOn, Taking

LEMMA VeTypesOther ==
  ASSUME NEW B, NEW c, NEW r, AllOp(r, "send"), NEW x, x.op # "send",
         NEW d, ASequence(d), VeTypes(B, c, r ++ (x & d))
  PROVE  \E r2 : /\ AllOp(r2, "send") /\ B = r2 ++ (x & d)
                 /\ \A d2 : ASequence(d2) => VeTypes(r2 ++ d2, c, r ++ d2)
<1>1. CASE Reading(R("veType"), VeSwitchOn, B, c, r ++ (x & d))
  BY <1>1, ReadingOther DEF VeTypes, VeSwitchOn
<1>2. CASE picked \in VeNCryptTypes /\ c = Taking /\ r ++ (x & d) = B
  BY <1>2, AllOpSequence, JoinSequence DEF VeTypes, Taking
<1> QED BY <1>1, <1>2 DEF VeTypes, VeSwitchOn, Taking

(* The client reads a VeNCrypt type, or whether its choice is accepted.     *)
LEMMA VeListingReads ==
  ASSUME NEW p, AllOp(p, "write"), NEW w, NEW t, ASequence(t),
         NEW b, b.op = "send", NEW s, ASequence(s), VeListing(p ++ (R(w) & t), b & s)
  PROVE  /\ b.what = w /\ VeChoosing
         /\ \/ /\ w = "veType" /\ VeListing(p ++ t, s)
               /\ picked = NoType => p = Nil /\ VeUnpicked(t, s)
            \/ /\ w = "veAccepted" /\ p = Nil /\ t = Z /\ Accepts(picked, b & s)
               /\ picked \in VeNCryptTypes /\ taken = Two("VeNCrypt", picked)
<1>0. b & s # G("veChoice") & Nil
  BY Kinds, NilSequence, ConsEqual
<1>1. CASE VeUnpicked(p ++ (R(w) & t), b & s)
  <2>1. p = Nil /\ w = "veType" /\ b.what = "veType" /\ VeTypes(G("veChoice") & Nil, t, s)
    BY <1>0, <1>1, VeTypesReads DEF VeUnpicked
  <2>2. VeUnpicked(t, s)
    BY <1>1, <2>1 DEF VeUnpicked
  <2>3. p ++ t = t
    BY <2>1, JoinNil
  <2> QED BY <2>1, <2>2, <2>3 DEF VeListing
<1>2. CASE VePicked(p ++ (R(w) & t), b & s)
  <2> DEFINE a == W("veChoice", picked)
  <2>1. PICK c1 : p ++ (R(w) & t) = a & c1 /\ VeTypes(G("veChoice") & Nil, c1, b & s)
    BY <1>2 DEF VePicked
  <2>2. ASequence(c1) /\ ASequence(R(w) & t)
    BY <2>1, VeTypesFacts, ConsSequence
  <2>3. a # R(w)
    BY Kinds
  <2>4. PICK p1 : AllOp(p1, "write") /\ p = a & p1 /\ c1 = p1 ++ (R(w) & t)
    <3>1. ~(p = Nil /\ R(w) & t = a & c1)
      BY <2>2, <2>3, ConsEqual
    <3> QED BY <2>1, <2>2, <3>1, Peel
  <2>5. p1 = Nil /\ w = "veType" /\ b.what = "veType" /\ VeTypes(G("veChoice") & Nil, t, s)
    <3>1. VeTypes(G("veChoice") & Nil, p1 ++ (R(w) & t), b & s)
      BY <2>1, <2>4
    <3> QED BY <1>0, <3>1, <2>4, VeTypesReads
  <2>6. p ++ t = a & t
    BY <2>4, <2>5, JoinCons, JoinNil, NilSequence
  <2>7. VePicked(p ++ t, s)
    BY <1>2, <2>5, <2>6 DEF VePicked
  <2>8. picked # NoType
    BY <1>2, NoTypeNot DEF VePicked
  <2> QED BY <2>5, <2>7, <2>8 DEF VeListing
<1>3. CASE VeHeard(p ++ (R(w) & t), b & s)
  <2>1. PICK B : VeTypes(B, p ++ (R(w) & t), b & s) /\ Accepts(picked, B)
    BY <1>3 DEF VeHeard
  <2>2. p = Nil
    BY <2>1, VeTypesReads
  <2>3. CASE w = "veType" /\ b.what = "veType" /\ VeTypes(B, t, s)
    <3>1. VeHeard(t, s) /\ picked # NoType
      BY <1>3, <2>1, <2>3, NoTypeNot DEF VeHeard
    <3>2. p ++ t = t
      BY <2>2, JoinNil
    <3> QED BY <2>2, <2>3, <3>1, <3>2 DEF VeListing
  <2>4. CASE w = "veAccepted" /\ t = Z /\ B = b & s
    <3>1. Accepts(picked, b & s)
      BY <2>1, <2>4
    <3>2. b.what = "veAccepted"
      <4>1. ASequence(Hello(Finish(VeServer(picked)))) /\ ASequence(D("close") & Nil)
        <5>1. picked \in VeNCryptTypes
          BY <1>3 DEF VeHeard
        <5>2. Opening(VeNCryptHandler(picked) ++ Z, VeServer(picked))
          BY <5>1, VeOpens
        <5>3. ASequence(VeServer(picked))
          BY <5>2, OpeningFacts
        <5> QED BY <5>3, ConsSequence, NilSequence DEF Hello, Finish
      <4>2. b = S("veAccepted", 1) \/ b = S("veAccepted", 0)
        BY <3>1, <4>1, ConsEqual DEF Accepts
      <4> QED BY <4>2, Kinds
    <3> QED BY <1>3, <2>2, <2>4, <3>1, <3>2 DEF VeHeard, VeListing
  <2> QED BY <2>1, <2>3, <2>4, VeTypesReads
<1> QED BY <1>1, <1>2, <1>3 DEF VeListing

(* The end of the list of VeNCrypt types. *)
LEMMA VeListingDone ==
  ASSUME NEW p, AllOp(p, "write"), NEW a, a.op \notin {"read", "write"}, NEW t, ASequence(t),
         NEW s, VeListing(p ++ (a & t), s)
  PROVE  /\ a = L("veSwitch") /\ t = Z /\ VeChoosing
         /\ \/ p = Nil /\ picked = NoType
            \/ /\ p = W("veChoice", picked) & Nil /\ s = G("veChoice") & Nil
               /\ picked \in VeNCryptTypes /\ taken = OnlyVe
            \/ /\ p = Nil /\ picked \in VeNCryptTypes /\ taken = Two("VeNCrypt", picked)
               /\ Accepts(picked, s)
<1>1. CASE VeUnpicked(p ++ (a & t), s)
  <2>1. p = Nil /\ a = L("veSwitch") /\ t = Z
    BY <1>1, VeTypesDone DEF VeUnpicked
  <2> QED BY <1>1, <2>1 DEF VeUnpicked, VeListing
<1>2. CASE VePicked(p ++ (a & t), s)
  <2> DEFINE w == W("veChoice", picked)
  <2>1. PICK c1 : p ++ (a & t) = w & c1 /\ VeTypes(G("veChoice") & Nil, c1, s)
    BY <1>2 DEF VePicked
  <2>2. ASequence(c1) /\ ASequence(a & t)
    BY <2>1, VeTypesFacts, ConsSequence
  <2>3. a # w
    BY Kinds
  <2>4. PICK p1 : AllOp(p1, "write") /\ p = w & p1 /\ c1 = p1 ++ (a & t)
    <3>1. ~(p = Nil /\ a & t = w & c1)
      BY <2>2, <2>3, ConsEqual
    <3> QED BY <2>1, <2>2, <3>1, Peel
  <2>5. p1 = Nil /\ a = L("veSwitch") /\ t = Z /\ s = G("veChoice") & Nil
    <3>1. VeTypes(G("veChoice") & Nil, p1 ++ (a & t), s)
      BY <2>1, <2>4
    <3> QED BY <3>1, <2>4, VeTypesDone
  <2> QED BY <1>2, <2>4, <2>5 DEF VeListing, VePicked
<1>3. CASE VeHeard(p ++ (a & t), s)
  <2>1. PICK B : VeTypes(B, p ++ (a & t), s) /\ Accepts(picked, B)
    BY <1>3 DEF VeHeard
  <2>2. p = Nil /\ a = L("veSwitch") /\ t = Z /\ s = B
    BY <2>1, VeTypesDone
  <2> QED BY <1>3, <2>1, <2>2 DEF VeListing, VeHeard
<1> QED BY <1>1, <1>2, <1>3 DEF VeListing

(* The server gets the answer.                                              *)
LEMMA VeListingGets ==
  ASSUME NEW w, w.op = "write", NEW c, ASequence(c),
         NEW r, AllOp(r, "send"), NEW g, g.op = "get", NEW s, ASequence(s),
         VeListing(w & c, r ++ (g & s))
  PROVE  /\ w = W("veChoice", picked) /\ g = G("veChoice") /\ s = Nil /\ VeChoosing
         /\ picked \in VeNCryptTypes /\ taken = OnlyVe
         /\ \A d : ASequence(d) => VeTypes(d, c, r ++ d)
<1>1. VePicked(w & c, r ++ (g & s)) /\ VeChoosing
  BY VeTypesWrites DEF VeListing, VeUnpicked, VeHeard
<1>2. PICK c1 : w & c = W("veChoice", picked) & c1 /\ VeTypes(G("veChoice") & Nil, c1, r ++ (g & s))
  BY <1>1 DEF VePicked
<1>3. w = W("veChoice", picked) /\ c1 = c
  BY <1>2, VeTypesFacts, ConsEqual
<1>4. PICK r2 : /\ AllOp(r2, "send") /\ G("veChoice") & Nil = r2 ++ (g & s)
                /\ \A d2 : ASequence(d2) => VeTypes(r2 ++ d2, c, r ++ d2)
  <2>1. g.op # "send" /\ VeTypes(G("veChoice") & Nil, c, r ++ (g & s))
    BY <1>2, <1>3
  <2> QED BY <2>1, VeTypesOther
<1>5. r2 = Nil /\ g = G("veChoice") /\ s = Nil
  BY <1>4, Heads, Kinds, NilSequence
<1> QED BY <1>1, <1>3, <1>4, <1>5, JoinNil DEF VePicked

(* Once VeNCrypt's list is out, its server decides nothing but to leave, or *)
(* what comes after TLS.                                                    *)
LEMMA VeListingDecides ==
  ASSUME NEW c, NEW r, AllOp(r, "send"), NEW x, x.op \notin {"send", "get"},
         NEW d, ASequence(d), VeListing(c, r ++ (x & d))
  PROVE  x = D("close")
<1>1. ASSUME NEW c1 PROVE ~VeTypes(G("veChoice") & Nil, c1, r ++ (x & d))
  <2>1. SUFFICES ASSUME VeTypes(G("veChoice") & Nil, c1, r ++ (x & d)) PROVE FALSE
    OBVIOUS
  <2>2. PICK r2 : AllOp(r2, "send") /\ G("veChoice") & Nil = r2 ++ (x & d)
    BY <2>1, VeTypesOther
  <2> QED BY <2>2, Heads, Kinds, NilSequence
<1>2. VeHeard(c, r ++ (x & d))
  BY <1>1 DEF VeListing, VeUnpicked, VePicked
<1>3. PICK B : VeTypes(B, c, r ++ (x & d)) /\ Accepts(picked, B)
  BY <1>2 DEF VeHeard
<1>4. PICK r2 : AllOp(r2, "send") /\ B = r2 ++ (x & d)
  <2>1. x.op # "send"
    OBVIOUS
  <2> QED BY <1>3, <2>1, VeTypesOther
<1>5. Decision(r2, x, d)
  BY <1>4 DEF Decision
<1>6. CASE B = S("veAccepted", 1) & Hello(Finish(VeServer(picked)))
  <2>1. ASequence(VeServer(picked))
    <3>1. picked \in VeNCryptTypes
      BY <1>2 DEF VeHeard
    <3> QED BY <3>1, VeOpens, OpeningFacts
  <2>2. ASequence(Finish(VeServer(picked))) /\ ASequence(Hello(Finish(VeServer(picked))))
    BY <2>1, ConsSequence DEF Hello, Finish
  <2>3. x.op # S("veAccepted", 1).op
    BY Kinds
  <2> DEFINE y == Hello(Finish(VeServer(picked)))
  <2>4. ASequence(y) /\ r2 ++ (x & d) = S("veAccepted", 1) & y
    BY <1>4, <1>6, <2>2
  <2> HIDE DEF y
  <2>5. PICK r1 : Decision(r1, x, d) /\ y = r1 ++ (x & d)
    BY <1>5, <2>3, <2>4, DecisionAfter
  <2>6. y = G("hello") & Finish(VeServer(picked))
    BY DEF y, Hello
  <2> QED BY <2>2, <2>5, <2>6, GetNotDecided
<1>7. CASE B = S("veAccepted", 0) & (D("close") & Nil)
  <2>1. ASequence(D("close") & Nil) /\ x.op # S("veAccepted", 0).op
    BY NilSequence, ConsSequence, Kinds
  <2> DEFINE y == D("close") & Nil
  <2>3. ASequence(y) /\ r2 ++ (x & d) = S("veAccepted", 0) & y
    BY <1>4, <1>7, <2>1
  <2> HIDE DEF y
  <2>4. \E r1 : Decision(r1, x, d) /\ y = r1 ++ (x & d)
    BY <1>5, <2>1, <2>3, DecisionAfter
  <2>2. PICK r1 : Decision(r1, x, d) /\ D("close") & Nil = r1 ++ (x & d)
    BY <2>4 DEF y
  <2> QED BY <2>2, DecisionNow, NilSequence, Kinds
<1> QED BY <1>3, <1>6, <1>7 DEF Accepts

-------------------------------------------------------------------------------
(* The whole conversation, when one of the two makes a step.                *)

(* The client has gone on with the type that the server does not know of yet. *)
Inner(p, s, s1) ==
  /\ scheme # NoType /\ Calm
  /\ IF sub = NoType THEN Fresh /\ taken = Nil ELSE SubAuth /\ taken = OnlyTLS
  /\ s1 = ServerHandler(Type)
  /\ \/ p = W("choice", Type) & Nil /\ s = G("choice") & Nil
     \/ p = Nil /\ s = Chosen(Type) & Nil /\ Type \in Words /\ sub = NoType

LEMMA GreetingNext ==
  ASSUME NEW p, AllOp(p, "write"), NEW a, a.op \notin {"read", "write"}, NEW t, ASequence(t), NEW s
  PROVE  ~Greeting(p ++ (a & t), s)
<1> DEFINE c == p ++ (a & t)
<1>0. ASequence(Z) /\ (\A w : ASequence(R(w) & Z)) /\ (\A w : R(w).op = "read")
  BY ZFacts, ConsSequence, Kinds
<1>1. c # R("version") & Z
  BY <1>0, NextIs
<1>2. ASSUME NEW w, NEW v, c = W("version", v) & (R(w) & Z) PROVE FALSE
  <2>1. \/ p = Nil /\ a & t = W("version", v) & (R(w) & Z)
        \/ \E p1 : AllOp(p1, "write") /\ R(w) & Z = p1 ++ (a & t)
    BY <1>0, <1>2, ConsSequence, Peel
  <2>2. CASE p = Nil /\ a & t = W("version", v) & (R(w) & Z)
    BY <1>0, <2>2, ConsEqual, Kinds
  <2>3. CASE \E p1 : AllOp(p1, "write") /\ R(w) & Z = p1 ++ (a & t)
    BY <1>0, <2>3, NextIs
  <2> QED BY <2>1, <2>2, <2>3
<1> HIDE DEF c
<1> QED BY <1>1, <1>2 DEF Greeting, c

LEMMA EndsNext ==
  ASSUME NEW p, AllOp(p, "write"), NEW a, a.op \notin {"stop", "write"}, NEW t, ASequence(t)
  PROVE  ~Ends(p ++ (a & t))
<1> SUFFICES ASSUME NEW why, NEW q, ASequence(q), p ++ (a & t) = GiveUp(why) & q PROVE FALSE
  BY DEF Ends
<1>1. GiveUp(why).op = "stop"
  BY Kinds
<1> QED BY <1>1, NextIs

LEMMA PendingParts ==
  ASSUME NEW p, AllOp(p, "write"), NEW a, a.op # "write", NEW t, ASequence(t),
         NEW s, Pending(p ++ (a & t), s)
  PROVE  \E p1 : /\ AllOp(p1, "write") /\ Early(Both, p1 ++ (a & t), ServerHandler(Type))
                 /\ p1 = Nil => Inner(p, s, ServerHandler(Type))
<1> DEFINE s1 == ServerHandler(Type)
           c == p ++ (a & t)
<1>1. /\ scheme # NoType /\ Calm
      /\ IF sub = NoType THEN Fresh /\ taken = Nil ELSE SubAuth /\ taken = OnlyTLS
  BY DEF Pending
<1>2. CASE s = G("choice") & Nil /\ \E c1 : c = W("choice", Type) & c1 /\ Early(Both, c1, s1)
  <2>1. PICK c1 : c = W("choice", Type) & c1 /\ Early(Both, c1, s1)
    BY <1>2
  <2>2. ASequence(c1) /\ ASequence(a & t) /\ a # W("choice", Type)
    BY <2>1, EarlyFacts, ConsSequence, Kinds
  <2>3. PICK p1 : AllOp(p1, "write") /\ p = W("choice", Type) & p1 /\ c1 = p1 ++ (a & t)
    <3>1. ~(p = Nil /\ a & t = W("choice", Type) & c1)
      BY <2>2, ConsEqual
    <3>2. p ++ (a & t) = W("choice", Type) & c1
      BY <2>1
    <3> QED BY <2>2, <3>1, <3>2, Peel
  <2>4. p1 = Nil => Inner(p, s, s1)
    BY <1>1, <1>2, <2>3 DEF Inner
  <2> QED BY <2>1, <2>3, <2>4
<1>3. CASE /\ s = Chosen(Type) & Nil /\ Type \in Words /\ sub = NoType
           /\ Early(Both, c, s1)
  BY <1>1, <1>3 DEF Inner
<1> QED BY <1>2, <1>3 DEF Pending

(* What the client has read, for what it reads next.                        *)
LEMMA TalkingReads ==
  ASSUME NEW p, AllOp(p, "write"), NEW w, NEW t, ASequence(t),
         NEW b, b.op = "send", NEW s, ASequence(s), Talking(p ++ (R(w) & t), b & s)
  PROVE  /\ b.what = w
         /\ \/ /\ w = "version" /\ p = Nil /\ t = Z /\ s = G("version") & Nil
               /\ \E v \in Versions : b = S("version", v)
               /\ Fresh /\ scheme = NoType /\ sub = NoType /\ taken = Nil
            \/ /\ w = "word" /\ p = Nil /\ t = Z /\ Agreed /\ scheme = NoType /\ ~Listed(version)
               /\ \E v \in Words : b = S("word", v) /\ WordServed(v, s)
            \/ w = "type" /\ Agreed /\ Listing(p ++ (R(w) & t), b & s)
            \/ w \in {"veType", "veAccepted"} /\ Agreed /\ VeListing(p ++ (R(w) & t), b & s)
            \/ /\ w \notin {"version", "word", "type", "veType", "veAccepted"}
               /\ Agreed /\ p = Nil /\ taken = Both /\ Talk(Both, R(w) & t, b & s)
<1> DEFINE c == p ++ (R(w) & t)
<1>0. /\ \A u : R(u).op = "read" /\ R(u).what = u
      /\ ASequence(Z) /\ ASequence(R(w) & t) /\ ASequence(Nil)
  BY Kinds, ZFacts, ConsSequence, NilSequence
<1>1. ~Ends(c)
  BY <1>0, EndsNext
<1>2. CASE Greeting(c, b & s)
  <2>1. b & s # G("version") & Nil
    BY <1>0, ConsEqual, Kinds
  <2>2. PICK v \in Versions : b & s = S("version", v) & (G("version") & Nil)
    BY <1>2, <2>1 DEF Greeting
  <2>3. c = R("version") & Z
    BY <1>2, <2>1 DEF Greeting
  <2>4. b = S("version", v) /\ s = G("version") & Nil
    BY <1>0, <2>2, ConsSequence, ConsEqual
  <2>5. p = Nil /\ R(w) = R("version") /\ t = Z
    BY <1>0, <2>3, NextIs
  <2>6. w = "version" /\ b.what = "version"
    BY <1>0, <2>4, <2>5, Kinds
  <2> QED BY <1>2, <2>4, <2>5, <2>6 DEF Greeting
<1>3. CASE Agreed /\ WordTalk(c, b & s)
  <2>1. c # L("switch") & Z
    BY <1>0, NextIs, Kinds
  <2>2. c = R("word") & Z /\ scheme = NoType /\ ~Listed(version)
    BY <1>3, <2>1 DEF WordTalk
  <2>3. PICK v \in Words : \E s1 : b & s = S("word", v) & s1 /\ WordServed(v, s1)
    BY <1>3, <2>1 DEF WordTalk
  <2>4. PICK s1 : b & s = S("word", v) & s1 /\ WordServed(v, s1)
    BY <2>3
  <2>5. ASequence(s1)
    BY <1>0, <2>4, TalkFacts, ConsSequence DEF WordServed
  <2>6. b = S("word", v) /\ s = s1
    BY <2>4, <2>5, ConsEqual
  <2>7. p = Nil /\ R(w) = R("word") /\ t = Z
    BY <1>0, <2>2, NextIs
  <2>8. w = "word" /\ b.what = "word"
    BY <1>0, <2>6, <2>7, Kinds
  <2> QED BY <1>3, <2>2, <2>4, <2>6, <2>7, <2>8
<1>4. CASE Agreed /\ Listing(c, b & s)
  <2>1. w = "type" /\ b.what = "type"
    BY <1>4, ListingReads
  <2> QED BY <1>4, <2>1
<1>5. CASE Agreed /\ VeListing(c, b & s)
  <2>1. w \in {"veType", "veAccepted"} /\ b.what = w
    BY <1>5, VeListingReads
  <2> QED BY <1>5, <2>1
<1>6. CASE Agreed /\ Pending(c, b & s)
  <2>1. b & s # G("choice") & Nil /\ b & s # Chosen(Type) & Nil
    BY <1>0, ConsEqual, Kinds
  <2> QED BY <1>6, <2>1 DEF Pending
<1>7. CASE Agreed /\ Straight(c, b & s)
  <2>1. p = Nil /\ b.what = w /\ w \notin {"version", "word", "type", "veType", "veAccepted"}
    <3>1. Talk(Both, p ++ (R(w) & t), b & s)
      BY <1>7 DEF Straight
    <3>2. p = Nil /\ b.what = w /\ w \in (Data \cup Lengths) \cup {"result", "veVersion", "veStatus", "veCount", "count", "saslData", "saslComplete", "saslResult"}
      BY <3>1, TalkReads
    <3> QED BY <3>2 DEF Data, Lengths
  <2>2. c = R(w) & t
    BY <1>0, <2>1, JoinNil
  <2> QED BY <1>7, <2>1, <2>2 DEF Straight
<1> QED BY <1>1, <1>2, <1>3, <1>4, <1>5, <1>6, <1>7 DEF Talking

(* What the client does by itself. *)
LEMMA TalkingLocals ==
  ASSUME NEW p, AllOp(p, "write"), NEW w, NEW t, ASequence(t), NEW s,
         Talking(p ++ (L(w) & t), s)
  PROVE  /\ Agreed
         /\ \/ w = "switch" /\ p = Nil /\ t = Z /\ scheme = NoType /\ ~Listed(version)
               /\ picked \in Words /\ WordServed(picked, s)
            \/ w = "switch" /\ Listing(p ++ (L(w) & t), s)
            \/ w = "veSwitch" /\ VeListing(p ++ (L(w) & t), s)
            \/ /\ w \notin {"switch", "veSwitch"} /\ p = Nil /\ taken = Both
               /\ Talk(Both, L(w) & t, s)
            \/ /\ w \notin {"switch", "veSwitch"} /\ Inner(p, s, ServerHandler(Type))
               /\ Early(Both, L(w) & t, ServerHandler(Type))
<1> DEFINE c == p ++ (L(w) & t)
<1>0. /\ \A u : L(u).op = "local" /\ L(u).what = u
      /\ ASequence(Z) /\ ASequence(L(w) & t) /\ ASequence(Nil)
  BY Kinds, ZFacts, ConsSequence, NilSequence
<1>1. ~Ends(c) /\ ~Greeting(c, s)
  BY <1>0, EndsNext, GreetingNext
<1>3. CASE Agreed /\ WordTalk(c, s)
  <2>1. c # R("word") & Z
    BY <1>0, NextIs, Kinds
  <2>2. c = L("switch") & Z /\ scheme = NoType /\ ~Listed(version) /\ picked \in Words /\ WordServed(picked, s)
    BY <1>3, <2>1 DEF WordTalk
  <2>3. p = Nil /\ L(w) = L("switch") /\ t = Z
    BY <1>0, <2>2, NextIs
  <2>4. w = "switch"
    BY <1>0, <2>3
  <2> QED BY <1>3, <2>2, <2>3, <2>4
<1>4. CASE Agreed /\ Listing(c, s)
  <2>1. L(w) = L("switch")
    BY <1>0, <1>4, ListingDone
  <2>2. w = "switch"
    BY <1>0, <2>1
  <2> QED BY <1>4, <2>2
<1>5. CASE Agreed /\ VeListing(c, s)
  <2>1. L(w) = L("veSwitch")
    BY <1>0, <1>5, VeListingDone
  <2>2. w = "veSwitch"
    BY <1>0, <2>1
  <2> QED BY <1>5, <2>2
<1>6. CASE Agreed /\ Pending(c, s)
  <2>1. PICK p1 : /\ AllOp(p1, "write") /\ Early(Both, p1 ++ (L(w) & t), ServerHandler(Type))
                  /\ p1 = Nil => Inner(p, s, ServerHandler(Type))
    BY <1>0, <1>6, PendingParts
  <2>2. p1 = Nil /\ w \in Locals \cup {"plainCredential", "saslStart", "tls"}
    BY <2>1, EarlyLocals
  <2>3. w \notin {"switch", "veSwitch"}
    BY <2>2 DEF Locals
  <2>4. p1 ++ (L(w) & t) = L(w) & t
    BY <1>0, <2>2, JoinNil
  <2> QED BY <1>6, <2>1, <2>2, <2>3, <2>4
<1>7. CASE Agreed /\ Straight(c, s)
  <2>1. p = Nil /\ w \in Locals \cup {"plainCredential", "saslStart", "tls", "saslStep", "saslStrength"}
    <3>1. Talk(Both, p ++ (L(w) & t), s)
      BY <1>7 DEF Straight
    <3> QED BY <3>1, TalkLocals
  <2>2. w \notin {"switch", "veSwitch"}
    BY <2>1 DEF Locals
  <2>3. c = L(w) & t
    BY <1>0, <2>1, JoinNil
  <2> QED BY <1>7, <2>1, <2>2, <2>3 DEF Straight
<1> QED BY <1>1, <1>3, <1>4, <1>5, <1>6, <1>7 DEF Talking

(* The handshake of TLS. *)
LEMMA TalkingTls ==
  ASSUME NEW p, AllOp(p, "write"), NEW t, ASequence(t),
         NEW b, b.op = "send", NEW s, ASequence(s), Talking(p ++ (F & t), b & s)
  PROVE  /\ Agreed /\ taken = Both /\ p = Nil /\ b = S("finished", 0)
         /\ Talk(Both, F & t, b & s)
<1> DEFINE c == p ++ (F & t)
<1>0. F.op \notin {"read", "write", "stop"} /\ ASequence(Z) /\ ASequence(Nil) /\ ASequence(F & t)
  BY Lasts, ZFacts, NilSequence, ConsSequence
<1>1. ~Ends(c) /\ ~Greeting(c, b & s)
  BY <1>0, EndsNext, GreetingNext
<1>2. ~WordTalk(c, b & s)
  <2>1. c # R("word") & Z /\ c # L("switch") & Z
    BY <1>0, NextIs, Kinds, Lasts
  <2> QED BY <2>1 DEF WordTalk
<1>3. F # L("switch") /\ F # L("veSwitch")
  BY Lasts, Kinds
<1>4. ~Listing(c, b & s)
  BY <1>0, <1>3, ListingDone
<1>5. ~VeListing(c, b & s)
  BY <1>0, <1>3, VeListingDone
<1>6. ~Pending(c, b & s)
  <2>1. b & s # G("choice") & Nil /\ b & s # Chosen(Type) & Nil
    BY <1>0, ConsEqual, Kinds
  <2> QED BY <2>1 DEF Pending
<1>7. Agreed /\ taken = Both /\ Talk(Both, c, b & s)
  BY <1>1, <1>2, <1>4, <1>5, <1>6 DEF Talking, Straight
<1>8. p = Nil /\ b = S("finished", 0)
  BY <1>7, TalkTls
<1>9. c = F & t
  BY <1>0, <1>8, JoinNil
<1> QED BY <1>7, <1>8, <1>9

(* What the server gets. *)
LEMMA TalkingGets ==
  ASSUME NEW w, w.op = "write", NEW c, ASequence(c),
         NEW r, AllOp(r, "send"), NEW g, g.op = "get", NEW s, ASequence(s),
         Talking(w & c, r ++ (g & s))
  PROVE  /\ g.what = w.what /\ serverLayer = layer
         /\ \/ /\ w = W("version", version) /\ r = Nil /\ s = Nil
               /\ c = R(IF Listed(version) THEN "count" ELSE "word") & Z
               /\ Fresh /\ scheme = NoType /\ sub = NoType /\ taken = Nil
               /\ \E v \in Versions : v # Nil /\ version = ClientVersion(v)
            \/ /\ w = W("choice", picked) /\ Agreed /\ s = Nil /\ Choosing
               /\ Selectable(picked, SubAuth) /\ Quiet /\ taken = Before
               /\ \A d : ASequence(d) => Types(d, c, r ++ d)
            \/ /\ w = W("veChoice", picked) /\ Agreed /\ s = Nil /\ VeChoosing
               /\ picked \in VeNCryptTypes /\ taken = OnlyVe
               /\ \A d : ASequence(d) => VeTypes(d, c, r ++ d)
            \/ /\ w = W("choice", Type) /\ Agreed /\ r = Nil /\ s = Nil
               /\ Inner(w & Nil, g & Nil, ServerHandler(Type)) /\ Early(Both, c, ServerHandler(Type))
            \/ /\ w.what \notin {"version", "choice", "veChoice"} /\ Agreed /\ r = Nil
               /\ taken = Both /\ g = G(w.what) /\ Talk(Both, w & c, g & s)
<1>0. ASequence(Z) /\ ASequence(Nil) /\ ASequence(w & c) /\ ASequence(g & s) /\ (\A u : ASequence(R(u) & Z))
  BY ZFacts, NilSequence, ConsSequence
<1>1. ~Ends(w & c)
  <2>1. ASSUME NEW why, NEW q, ASequence(q), w & c = GiveUp(why) & q PROVE FALSE
    BY <2>1, ConsEqual, Kinds
  <2> QED BY <2>1 DEF Ends
<1>2. CASE Greeting(w & c, r ++ (g & s))
  <2>1. w & c # R("version") & Z
    BY <1>0, ConsEqual, Kinds
  <2>2. /\ w & c = W("version", version) & (R(IF Listed(version) THEN "count" ELSE "word") & Z)
        /\ r ++ (g & s) = G("version") & Nil
    BY <1>2, <2>1 DEF Greeting
  <2>3. w = W("version", version) /\ c = R(IF Listed(version) THEN "count" ELSE "word") & Z
    BY <1>0, <2>2, ConsEqual
  <2>4. r = Nil /\ g = G("version") /\ s = Nil
    <3>1. g.op # "send"
      OBVIOUS
    <3> QED BY <1>0, <2>2, <3>1, Heads, Kinds
  <2>5. Fresh /\ scheme = NoType /\ sub = NoType /\ taken = Nil
        /\ \E v \in Versions : v # Nil /\ version = ClientVersion(v)
    BY <1>2, <2>1 DEF Greeting
  <2>6. g.what = "version" /\ w.what = "version"
    BY <2>3, <2>4, Kinds
  <2>7. serverLayer = layer
    BY <2>5 DEF Fresh, layer
  <2> QED BY <2>3, <2>4, <2>5, <2>6, <2>7
<1>3. ~WordTalk(w & c, r ++ (g & s))
  <2>1. w & c # R("word") & Z /\ w & c # L("switch") & Z
    BY <1>0, ConsEqual, Kinds
  <2> QED BY <2>1 DEF WordTalk
<1>4. CASE Agreed /\ Listing(w & c, r ++ (g & s))
  <2>1. /\ w = W("choice", picked) /\ g = G("choice") /\ s = Nil /\ Choosing
        /\ Selectable(picked, SubAuth) /\ Quiet /\ taken = Before
        /\ \A d : ASequence(d) => Types(d, c, r ++ d)
    BY <1>4, ListingGets
  <2>2. g.what = "choice" /\ w.what = "choice"
    BY <2>1, Kinds
  <2> QED BY <1>4, <2>1, <2>2 DEF Quiet, Calm
<1>5. CASE Agreed /\ VeListing(w & c, r ++ (g & s))
  <2>1. /\ w = W("veChoice", picked) /\ g = G("veChoice") /\ s = Nil /\ VeChoosing
        /\ picked \in VeNCryptTypes /\ taken = OnlyVe
        /\ \A d : ASequence(d) => VeTypes(d, c, r ++ d)
    BY <1>5, VeListingGets
  <2>2. g.what = "veChoice" /\ w.what = "veChoice"
    BY <2>1, Kinds
  <2>3. serverLayer = layer
    BY <2>1 DEF VeChoosing, Fresh, layer
  <2> QED BY <1>5, <2>1, <2>2, <2>3
<1>6. CASE Agreed /\ Pending(w & c, r ++ (g & s))
  <2>1. r ++ (g & s) # Chosen(Type) & Nil
    <3>1. SUFFICES ASSUME r ++ (g & s) = Chosen(Type) & Nil PROVE FALSE
      OBVIOUS
    <3>2. g = Chosen(Type) \/ Chosen(Type).op = "send"
      <4>1. g.op # "send"
        OBVIOUS
      <4> QED BY <1>0, <3>1, <4>1, Heads
    <3> QED BY <3>2, Kinds
  <2>2. PICK c1 : w & c = W("choice", Type) & c1 /\ Early(Both, c1, ServerHandler(Type))
    BY <1>6, <2>1 DEF Pending
  <2>3. w = W("choice", Type) /\ c = c1
    BY <2>2, EarlyFacts, ConsEqual
  <2>4. r = Nil /\ g = G("choice") /\ s = Nil
    <3>1. g.op # "send" /\ r ++ (g & s) = G("choice") & Nil
      BY <1>6, <2>1 DEF Pending
    <3> QED BY <1>0, <3>1, Heads, Kinds
  <2>5. g.what = "choice" /\ w.what = "choice"
    BY <2>3, <2>4, Kinds
  <2>6. serverLayer = layer /\ Inner(w & Nil, g & Nil, ServerHandler(Type))
    BY <1>6, <2>3, <2>4 DEF Pending, Inner, Calm
  <2> QED BY <1>6, <2>2, <2>3, <2>4, <2>5, <2>6
<1>7. CASE Agreed /\ Straight(w & c, r ++ (g & s))
  <2>1. Talk(Both, w & c, r ++ (g & s))
    BY <1>7 DEF Straight
  <2>2. r = Nil /\ g = G(w.what) /\ serverLayer = layer
    BY <2>1, TalkGets
  <2>3. w.what \in Plainly \cup {"lengths", "mechanism", "saslData"}
    <3>1. W("mechanism", mech).what = "mechanism"
      BY Kinds
    <3> QED BY <2>1, <3>1, TalkGets
  <2>4. r ++ (g & s) = g & s /\ g.what = w.what
    BY <1>0, <2>2, JoinNil, Kinds
  <2>5. w.what \notin {"version", "choice", "veChoice"}
    BY <2>3 DEF Plainly
  <2> QED BY <1>7, <2>1, <2>2, <2>4, <2>5 DEF Straight
<1> QED BY <1>1, <1>2, <1>3, <1>4, <1>5, <1>6, <1>7 DEF Talking
===============================================================================
