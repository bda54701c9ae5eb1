------------------------------- MODULE Handshake -------------------------------
(***************************************************************************)
(* How a session begins, on the client's side: InitialiseRFBConnection with *)
(* every authentication it knows, and vnc_client_init around it.            *)
(*                                                                         *)
(* A message is an item [what, val, layer]: which message of the protocol   *)
(* it is, the part of its content that something depends on, and the layer  *)
(* ("plain", "tls" or "sasl") it was put on the wire with.                  *)
(***************************************************************************)
EXTENDS AuthScripts

CONSTANTS
  MaxSasl,  \* bound: messages a SASL mechanism exchanges
  HaveSASL  \* is the client built with SASL? (with TLS it is)

ASSUME HandshakeAssumption == MaxSasl \in Nat \ {0} /\ HaveSASL \in BOOLEAN

VARIABLES
  command,   \* was --auth-command given?
  todo,      \* the client's steps, up to the next decision
  outcome,   \* "going", "ready", or why it ended
  version,   \* client->major, client->minor
  scheme,    \* client->authScheme
  sub,       \* client->subAuthScheme
  picked,    \* authScheme of the list being read
  tls,       \* is client->tlsSession set, and the handshake done?
  saslconn,  \* is client->saslconn set?
  mech,      \* messages the chosen SASL mechanism exchanges, the client's first
  sasl,      \* sasl_client_step: calls, last message given to it, its answer
  serverin,  \* HandleSASLAuth: the server's last message, 0 if it had no data
  complete,  \* HandleSASLAuth: did the server say it is done?
  inbox,     \* client->buf
  toClient, toServer,  \* the two directions of the connection
  closed,    \* is the connection closed or lost?
  steps,     \* the server's steps
  reply,     \* version the client asked it for
  taken,     \* security types the client asked it for, on either list
  serverLayer, \* layer it reads and writes with
  exchanges, \* SASL: messages of the mechanism, messages it has got
  verdict    \* "open", "ok" or "refused"

choice == <<version, scheme, sub, picked>>
saslState == <<mech, sasl, serverin, complete>>
wire == <<inbox, toClient, toServer>>
client == <<todo, outcome, choice, tls, saslconn, saslState>>
server == <<steps, reply, taken, serverLayer, exchanges, verdict>>
vars == <<command, client, wire, closed, server>>

NoType == "none chosen"

layer == IF tls THEN "tls" ELSE IF saslconn THEN "sasl" ELSE "plain"

-------------------------------------------------------------------------------
(* Reading and writing. *)

At(op, what) == outcome = "going" /\ todo # <<>> /\ todo[1].op = op /\ todo[1].what = what
Doing(op) == outcome = "going" /\ todo # <<>> /\ todo[1].op = op

(* ReadToBuffer, when the buffer is empty: some prefix of what has arrived, *)
(* undone by the layer that is on now.                                      *)
Fill ==
  /\ Doing("read") /\ inbox = <<>>
  /\ \E n \in 1..Len(toClient) :
       /\ inbox' = [i \in 1..n |-> IF toClient[i].layer = layer
                                    THEN toClient[i]
                                    ELSE [toClient[i] EXCEPT !.what = "garbage"]]
       /\ toClient' = SubSeq(toClient, n + 1, Len(toClient))
  /\ UNCHANGED <<command, client, toServer, closed, server>>

(* The message at the front of the buffer is read; `then' are the steps     *)
(* that take the place of the read.                                         *)
Take(what) ==
  /\ At("read", what) /\ inbox # <<>>
  /\ inbox[1].what = what
  /\ inbox' = Tail(inbox)
  /\ UNCHANGED <<command, toClient, toServer, closed, server>>
Front == inbox[1].val

Continue(then) == todo' = then \o Tail(todo) /\ UNCHANGED outcome
Fail(why) == outcome' = why /\ todo' = <<>>

(* WriteToRFBServer. Nobody reads what is written after the connection is   *)
(* lost; the write may fail then.                                           *)
Put(what, val) ==
  toServer' = IF closed THEN toServer
              ELSE Append(toServer, [what |-> what, val |-> val, layer |-> layer])

ReadFails ==
  /\ Doing("read") /\ inbox = <<>> /\ toClient = <<>> /\ closed
  /\ Fail("lost")
  /\ UNCHANGED <<command, choice, tls, saslconn, saslState, wire, closed, server>>

Write ==
  /\ Doing("write")
  /\ Continue(<<>>)
  /\ Put(todo[1].what, todo[1].val)
  /\ UNCHANGED <<command, choice, tls, saslconn, saslState, inbox, toClient, closed, server>>

(* What becomes of the incremental requests is ignored. *)
WriteFails ==
  /\ Doing("write") /\ closed
  /\ todo[1].what # "incrementalRequest"
  /\ Fail("lost")
  /\ UNCHANGED <<command, choice, tls, saslconn, saslState, wire, closed, server>>

(* Reads that decide nothing, and lengths, which may be over their limit.   *)
Data == {"reason", "challenge", "gen", "mod", "resp", "keyLength", "mechlist", "name"}
Lengths == {"reasonLength", "mechlistLength", "serverInit"}
ReadData ==
  \E what \in Data \cup Lengths :
    /\ Take(what)
    /\ IF what \in Lengths /\ Front = "long"
         THEN Fail(IF what = "reasonLength" THEN "refused" ELSE "long")
         ELSE Continue(<<>>)
    /\ UNCHANGED <<choice, tls, saslconn, saslState>>

Stop ==
  /\ Doing("stop")
  /\ Fail(todo[1].what)
  /\ UNCHANGED <<command, choice, tls, saslconn, saslState, wire, closed, server>>
-------------------------------------------------------------------------------
(* InitialiseRFBConnection: the version. *)

ClientVersion(v) ==
  IF v[1] = 3 /\ v[2] \in {14, 16} THEN <<3, v[2] - 10>>
  ELSE IF v[1] > 3 \/ (v[1] = 3 /\ v[2] > 8) THEN <<3, 8>>
  ELSE v

Listed(v) == v[1] = 3 /\ v[2] > 6
(* Fault: 3.7 is taken for a version that explains itself. *)
ExplainsEarly(v) == (v[1] = 3 /\ v[2] > 6) \/ v[1] > 3

Explains(v) == (v[1] = 3 /\ v[2] > 7) \/ v[1] > 3
(* A server that sends no version, <<>>, is none. *)
ReadVersion ==
  /\ Take("version")
  /\ IF Front = <<>> THEN Fail("unknown") /\ UNCHANGED version
     ELSE /\ version' = ClientVersion(Front)
          /\ Continue(<<W("version", version'),
                        R(IF Listed(version') THEN "count" ELSE "word")>>)
  /\ UNCHANGED <<scheme, sub, picked, tls, saslconn, saslState>>

(* Version 3.3 and its kin: the server has chosen. *)
ReadWord ==
  /\ Take("word")
  /\ picked' = Front
  /\ Continue(<<L("switch")>>)
  /\ UNCHANGED <<version, scheme, sub, tls, saslconn, saslState>>

-------------------------------------------------------------------------------
(* ReadSupportedSecurityType, which the list after TLS shares. *)

(* Fault: TLS can be chosen inside TLS. *)
SelectableAgain(type, subAuth) ==
  type \in {"VNC", "None", "ARD", "MSLogonII", "TLS", "VeNCrypt"}
    \cup (IF HaveSASL THEN {"SASL"} ELSE {})

Selectable(type, subAuth) ==
  type \in {"VNC", "None", "ARD", "MSLogonII"}
    \cup (IF HaveSASL THEN {"SASL"} ELSE {})
    \cup (IF subAuth THEN {} ELSE {"TLS", "VeNCrypt"})
SubAuth == scheme = "TLS"

ReadCount ==
  /\ Take("count")
  /\ picked' = NoType
  /\ IF Front = 0 THEN todo' = ReadReason /\ UNCHANGED outcome
     ELSE Continue(Repeat(Front, R("type")) \o <<L("switch")>>)
  /\ UNCHANGED <<version, scheme, sub, tls, saslconn, saslState>>

(* An entry.  The first that will do is answered at once, while the rest of *)
(* the list is read.                                                        *)
ReadType ==
  /\ At("read", "type") /\ inbox # <<>> /\ inbox[1].what = "type"
  /\ inbox' = Tail(inbox)
  /\ IF picked = NoType /\ Selectable(Front, SubAuth)
       THEN /\ picked' = Front
            /\ \/ Continue(<<>>) /\ Put("choice", Front)
               \/ closed /\ Fail("lost") /\ UNCHANGED toServer
       ELSE Continue(<<>>) /\ UNCHANGED <<picked, toServer>>
  /\ UNCHANGED <<command, version, scheme, sub, tls, saslconn, saslState, toClient,
                 closed, server>>

(* The switch on the security type, which a list that offered nothing to    *)
(* choose does not reach.                                                   *)
Handler(type) ==
  CASE type = "Invalid" -> ReadReason
    [] type = "None" -> IF Explains(version) THEN rfbHandleAuthResult ELSE <<>>
    [] type = "VNC" -> HandleVncAuth
    [] type = "SASL" /\ HaveSASL -> HandleSASLAuth
    [] type = "MSLogonII" -> HandleUltraMSLogonIIAuth
    [] type = "MSLogon" -> HandleMSLogonAuth
    [] type = "ARD" -> HandleARDAuth
    [] type = "TLS" -> HandleAnonTLSAuth \o <<R("count")>>
    [] type = "VeNCrypt" -> HandleVeNCryptAuth
    [] OTHER -> <<GiveUp("unknown")>>
(* ... and the one after TLS, which knows fewer of them. *)
SubHandler(type) ==
  IF type \in {"Invalid", "None", "VNC", "SASL"} THEN Handler(type)
  ELSE <<GiveUp("unknown")>>

Switch ==
  /\ At("local", "switch")
  /\ Continue(IF SubAuth THEN SubHandler(picked) ELSE Handler(picked))
  /\ IF SubAuth THEN sub' = picked /\ UNCHANGED scheme
     ELSE scheme' = picked /\ UNCHANGED sub
  /\ UNCHANGED <<command, version, picked, outcome, tls, saslconn, saslState, wire,
                 closed, server>>

(* rfbHandleAuthResult *)
AuthResult ==
  /\ Take("result")
  /\ CASE Front = "ok" -> Continue(<<>>)
       [] Front = "failed" /\ Explains(version) ->
            todo' = ReadReason /\ UNCHANGED outcome
       [] OTHER -> Fail("refused")
  /\ UNCHANGED <<choice, tls, saslconn, saslState>>

-------------------------------------------------------------------------------
(* What may fail without the server: libraries, memory, and the user, whom  *)
(* vncviewer.c asks in the terminal or through the command of               *)
(* --auth-command.                                                          *)

Local ==
  /\ \E what \in {"keys", "library", "certificate", "saslSetup", "framebuffer"} : At("local", what)
  /\ Continue(<<>>) \/ Fail("local")
  /\ UNCHANGED <<command, choice, tls, saslconn, saslState, wire, closed, server>>

(* ReadPassword. RunAuthCommand looks through the pointer to the user name  *)
(* that it is not given, if the compiler leaves that in.                    *)
GetPassword ==
  /\ At("local", "password")
  /\ \/ Continue(<<>>)
     \/ Fail("local")
     \/ command /\ Fail("crashed")
  /\ UNCHANGED <<command, choice, tls, saslconn, saslState, wire, closed, server>>

(* ReadUsernameAndPassword, whose result may hold no strings when a signal  *)
(* ended the command. These handlers copy the strings as they are.          *)
GetCredential ==
  /\ At("local", "credential")
  /\ \/ Continue(<<>>)
     \/ Fail("local")
     \/ command /\ Fail("crashed")
  /\ UNCHANGED <<command, choice, tls, saslconn, saslState, wire, closed, server>>

(* HandlePlainAuth takes a string that is missing for an empty one. *)
GetPlainCredential ==
  /\ At("local", "plainCredential")
  /\ \/ \E user, password \in 0..1 : Continue(PlainMessage(user, password))
     \/ Fail("local")
  /\ UNCHANGED <<command, choice, tls, saslconn, saslState, wire, closed, server>>

-------------------------------------------------------------------------------
(* TLS. gnutls reads and writes the socket itself, past client->buf.        *)

InitializeTLSSession ==
  /\ At("local", "tls")
  /\ \/ /\ todo' = <<[op |-> "tls", what |-> "finished"]>> \o Tail(todo)
        /\ Put("hello", 0)
        /\ UNCHANGED outcome
     \/ Fail("local") /\ UNCHANGED toServer
  /\ UNCHANGED <<command, choice, tls, saslconn, saslState, inbox, toClient, closed, server>>

HandshakeTLS ==
  /\ Doing("tls") /\ toClient # <<>> /\ toClient[1].what = "finished"
  /\ tls' = TRUE
  /\ toClient' = Tail(toClient)
  /\ Continue(<<>>)
  /\ UNCHANGED <<command, choice, saslconn, saslState, inbox, toServer, closed, server>>

(* A fatal error, or fifteen seconds are over: FreeTLS. *)
HandshakeTLSFails ==
  /\ Doing("tls")
  /\ Fail("local")
  /\ UNCHANGED <<command, choice, tls, saslconn, saslState, wire, closed, server>>

-------------------------------------------------------------------------------
(* HandleVeNCryptAuth and ReadVeNCryptSecurityType. *)

NoneTypes == {"TLSNone", "X509None"}
VNCTypes == {"TLSVNC", "X509VNC"}
PlainTypes == {"TLSPlain", "X509Plain"}
SASLTypes == IF HaveSASL THEN {"TLSSASL", "X509SASL"} ELSE {}
X509Types == {"X509None", "X509VNC", "X509Plain", "X509SASL"}
VeNCryptTypes == NoneTypes \cup VNCTypes \cup PlainTypes \cup SASLTypes

ReadVeNCryptVersion ==
  /\ Take("veVersion")
  /\ IF Front[1] # 0 /\ Front[2] # 2 THEN Fail("unknown") ELSE Continue(VeNCryptAgreed)
  /\ UNCHANGED <<choice, tls, saslconn, saslState>>

ReadVeNCryptStatus ==
  /\ Take("veStatus")
  /\ IF Front # 0 THEN Fail("refused") ELSE Continue(<<>>)
  /\ UNCHANGED <<choice, tls, saslconn, saslState>>

ReadVeNCryptCount ==
  /\ Take("veCount")
  /\ picked' = NoType
  /\ IF Front = 0 THEN Fail("refused")
     ELSE Continue(Repeat(Front, R("veType")) \o <<L("veSwitch")>>)
  /\ UNCHANGED <<version, scheme, sub, tls, saslconn, saslState>>

(* Fault: the first type that will do is answered, the last one is kept.    *)
ReadVeNCryptTypeLast ==
  /\ At("read", "veType") /\ inbox # <<>> /\ inbox[1].what = "veType"
  /\ inbox' = Tail(inbox)
  /\ IF Front \in VeNCryptTypes
       THEN /\ picked' = Front
            /\ Continue(<<>>)
            /\ IF picked = NoType THEN Put("veChoice", Front) ELSE UNCHANGED toServer
       ELSE Continue(<<>>) /\ UNCHANGED <<picked, toServer>>
  /\ UNCHANGED <<command, version, scheme, sub, tls, saslconn, saslState, toClient,
                 closed, server>>
ReadVeNCryptType ==
  /\ At("read", "veType") /\ inbox # <<>> /\ inbox[1].what = "veType"
  /\ inbox' = Tail(inbox)
  /\ IF picked = NoType /\ Front \in VeNCryptTypes
       THEN /\ picked' = Front
            /\ \/ Continue(<<>>) /\ Put("veChoice", Front)
               \/ closed /\ Fail("lost") /\ UNCHANGED toServer
       ELSE Continue(<<>>) /\ UNCHANGED <<picked, toServer>>
  /\ UNCHANGED <<command, version, scheme, sub, tls, saslconn, saslState, toClient,
                 closed, server>>

VeNCryptChosen ==
  /\ At("local", "veSwitch")
  /\ IF picked = NoType THEN Fail("unknown") ELSE Continue(<<R("veAccepted")>>)
  /\ UNCHANGED <<command, choice, tls, saslconn, saslState, wire, closed, server>>

(* The switch on client->subAuthScheme. *)
VeNCryptHandler(type) ==
  CASE type \in NoneTypes -> rfbHandleAuthResult
    [] type \in VNCTypes -> HandleVncAuth
    [] type \in PlainTypes -> HandlePlainAuth
    [] type \in SASLTypes -> HandleSASLAuth

(* The server takes the type: TLS, anonymous or with its certificate        *)
(* checked against ours, and then the type's own authentication.            *)
ReadVeNCryptAccepted ==
  /\ Take("veAccepted")
  /\ IF Front # 1 THEN Fail("refused") /\ UNCHANGED sub
     ELSE /\ sub' = picked
          /\ Continue((IF picked \in X509Types THEN <<L("certificate")>> ELSE <<>>)
                        \o <<L("tls")>> \o VeNCryptHandler(picked))
  /\ UNCHANGED <<version, scheme, picked, tls, saslconn, saslState>>

-------------------------------------------------------------------------------
(* HandleSASLAuth. A mechanism is a number of messages, of either side in   *)
(* turn, the client's first: the client's are the odd ones. What            *)
(* sasl_client_step answers follows from it.  The library may call back for *)
(* the password (ReadPassword), with the crash that GetPassword has.        *)

(* sasl_client_start: the first message. *)
SaslStart ==
  /\ At("local", "saslStart")
  /\ \/ /\ mech' \in 1..MaxSasl
        /\ sasl' = [calls |-> 0, given |-> 0, ok |-> FALSE]
        /\ serverin' = 0 /\ complete' = FALSE
        /\ Continue(<<W("mechanism", mech')>> \o SaslExchange(1))
     \/ Fail("local") /\ UNCHANGED saslState
     \/ command /\ Fail("crashed") /\ UNCHANGED saslState
  /\ UNCHANGED <<command, choice, tls, saslconn, wire, closed, server>>

ReadSaslData ==
  /\ Take("saslData")
  /\ IF Front = -1 THEN Fail("long") /\ UNCHANGED serverin
     ELSE serverin' = Front /\ Continue(<<>>)
  /\ UNCHANGED <<choice, tls, saslconn, mech, sasl, complete>>

(* Fault: our own library is not asked. *)
ServerDoneSays(said, ok) == said
(* The server's word is enough only after our own library has said so too.  *)
ServerDone(said, ok) == said /\ ok
ReadSaslComplete ==
  /\ Take("saslComplete")
  /\ complete' = Front
  /\ Continue(IF ServerDone(complete', sasl.ok) THEN SaslEnd ELSE <<L("saslStep")>>)
  /\ UNCHANGED <<choice, tls, saslconn, mech, sasl, serverin>>

(* sasl_client_step, and the client's next message if there is one.         *)
SaslStep ==
  /\ At("local", "saslStep")
  /\ \/ LET calls == sasl.calls + 1
            next == 2 * calls + 1
        IN /\ sasl' = [calls |-> calls,
                       given |-> IF serverin = 0 THEN sasl.given ELSE serverin,
                       ok |-> next >= mech]
           /\ serverin' = 0
           /\ Continue(IF complete /\ sasl'.ok THEN SaslEnd
                       ELSE SaslExchange(IF next <= mech THEN next ELSE 0))
     \/ Fail("local") /\ UNCHANGED <<sasl, serverin>>
     \/ command /\ Fail("crashed") /\ UNCHANGED <<sasl, serverin>>
  /\ UNCHANGED <<command, choice, tls, saslconn, mech, complete, wire, closed, server>>

(* Without TLS the mechanism's own layer has to be strong enough. *)
SaslStrength ==
  /\ At("local", "saslStrength")
  /\ Continue(<<>>) \/ (~tls /\ Fail("weak"))
  /\ UNCHANGED <<command, choice, tls, saslconn, saslState, wire, closed, server>>

ReadSaslResult ==
  /\ Take("saslResult")
  /\ IF Front = "ok" THEN saslconn' = TRUE /\ Continue(<<>>)
     ELSE Fail("refused") /\ UNCHANGED saslconn
  /\ UNCHANGED <<choice, tls, saslState>>

-------------------------------------------------------------------------------
SetUpDone ==
  /\ At("ready", "ready")
  /\ outcome' = "ready" /\ todo' = <<>>
  /\ UNCHANGED <<command, choice, tls, saslconn, saslState, wire, closed, server>>

ClientNext ==
  \/ Fill \/ ReadFails \/ Write \/ WriteFails \/ ReadData \/ Stop
  \/ ReadVersion \/ ReadWord \/ ReadCount \/ ReadType \/ Switch \/ AuthResult
  \/ Local \/ GetPassword \/ GetCredential \/ GetPlainCredential
  \/ InitializeTLSSession \/ HandshakeTLS \/ HandshakeTLSFails
  \/ ReadVeNCryptVersion \/ ReadVeNCryptStatus \/ ReadVeNCryptCount
  \/ ReadVeNCryptType \/ VeNCryptChosen \/ ReadVeNCryptAccepted
  \/ SaslStart \/ ReadSaslData \/ ReadSaslComplete \/ SaslStep
  \/ SaslStrength \/ ReadSaslResult \/ SetUpDone
===============================================================================
