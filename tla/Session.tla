-------------------------------- MODULE Session --------------------------------
(***************************************************************************)
(* The client of Handshake and a server that follows the protocol but       *)
(* offers, accepts and refuses what it likes, over a connection that may be *)
(* lost at any moment.                                                      *)
(***************************************************************************)
EXTENDS Handshake

CONSTANTS
  Versions,      \* versions <<major, minor>> servers announce
  Words,         \* security types servers of version 3.3 announce
  Lists,         \* lists of security types newer servers offer
  SubLists,      \* lists they offer once TLS is up
  VeNCryptLists  \* lists of VeNCrypt types they offer

ASSUME SessionAssumption ==
  /\ Versions \subseteq {<<>>} \cup (Nat \X Nat)
  /\ Lists \cup SubLists \cup VeNCryptLists \subseteq Seq(STRING)

-------------------------------------------------------------------------------
(* The server. *)

ServerAt(op, what) == ~closed /\ steps # <<>> /\ steps[1].op = op /\ steps[1].what = what
Then(next) == steps' = next \o Tail(steps)
Instead(next) == steps' = next

ServerGet(what) ==
  /\ ServerAt("get", what) /\ toServer # <<>>
  /\ toServer[1].what = what /\ toServer[1].layer = serverLayer
  /\ toServer' = Tail(toServer)
  /\ UNCHANGED <<command, client, inbox, toClient, closed>>
Got == toServer[1].val

ServerSend ==
  /\ ~closed /\ steps # <<>> /\ steps[1].op = "send"
  /\ toClient' = Append(toClient,
       [what |-> steps[1].what, val |-> steps[1].val, layer |-> serverLayer])
  /\ Then(<<>>)
  /\ UNCHANGED <<command, client, inbox, toServer, closed,
                 reply, taken, serverLayer, exchanges, verdict>>

Plainly == {"response", "pub", "user", "password", "ciphertext", "veVersion",
            "clientInit", "setPixelFormat", "setEncodings", "updateRequest",
            "incrementalRequest", "hello"}
ServerData ==
  \E what \in Plainly :
    /\ ServerGet(what)
    /\ Then(<<>>)
    /\ UNCHANGED <<reply, taken, serverLayer, exchanges, verdict>>

Sizes == {"fits", "long"}
(* RFB: any version but 3.7 and 3.8 is spoken as 3.3. *)
Minor == IF reply \in {<<3, 7>>, <<3, 8>>} THEN reply[2] ELSE 3

ServerHandler(type) ==
  CASE type = "Invalid" -> ServerReason("fits")
    [] type = "None" -> ServerNone(Minor)
    [] type = "VNC" -> ServerVNC
    [] type = "SASL" -> ServerSASL("fits")
    [] type \in {"MSLogon", "MSLogonII"} -> ServerMSLogon
    [] type = "ARD" -> ServerARD
    [] type = "TLS" -> <<G("hello"), S("finished", 0), D("tls")>>
    [] type = "VeNCrypt" -> <<D("veAnnounce")>>
    [] OTHER -> <<D("close")>>

(* A server of version 3.3 has chosen the type itself. *)
Chosen(word) == [op |-> "chosen", what |-> word]
ServerVersion ==
  /\ ServerGet("version")
  /\ reply' = Got
  /\ IF Minor' > 3
       THEN \E list \in Lists : Then(
              IF list = <<>> THEN <<S("count", 0), D("reason")>>
              ELSE ServerList("count", "type", "choice", list))
       ELSE \E word \in Words : Then(<<S("word", word), Chosen(word)>>)
  /\ UNCHANGED <<taken, serverLayer, exchanges, verdict>>

ServerChoice ==
  /\ ServerGet("choice")
  /\ taken' = Append(taken, Got)
  /\ Then(ServerHandler(Got))
  /\ UNCHANGED <<reply, serverLayer, exchanges, verdict>>

ServerWord ==
  /\ \E word \in Words : ServerAt("chosen", word) /\ taken' = <<word>> /\ Then(ServerHandler(word))
  /\ UNCHANGED <<command, client, wire, closed, reply, serverLayer, exchanges, verdict>>

ServerExplains ==
  /\ ServerAt("decide", "reason")
  /\ \E size \in Sizes : Instead(ServerReason(size))
  /\ verdict' = "refused"
  /\ UNCHANGED <<command, client, wire, closed, reply, taken, serverLayer, exchanges>>

ServerTLS ==
  /\ ServerAt("decide", "tls")
  /\ serverLayer' = "tls"
  /\ IF taken[1] = "VeNCrypt" THEN Then(<<>>)
     ELSE \E list \in SubLists : Then(
            IF list = <<>> THEN <<S("count", 0), D("reason")>>
            ELSE ServerList("count", "type", "choice", list))
  /\ UNCHANGED <<command, client, wire, closed, reply, taken, exchanges, verdict>>

(* VeNCrypt 0.2, or a version that is not known. *)
ServerVeNCryptVersion ==
  /\ \/ /\ ServerAt("decide", "veAnnounce")
        /\ \E v \in {<<0, 2>>, <<1, 1>>} : Then(ServerVeNCrypt(v))
     \/ /\ ServerAt("decide", "veVersion")
        /\ \/ \E list \in VeNCryptLists :
                Then(<<S("veStatus", 0)>> \o
                     IF list = <<>> THEN <<S("veCount", 0), D("close")>>
                     ELSE ServerList("veCount", "veType", "veChoice", list))
           \/ Then(<<S("veStatus", 1), D("close")>>)
  /\ UNCHANGED <<command, client, wire, closed, reply, taken, serverLayer, exchanges, verdict>>

ServerVeNCryptChoice ==
  /\ ServerGet("veChoice")
  /\ taken' = Append(taken, Got)
  /\ \/ Then(<<S("veAccepted", 1), G("hello"), S("finished", 0), D("tls")>> \o
             CASE Got \in NoneTypes -> <<D("verdict")>>
               [] Got \in VNCTypes -> ServerVNC
               [] Got \in PlainTypes -> ServerPlain
               [] Got \in SASLTypes -> ServerSASL("fits"))
     \/ Then(<<S("veAccepted", 0), D("close")>>)
  /\ UNCHANGED <<reply, serverLayer, exchanges, verdict>>

ServerPlainLengths ==
  /\ ServerGet("lengths")
  /\ Then(ServerPlainMessage(Got))
  /\ UNCHANGED <<reply, taken, serverLayer, exchanges, verdict>>

ServerVerdict ==
  /\ ServerAt("decide", "verdict") \/ ServerAt("decide", "admit")
  /\ \/ /\ verdict' = "ok"
        /\ \E size \in Sizes :
             Instead((IF steps[1].what = "admit" THEN <<>> ELSE <<S("result", "ok")>>)
                       \o ServerJoin(size))
     \/ /\ steps[1].what = "verdict"
        /\ verdict' = "refused"
        /\ \/ Instead(<<S("result", "failed"), D(IF Minor = 8 THEN "reason" ELSE "close")>>)
           \/ Instead(<<S("result", "tooMany"), D("close")>>)
  /\ UNCHANGED <<command, client, wire, closed, reply, taken, serverLayer, exchanges>>

ServerSaslStart ==
  /\ ServerGet("mechanism")
  /\ exchanges' = <<Got, 0>>
  /\ Then(<<>>)
  /\ UNCHANGED <<reply, taken, serverLayer, verdict>>

(* The server's library: a reply, and whether the mechanism is through.     *)
ServerSaslData ==
  /\ ServerGet("saslData")
  /\ exchanges' = <<exchanges[1], exchanges[2] + 1>>
  /\ LET next == 2 * exchanges'[2]
         done == next >= exchanges[1]
     IN \E data \in IF next <= exchanges[1] THEN {next, -1} ELSE {0} :
          Then(<<S("saslData", data), S("saslComplete", done)>>
                 \o <<IF done THEN D("saslVerdict") ELSE G("saslData")>>)
  /\ UNCHANGED <<reply, taken, serverLayer, verdict>>

(* The result goes out before the mechanism's layer is on. *)
ServerSaslVerdict ==
  /\ ServerAt("decide", "saslVerdict")
  /\ \/ /\ verdict' = "ok"
        /\ Instead(<<S("saslResult", "ok"), D("saslLayer")>> \o ServerJoin("fits"))
     \/ verdict' = "refused" /\ Instead(<<S("saslResult", "failed"), D("close")>>)
  /\ UNCHANGED <<command, client, wire, closed, reply, taken, serverLayer, exchanges>>
ServerSaslLayer ==
  /\ ServerAt("decide", "saslLayer")
  /\ serverLayer' = IF serverLayer = "tls" THEN "tls" ELSE "sasl"
  /\ Then(<<>>)
  /\ UNCHANGED <<command, client, wire, closed, reply, taken, exchanges, verdict>>

ServerClose ==
  /\ ServerAt("decide", "close")
  /\ closed' = TRUE
  /\ Then(<<>>)
  /\ UNCHANGED <<command, client, wire, reply, taken, serverLayer, exchanges, verdict>>

ServerNext ==
  \/ ServerSend \/ ServerData \/ ServerVersion \/ ServerChoice \/ ServerWord
  \/ ServerExplains \/ ServerTLS \/ ServerVeNCryptVersion \/ ServerVeNCryptChoice
  \/ ServerPlainLengths \/ ServerVerdict \/ ServerSaslStart \/ ServerSaslData
  \/ ServerSaslVerdict \/ ServerSaslLayer \/ ServerClose

(* The connection is lost, with some of what was under way. *)
ConnectionLost ==
  /\ ~closed
  /\ closed' = TRUE
  /\ \E n \in 0..Len(toClient) : toClient' = SubSeq(toClient, 1, n)
  /\ toServer' = <<>>
  /\ UNCHANGED <<command, client, inbox, server>>

-------------------------------------------------------------------------------
Init ==
  /\ command \in BOOLEAN
  /\ todo = <<R("version")>> \o vnc_client_init
  /\ outcome = "going"
  /\ version = <<0, 0>>
  /\ scheme = NoType /\ sub = NoType /\ picked = NoType
  /\ tls = FALSE /\ saslconn = FALSE
  /\ mech = 0 /\ sasl = [calls |-> 0, given |-> 0, ok |-> FALSE]
  /\ serverin = 0 /\ complete = FALSE
  /\ inbox = <<>> /\ toClient = <<>> /\ toServer = <<>>
  /\ closed = FALSE
  /\ \E v \in Versions : steps = <<S("version", v), G("version")>>
  /\ reply = <<0, 0>> /\ taken = <<>> /\ serverLayer = "plain"
  /\ exchanges = <<0, 0>> /\ verdict = "open"

Ended == outcome # "going" /\ UNCHANGED vars

Next == ClientNext \/ ServerNext \/ ConnectionLost \/ Ended

Spec == Init /\ [][Next]_vars

(* Each side goes on while it can, the user and the authentication command  *)
(* included; the connection need not be lost.                               *)
LiveSpec == Spec /\ WF_vars(ClientNext) /\ WF_vars(ServerNext)

-------------------------------------------------------------------------------
(* Neither side ever reads a message as another than it is, or through      *)
(* another layer than it was sent with: through every version, security     *)
(* type and refusal, each knows what the other sends next.  When TLS comes  *)
(* up, nothing it would need has been read ahead into client->buf.          *)
InStep ==
  /\ (Doing("read") /\ inbox # <<>>) => inbox[1].what = todo[1].what
  /\ Doing("tls") => /\ inbox = <<>>
                     /\ toClient # <<>> => toClient[1].what = "finished"
  /\ (~closed /\ steps # <<>> /\ steps[1].op = "get" /\ toServer # <<>> /\ outcome = "going")
       => toServer[1].what = steps[1].what /\ toServer[1].layer = serverLayer

(* A client that has joined the session was let in by the server, in the    *)
(* version and after the authentication that both think it was, with the    *)
(* same layer on, and has read everything the server has sent so far.       *)
JoinedTogether ==
  outcome = "ready" =>
    /\ verdict = "ok"
    /\ reply = version
    /\ taken = IF sub = NoType THEN <<scheme>> ELSE <<scheme, sub>>
    /\ layer = serverLayer
    /\ inbox = <<>> /\ toClient = <<>>

(* A client that gives up over the security types had no choice, except     *)
(* that inside TLS it picks two types that it has no handler for there.     *)
ChoiceHandled ==
  (outcome = "unknown" /\ Listed(version)) =>
    \/ picked = NoType
    \/ SubAuth /\ picked \in {"ARD", "MSLogonII"}
    \/ picked = "VeNCrypt" /\ sub = NoType

(* "Even if the server has completed, the client must *always* do at least  *)
(* one step [...] to verify the server isn't lying about something"         *)
(* (sasl.c): past the exchanges, the library has seen all that the server   *)
(* sent, and has agreed.                                                    *)
NothingUnverified ==
  (saslconn \/ At("local", "saslStrength")) =>
    /\ sasl.calls >= 1
    /\ sasl.ok
    /\ sasl.given = 2 * (mech \div 2)

(* It is only a command of --auth-command that can crash the client, and    *)
(* only where a password alone, or a name and password of fixed size, is    *)
(* asked for: never with plain authentication.                              *)
CrashesOnly ==
  outcome = "crashed" =>
    /\ command
    /\ LET type == IF sub # NoType THEN sub ELSE scheme
       IN type \in {"VNC", "SASL", "ARD", "MSLogon", "MSLogonII"}
                     \cup VNCTypes \cup SASLTypes

(* The two never wait for each other: the client joins or gives up.         *)
Decided == <>(outcome # "going")
===============================================================================
