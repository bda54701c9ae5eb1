------------------------------ MODULE AuthScripts ------------------------------
(***************************************************************************)
(* What each authentication handler reads, writes and asks for, in its      *)
(* order (rfbproto.c, sasl.c, tls_gnutls.c), and what a server that follows *)
(* the protocol does on its side.                                           *)
(*                                                                         *)
(* A handler is a sequence of steps.  A read that decides something, and a  *)
(* local step that may fail, have an action of their own in Handshake; the  *)
(* steps only say where in the stream it stands.                            *)
(***************************************************************************)
EXTENDS Integers, Sequences

R(what) == [op |-> "read", what |-> what]
W(what, val) == [op |-> "write", what |-> what, val |-> val]
L(what) == [op |-> "local", what |-> what]
GiveUp(why) == [op |-> "stop", what |-> why]

Repeat(n, step) == [i \in 1..n |-> step]

-------------------------------------------------------------------------------
(* The client's handlers. *)

ReadReason == <<R("reasonLength"), R("reason"), GiveUp("refused")>>

rfbHandleAuthResult == <<R("result")>>

HandleVncAuth ==
  <<R("challenge"), L("password"), W("response", 0)>> \o rfbHandleAuthResult

(* Fault: the name and password are used unchecked. *)
HandlePlainAuthUnchecked ==
  <<L("credential"), W("lengths", <<1, 1>>), W("user", 0), W("password", 0)>>
    \o rfbHandleAuthResult
(* The user is asked before anything is sent.                               *)
HandlePlainAuth == <<L("plainCredential")>>
(* Fault: the bytes are sent whatever the lengths say. *)
PlainMessageAlways(user, password) ==
  <<W("lengths", <<user, password>>), W("user", 0), W("password", 0)>>
    \o rfbHandleAuthResult
(* What follows once name and password are known: one that is empty has a   *)
(* length, and no bytes.                                                    *)
PlainMessage(user, password) ==
  <<W("lengths", <<user, password>>)>>
    \o Repeat(user, W("user", 0)) \o Repeat(password, W("password", 0))
    \o rfbHandleAuthResult

HandleUltraMSLogonIIAuth ==
  <<R("gen"), R("mod"), R("resp"), L("keys"), L("credential"),
    W("pub", 0), W("user", 0), W("password", 0)>> \o rfbHandleAuthResult

(* Its own arithmetic makes the keys, and cannot fail. *)
HandleMSLogonAuth ==
  <<R("gen"), R("mod"), R("resp"), L("credential"),
    W("pub", 0), W("user", 0), W("password", 0)>> \o rfbHandleAuthResult

(* The keys, and the block they are read into, come first; the cipher after *)
(* the credential.                                                          *)
HandleARDAuth ==
  <<R("gen"), R("keyLength"), L("keys"), R("mod"), R("resp"), L("keys"),
    L("credential"), L("keys"), W("ciphertext", 0), W("pub", 0)>>
    \o rfbHandleAuthResult

HandleSASLAuth ==
  <<L("saslSetup"), R("mechlistLength"), R("mechlist"), L("saslStart")>>
(* The client's message of an exchange, and the server's reply. *)
SaslExchange(message) ==
  <<W("saslData", message), R("saslData"), R("saslComplete")>>
(* After the exchanges. *)
SaslEnd == <<L("saslStrength"), R("saslResult")>>

HandleAnonTLSAuth == <<L("tls")>>

HandleVeNCryptAuth == <<L("library"), R("veVersion")>>
(* The VeNCrypt version is echoed and acknowledged; the list follows. *)
VeNCryptAgreed == <<W("veVersion", 0), R("veStatus"), R("veCount")>>

(* What is left of InitialiseRFBConnection once the server is content.      *)
ClientInit == <<W("clientInit", 0), R("serverInit"), R("name")>>

SetFormatAndEncodings == <<W("setPixelFormat", 0), W("setEncodings", 0)>>

(* vnc_client_init: the last two requests are incremental ones. *)
vnc_client_init ==
  ClientInit \o <<L("framebuffer")>> \o SetFormatAndEncodings
    \o <<W("updateRequest", 0), W("incrementalRequest", 0), W("incrementalRequest", 0),
         [op |-> "ready", what |-> "ready"]>>

-------------------------------------------------------------------------------
(* The server's side. *)

S(what, val) == [op |-> "send", what |-> what, val |-> val]
G(what) == [op |-> "get", what |-> what]
D(what) == [op |-> "decide", what |-> what]

ServerReason(length) ==
  <<S("reasonLength", length), S("reason", 0), D("close")>>

(* 3.8 sends a result for None too. *)
ServerNone(minor) == IF minor = 8 THEN <<D("verdict")>> ELSE <<D("admit")>>
ServerVNC == <<S("challenge", 0), G("response"), D("verdict")>>
ServerPlain == <<G("lengths")>>
ServerPlainMessage(lengths) ==
  Repeat(lengths[1], G("user")) \o Repeat(lengths[2], G("password"))
    \o <<D("verdict")>>
ServerMSLogon ==
  <<S("gen", 0), S("mod", 0), S("resp", 0),
    G("pub"), G("user"), G("password"), D("verdict")>>
ServerARD ==
  <<S("gen", 0), S("keyLength", 0), S("mod", 0), S("resp", 0),
    G("ciphertext"), G("pub"), D("verdict")>>
ServerSASL(length) ==
  <<S("mechlistLength", length), S("mechlist", 0), G("mechanism"), G("saslData")>>
ServerVeNCrypt(version) ==
  <<S("veVersion", version), G("veVersion"), D("veVersion")>>
ServerJoin(length) ==
  <<G("clientInit"), S("serverInit", length), S("name", 0), G("setPixelFormat"),
    G("setEncodings"), G("updateRequest"),
    G("incrementalRequest"), G("incrementalRequest")>>

(* The list of security types, or of VeNCrypt types, and the answer to it.  *)
ServerList(count, entry, choice, list) ==
  <<S(count, Len(list))>> \o [i \in 1..Len(list) |-> S(entry, list[i])] \o <<G(choice)>>
===============================================================================
