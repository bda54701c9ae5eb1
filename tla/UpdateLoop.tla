------------------------------ MODULE UpdateLoop ------------------------------
(***************************************************************************)
(* Who asks for what, and when: the update requests of rfbproto.c and       *)
(* vnc.c, and an RFB server that answers them.                              *)
(*                                                                         *)
(* A server sends an update only if it was asked for one.  The client asks  *)
(* three times when it starts and then once per update, before it draws it, *)
(* so that the server need not wait for the client.  It also asks, for      *)
(* everything, when the size of the screen has changed and with it the      *)
(* framebuffer was replaced; but not for every way to be told of that.      *)
(*                                                                         *)
(* Pixel values are not represented.  Of the framebuffer there is the set   *)
(* of pixels that differ from the server's, of an update in flight the set  *)
(* of those it would bring up to date.                                      *)
(***************************************************************************)
EXTENDS Naturals, FiniteSets, Sequences

CONSTANTS
  Sizes,       \* the sizes the server's screen takes
  Area,        \* Area[s]: the pixels of a screen of size s
  FirstSize,   \* the size it has at first
  Ways,        \* how the server tells of a new size: "desktop" and
               \* "extended" rectangles, or the message "resize"
  ScreenIds,   \* do the screens it lists in the former have ids other than 0?
  MaxChanges,  \* bound: how often the picture changes
  MaxResizes   \* bound: how often the size changes

ASSUME UpdateAssumption ==
  /\ FirstSize \in Sizes /\ DOMAIN Area = Sizes
  /\ Ways \subseteq {"desktop", "extended", "resize"}
  /\ ScreenIds \in BOOLEAN
  /\ MaxChanges \in Nat /\ MaxResizes \in Nat

Pixels == UNION {Area[s] : s \in Sizes}

VARIABLES
  counting,   \* does the server owe an update for every request, or one for
              \* all it has got?  It does not change.
  size,       \* the server's screen
  changed,    \* pixels it knows the client to have wrong
  news,       \* the way it has yet to tell of a new size, or "none"
  asked,      \* pixels it is to send when they change
  wanted,     \* pixels it is to send whether they changed or not
  owed,       \* requests it has not answered
  toServer,   \* requests in flight: [incremental, area]
  toClient,   \* messages in flight: [resize, size, rects, fresh]
  pc,         \* "idle"; "update": an update's rectangles are decoded, the
              \* next request is not sent; "exit"
  width,      \* client->width and client->height: a size
  rect,       \* client->updateRect: a size
  outdated,   \* pixels of the framebuffer that differ from the server's
  fulls,      \* requests for everything that were sent on account of a resize
  changes,    \* how often the picture has changed
  resizes     \* how often the size has changed

server == <<counting, size, changed, news, asked, wanted, owed>>
client == <<pc, width, rect, outdated, fulls>>
bounds == <<changes, resizes>>
vars == <<server, toServer, toClient, client, bounds>>

-------------------------------------------------------------------------------
(* The server. *)

(* Some pixels change: what is in flight of them is out of date. *)
Outdated(p) ==
  [i \in DOMAIN toClient |-> [toClient[i] EXCEPT !.fresh = @ \ p]]

PictureChanges(p) ==
  /\ changes < MaxChanges /\ changes' = changes + 1
  /\ p \in (SUBSET Area[size]) \ {{}}
  /\ changed' = changed \cup p
  /\ toClient' = Outdated(p)
  /\ outdated' = outdated \cup (p \cap Area[width])
  /\ UNCHANGED <<counting, size, news, asked, wanted, owed, toServer, pc, width, rect, fulls, resizes>>

(* With an "extended" rectangle the server takes it on itself to send the   *)
(* whole screen again; after the others it waits to be asked.               *)
ScreenResizes(s, way) ==
  /\ resizes < MaxResizes /\ resizes' = resizes + 1
  /\ s # size /\ news = "none"
  /\ size' = s
  /\ news' = way
  /\ changed' = IF way = "extended" THEN Area[s]
                ELSE (changed \cap Area[s]) \cup (Area[s] \ Area[size])
  /\ asked' = asked \cap Area[s] /\ wanted' = wanted \cap Area[s]
  /\ UNCHANGED <<counting, owed, toServer, toClient, client, changes>>

ServerReceives ==
  /\ toServer # <<>>
  /\ toServer' = Tail(toServer)
  /\ owed' = owed + 1
  /\ LET r == Head(toServer)  a == Area[r.area] \cap Area[size] IN
       /\ asked' = asked \cup a
       /\ wanted' = IF r.incremental THEN wanted ELSE wanted \cup a
  /\ UNCHANGED <<counting, size, changed, news, toClient, client, bounds>>

(* An update, with the news of the size in front of the pixels or alone.    *)
ServerUpdates ==
  /\ owed > 0 /\ news # "resize"
  /\ \E rects \in {wanted \cup (changed \cap asked), {}} :
       /\ rects # {} \/ news # "none"
       /\ toClient' = Append(toClient,
            [resize |-> news, size |-> size, rects |-> rects, fresh |-> rects])
       /\ changed' = changed \ rects
       /\ wanted' = wanted \ rects
  /\ news' = "none"
  /\ owed' = IF counting THEN owed - 1 ELSE 0
  /\ asked' = IF owed' > 0 THEN asked ELSE {}
  /\ UNCHANGED <<counting, size, toServer, client, bounds>>

(* The message, which nobody has to ask for. *)
ServerSendsResize ==
  /\ news = "resize" /\ news' = "none"
  /\ toClient' = Append(toClient,
       [resize |-> "resize", size |-> size, rects |-> {}, fresh |-> {}])
  /\ UNCHANGED <<counting, size, changed, asked, wanted, owed, toServer, client, bounds>>

-------------------------------------------------------------------------------
(* The client. *)

Request(incremental, area) == [incremental |-> incremental, area |-> area]

(* Fault: the framebuffer is not replaced for a "desktop" rectangle. *)
ResizesNotDesktop(m) ==
  \/ m.resize = "resize"
  \/ m.resize = "extended" /\ ScreenIds /\ width # m.size

(* Does the client take the size from this message? *)
Resizes(m) ==
  \/ m.resize \in {"desktop", "resize"}
  \/ m.resize = "extended" /\ ScreenIds /\ width # m.size

(* ResizeClientBuffer, which leaves a new framebuffer: all of it is wrong.  *)
NewWidth(m) == IF Resizes(m) THEN m.size ELSE width

Wrong(m) == IF Resizes(m) THEN Area[m.size] ELSE outdated

(* Fault: updateRect stays what it was. *)
NewRectKept(m) == rect
NewRect(m) == IF Resizes(m) THEN m.size ELSE rect

(* Fault: the size was changed, but nothing is asked for. *)
FullRequestForgotten(m) == FALSE

(* SendFramebufferUpdateRequest(client, 0, 0, w, h, FALSE) *)
FullRequest(m) == m.resize \in {"desktop", "resize"}

TakeMessage(m) ==
  /\ toClient' = Tail(toClient)
  /\ width' = NewWidth(m)
  /\ rect' = NewRect(m)
  /\ toServer' = IF FullRequest(m) THEN Append(toServer, Request(FALSE, m.size)) ELSE toServer
  /\ fulls' = IF FullRequest(m) THEN fulls + 1 ELSE fulls
  /\ UNCHANGED <<server, bounds>>

(* HandleFramebufferUpdate, up to the end of its loop.  "Rect too large"    *)
(* ends the client.                                                         *)
DecodeRects ==
  /\ pc = "idle" /\ toClient # <<>>
  /\ LET m == Head(toClient) IN
       /\ m.resize # "resize"
       /\ TakeMessage(m)
       /\ IF m.rects \subseteq Area[NewWidth(m)]
          THEN /\ outdated' = (Wrong(m) \ m.rects) \cup (m.rects \ m.fresh)
               /\ pc' = "update"
          ELSE outdated' = Wrong(m) /\ pc' = "exit"

(* rfbResizeFrameBuffer in HandleRFBServerMessage. *)
HandleResizeFrameBuffer ==
  /\ pc = "idle" /\ toClient # <<>>
  /\ LET m == Head(toClient) IN
       /\ m.resize = "resize"
       /\ TakeMessage(m)
       /\ outdated' = Wrong(m)
  /\ UNCHANGED pc

(* Fault: no new request if the update left nothing to wish for. *)
SendIncrementalRequestIfOutdated ==
  /\ pc = "update" /\ pc' = "idle"
  /\ toServer' = IF outdated # {} THEN Append(toServer, Request(TRUE, rect)) ELSE toServer
  /\ UNCHANGED <<server, toClient, width, rect, outdated, fulls, bounds>>

(* SendIncrementalFramebufferUpdateRequest at the end of                    *)
(* HandleFramebufferUpdate.                                                 *)
SendIncrementalRequest ==
  /\ pc = "update" /\ pc' = "idle"
  /\ toServer' = Append(toServer, Request(TRUE, rect))
  /\ UNCHANGED <<server, toClient, width, rect, outdated, fulls, bounds>>

-------------------------------------------------------------------------------
(* vnc_client_init has sent its three requests. *)
Init ==
  /\ counting \in BOOLEAN
  /\ size = FirstSize /\ changed = {} /\ news = "none"
  /\ asked = {} /\ wanted = {} /\ owed = 0
  /\ toServer = <<Request(FALSE, FirstSize), Request(TRUE, FirstSize), Request(TRUE, FirstSize)>>
  /\ toClient = <<>>
  /\ pc = "idle" /\ width = FirstSize /\ rect = FirstSize
  /\ outdated = Area[FirstSize]
  /\ fulls = 0 /\ changes = 0 /\ resizes = 0

World ==
  \/ \E p \in SUBSET Pixels : PictureChanges(p)
  \/ \E s \in Sizes, way \in Ways : ScreenResizes(s, way)
Server == ServerReceives \/ ServerUpdates \/ ServerSendsResize
Client == DecodeRects \/ HandleResizeFrameBuffer \/ SendIncrementalRequest

Next == World \/ Server \/ Client

Spec == Init /\ [][Next]_vars

(* The client's thread always gets to run, and the server does what it was  *)
(* asked for when it has something to send.                                 *)
FairSpec ==
  /\ Spec
  /\ WF_vars(Client) /\ WF_vars(ServerReceives)
  /\ WF_vars(ServerUpdates) /\ WF_vars(ServerSendsResize)

-------------------------------------------------------------------------------
(* Properties.                                                             *)

(* Updates that the client still has to answer with a request. *)
Unanswered ==
  Cardinality({i \in DOMAIN toClient : toClient[i].resize # "resize"})
    + (IF pc = "update" THEN 1 ELSE 0)

(* With a server that counts there are always three requests under way, and *)
(* one more for every time the size changed: the pipeline neither runs dry  *)
(* nor fills up (vnc_client_init, HandleFramebufferUpdate).                 *)
RequestsConserved ==
  counting => owed + Len(toServer) + Unanswered = 3 + fulls

(* The client never takes a rectangle for too large that the server cut to  *)
(* its screen: it has heard of every size when it gets pixels of it.        *)
RectsFit == pc # "exit"

(* Every pixel the framebuffer has wrong will be sent: the server knows, or *)
(* it is on its way, or the client has asked for it whatever the server     *)
(* thinks.  So it is across changes of the size, which lose the whole       *)
(* framebuffer.                                                             *)
InFlight == UNION {toClient[i].fresh : i \in DOMAIN toClient}
AskedAnyway ==
  wanted \cup UNION {Area[toServer[i].area] : i \in
    {j \in DOMAIN toServer : ~toServer[j].incremental}}
SizeKnown ==
  news = "none" /\ \A i \in DOMAIN toClient : toClient[i].resize = "none"
NothingForgotten ==
  SizeKnown => outdated \subseteq changed \cup InFlight \cup AskedAnyway

(* When the picture stops changing, the client has all of it, in its size.  *)
Converges == <>[](outdated = {} /\ width = size)
===============================================================================
