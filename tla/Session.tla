------------------------------ MODULE Session ------------------------------
(***************************************************************************)
(* Websocket sessions: wsHandler and handleWSMsg (http.go) with the Conn   *)
(* they drive (conn.go) and its peer connection (webrtc.go).  A connection *)
(* is served by several goroutines:                                        *)
(*   - its main goroutine, the select loop of wsHandler, whose place is    *)
(*     loop[c];                                                            *)
(*   - the track handler of a publisher, feed[c], a WebRTC callback that   *)
(*     hands the local track to the main goroutine over an unbuffered      *)
(*     channel and then copies packets until the peer connection closes;   *)
(*   - the watcher of a subscriber, watch[c], started by connect_subscriber*)
(*     to turn a closed QuitChan into a closed quitchan;                   *)
(*   - the reader, reader[c], which hands messages to the main goroutine.  *)
(* The client side sends what the pages of html/js send.  A connection     *)
(* carries one session_* message.  A publisher's page sends connect_* once,*)
(* maybe before the offer.  A subscriber's page may send it again on a     *)
(* connection that is already served.                                      *)
(***************************************************************************)
EXTENDS Registry

VARIABLES
    loop,   \* place of the main goroutine
    chan,   \* Conn.channelName
    heard,  \* the local track added to a subscriber's peer connection
    feed,   \* place of a publisher's track handler
    watch,  \* place of a subscriber's watcher
    reader, \* whether the goroutine that reads the websocket still does
    told    \* what the server last told the client about ending the session

sessionVars == <<loop, chan, heard, feed, watch, reader, told>>

Conn == PubConn \cup SubConn

(***************************************************************************)
(*  "new"        not accepted yet           "select"  select loop          *)
(*  "ready"      select loop, offer handled "await"   <-localTrackChan     *)
(*  "stuck"      the same, before the offer was handled                    *)
(*  "claim"      calling AddPublisher       "negotiate" calling            *)
(*                                                      SetupSubscriber    *)
(*  "register"   calling AddSubscriber      "serving" select loop, the     *)
(*                                                    connect_* succeeded  *)
(*  "closing"    in Close, before the registry call                        *)
(*  "teardown"   in Close, after it         "closed"  Close returned       *)
(*  "panicked"   Close panicked: net/http recovers, the socket stays open  *)
(***************************************************************************)
InSelect == {"select", "ready", "serving"}
InHandler == {"await", "stuck", "claim", "negotiate", "register"}
InClose == {"closing", "teardown"}
Ended == {"closed", "panicked"}
LoopState == {"new"} \cup InSelect \cup InHandler \cup InClose \cup Ended

FeedState == {"none", "offer", "reading", "holding", "ended"}
WatchState == {"none", "waiting", "written", "done"}

ReaderState == {"reading", "returned"}

SessionTypeOK ==
    /\ loop \in [Conn -> LoopState]
    /\ chan \in [Conn -> Channel \cup {None}]
    /\ heard \in [SubConn -> PubConn \cup {None}]
    /\ feed \in [PubConn -> FeedState]
    /\ watch \in [SubConn -> WatchState]
    /\ reader \in [Conn -> ReaderState]
    /\ told \in [Conn -> {"nothing", "error", "channel_closed"}]

SessionInit ==
    /\ loop = [c \in Conn |-> "new"]
    /\ chan = [c \in Conn |-> None]
    /\ heard = [c \in SubConn |-> None]
    /\ feed = [c \in PubConn |-> "none"]
    /\ watch = [c \in SubConn |-> "none"]
    /\ reader = [c \in Conn |-> "reading"]
    /\ told = [c \in Conn |-> "nothing"]

Goto(c, place) == loop' = [loop EXCEPT ![c] = place]

\* handleWSMsg returned an error: it is written to the client and wsHandler
\* returns, which runs the deferred Close.
Refuse(c) ==
    /\ Goto(c, "closing")
    /\ told' = [told EXCEPT ![c] = "error"]

-----------------------------------------------------------------------------
(* Steps of the client and of the network.                                 *)

\* The upgrade succeeded.  If NewWebRTCPeer fails, the deferred Close reads
\* c.peer.pc through the nil peer it was given and panics.
Accept(c) ==
    /\ loop[c] = "new"
    /\ \E place \in {"select", "panicked"} : Goto(c, place)
    /\ UNCHANGED <<chan, heard, feed, watch, reader, told, registryVars>>

\* session_publisher or session_subscriber.
Offer(c) ==
    /\ loop[c] = "select"
    /\ reader[c] = "reading"
    /\ Goto(c, "ready")
    /\ UNCHANGED <<chan, heard, feed, watch, reader, told, registryVars>>

\* A message whose handler fails and changes nothing: an offer or candidate
\* that WebRTC rejects, a publisher's bad channel name or wrong password.
RefuseMessage(c) ==
    /\ loop[c] \in InSelect
    /\ reader[c] = "reading"
    /\ Refuse(c)
    /\ UNCHANGED <<chan, heard, feed, watch, reader, registryVars>>

\* connect_publisher up to the receive from localTrackChan.  While the main
\* goroutine waits there it handles no offer, so one that waits without an
\* offer never gets a track.
ConnectPublisher(c, ch) ==
    /\ \/ loop[c] = "ready" /\ Goto(c, "await")
       \/ loop[c] = "select" /\ Goto(c, "stuck")
    /\ reader[c] = "reading"
    /\ chan' = [chan EXCEPT ![c] = ch]
    /\ UNCHANGED <<heard, feed, watch, reader, told, registryVars>>

\* connect_subscriber up to GetChannel in setupSessionSubscriber.  The name is
\* set before anything is checked; None stands for the names no channel has.
\* Without an offer, and for a peer connection that has answered its offer,
\* CreateAnswer fails: what is heard and who is registered stay as they are.
ConnectSubscriber(c, ch) ==
    /\ loop[c] \in InSelect
    /\ reader[c] = "reading"
    /\ chan' = [chan EXCEPT ![c] = ch]
    /\ LET answers == loop[c] = "ready" /\ ch # None /\ OnAir(ch)
       IN  \/ answers /\ Goto(c, "negotiate") /\ UNCHANGED told
           \/ ~answers /\ Refuse(c)
    /\ UNCHANGED <<heard, feed, watch, reader, registryVars>>

\* WebRTC calls rtcTrackHandlerPublisher: the track is made and the handler
\* blocks sending it.  A track that comes later meets no receiver any more.
OnTrack(c) ==
    /\ feed[c] = "none"
    /\ loop[c] \in {"ready", "await"}
    /\ feed' = [feed EXCEPT ![c] = "offer"]
    /\ UNCHANGED <<loop, chan, heard, watch, reader, told, registryVars>>

\* The reader returns, and says nothing: ReadMessage failed, since the client
\* closed the page or its connection broke, or a message is not text or not
\* JSON, with the client still there.
ReaderReturns(c) ==
    /\ loop[c] \in InSelect \cup InHandler
    /\ reader[c] = "reading"
    /\ reader' = [reader EXCEPT ![c] = "returned"]
    /\ UNCHANGED <<loop, chan, heard, feed, watch, told, registryVars>>
-----------------------------------------------------------------------------
(* Steps of the main goroutine.                                            *)

\* localTrack := <-c.peer.localTrackChan meets the track handler's send.
ReceiveTrack(c) ==
    /\ loop[c] = "await"
    /\ feed[c] = "offer"
    /\ Goto(c, "claim")
    /\ feed' = [feed EXCEPT ![c] = "reading"]
    /\ UNCHANGED <<chan, heard, watch, reader, told, registryVars>>

Claim(c) ==
    /\ loop[c] = "claim"
    /\ \/ AddPublisher(chan[c], c) /\ Goto(c, "serving") /\ UNCHANGED told
       \/ OnAir(chan[c]) /\ Refuse(c) /\ UNCHANGED registryVars
    /\ UNCHANGED <<chan, heard, feed, watch, reader>>

\* SetupSubscriber reads channel.LocalTrack without the registry's lock.
\* When the answer is made and written, the watcher is started.
Negotiate(c) ==
    /\ loop[c] = "negotiate"
    /\ heard' = [heard EXCEPT ![c] = localTrack[chan[c]]]
    /\ \/ Goto(c, "register") /\ watch' = [watch EXCEPT ![c] = "waiting"]
          /\ UNCHANGED told
       \/ Refuse(c) /\ UNCHANGED watch
    /\ UNCHANGED <<chan, feed, reader, registryVars>>

Register(c) ==
    /\ loop[c] = "register"
    /\ \/ AddSubscriber(chan[c], c) /\ Goto(c, "serving") /\ UNCHANGED told
       \/ ~OnAir(chan[c]) /\ Refuse(c) /\ UNCHANGED registryVars
    /\ UNCHANGED <<chan, heard, feed, watch, reader>>

\* Slips: the select loop has no case for quitchan; it listens to
\* wsReadQuitChan only once the client is connected to a channel.
ReturnIgnoringQuit(c) ==
    /\ loop[c] \in InSelect
    /\ reader[c] = "returned"
    /\ Goto(c, "closing")
    /\ UNCHANGED <<chan, heard, feed, watch, reader, told, registryVars>>

ReturnOnceServing(c) ==
    /\ loop[c] = "serving"
    /\ reader[c] = "returned" \/ (c \in SubConn /\ watch[c] = "done")
    /\ Goto(c, "closing")
    /\ UNCHANGED <<chan, heard, feed, watch, reader, told, registryVars>>

\* The select loop sees wsReadQuitChan, quitchan, or that a write failed, which
\* the reader sees too.
Return(c) ==
    /\ loop[c] \in InSelect
    /\ reader[c] = "returned" \/ (c \in SubConn /\ watch[c] = "done")
    /\ Goto(c, "closing")
    /\ UNCHANGED <<chan, heard, feed, watch, reader, told, registryVars>>

\* Close up to the registry call.  isPublisher was set by session_publisher;
\* before connect_* the channel name is "" and neither call finds a channel.
CloseRegistration(c) ==
    /\ loop[c] = "closing"
    /\ \/ chan[c] = None /\ Goto(c, "teardown") /\ UNCHANGED registryVars
       \/ /\ c \in PubConn /\ chan[c] # None
          /\ \/ RemovePublisher(chan[c]) /\ Goto(c, "teardown")
             \/ RemovePublisherPanics(chan[c]) /\ Goto(c, "panicked")
       \/ /\ c \in SubConn /\ chan[c] # None
          /\ RemoveSubscriber(chan[c], c) /\ Goto(c, "teardown")
    /\ UNCHANGED <<chan, heard, feed, watch, reader, told>>

\* The rest of Close: pc.Close() and wsConn.Close().  The track handler is
\* not waited for: it ends at its next read, and a packet it has read is still
\* looked up and written.  One still blocked in its send stays blocked.
CloseTransport(c) ==
    /\ loop[c] = "teardown"
    /\ Goto(c, "closed")
    /\ UNCHANGED <<chan, heard, feed, watch, reader, told, registryVars>>
-----------------------------------------------------------------------------
(* Steps of the watcher: QuitChan was closed.  Close holds the connection's *)
(* lock in "teardown", and once it returned the write fails.               *)

WatcherNotify(c) ==
    /\ watch[c] = "waiting"
    /\ c \in quit
    /\ loop[c] # "teardown"
    /\ watch' = [watch EXCEPT ![c] = "written"]
    /\ told' = IF loop[c] = "closed" THEN told
                                     ELSE [told EXCEPT ![c] = "channel_closed"]
    /\ UNCHANGED <<loop, chan, heard, feed, reader, registryVars>>

\* Slip: quitchan is closed before the message is written.
WatcherQuitUntold(c) ==
    /\ watch[c] \in {"waiting", "written"}
    /\ c \in quit
    /\ watch' = [watch EXCEPT ![c] = "done"]
    /\ UNCHANGED <<loop, chan, heard, feed, reader, told, registryVars>>

\* close(c.quitchan)
WatcherQuit(c) ==
    /\ watch[c] = "written"
    /\ watch' = [watch EXCEPT ![c] = "done"]
    /\ UNCHANGED <<loop, chan, heard, feed, reader, told, registryVars>>
-----------------------------------------------------------------------------
(* Steps of the track handler, for the Stable mode of its channel: the     *)
(* lookup in the registry and the write to the encoder are two critical    *)
(* sections.  A failed write to the local track ends the handler while the *)
(* session goes on.                                                        *)

LookupForPacket(c) ==
    /\ feed[c] = "reading"
    /\ OnAir(chan[c])
    /\ feed' = [feed EXCEPT ![c] = "holding"]
    /\ UNCHANGED <<loop, chan, heard, watch, reader, told, registryVars>>

FeedPacket(c) ==
    /\ feed[c] = "holding"
    /\ feed' = [feed EXCEPT ![c] = "reading"]
    /\ WriteRTP(chan[c], c)
    /\ UNCHANGED <<loop, chan, heard, watch, reader, told>>
    /\ UNCHANGED <<publisher, localTrack, subscribers, quit>>

TrackFails(c) ==
    /\ feed[c] = "reading"
    /\ feed' = [feed EXCEPT ![c] = "ended"]
    /\ UNCHANGED <<loop, chan, heard, watch, reader, told, registryVars>>
=============================================================================
