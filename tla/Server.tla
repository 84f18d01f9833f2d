------------------------------- MODULE Server -------------------------------
(***************************************************************************)
(* The whole server of main.go: websocket sessions and stream requests of  *)
(* any number of clients over one registry.                                *)
(***************************************************************************)
EXTENDS Session, StreamHandler

vars == <<registryVars, sessionVars, streamVars>>

TypeOK == RegistryTypeOK /\ SessionTypeOK /\ StreamTypeOK

Init == RegistryInit /\ SessionInit /\ StreamInit

\* What clients, the network and the WebRTC stack do to connection c.
Client(c) ==
    \/ Accept(c)
    \/ Offer(c)
    \/ RefuseMessage(c)
    \/ ReaderReturns(c)
    \/ c \in PubConn /\ OnTrack(c)
    \/ c \in PubConn /\ TrackFails(c)
    \/ c \in PubConn /\ \E ch \in Channel : ConnectPublisher(c, ch)
    \/ c \in SubConn /\ \E ch \in Channel \cup {None} : ConnectSubscriber(c, ch)

Main(c) ==
    \/ c \in PubConn /\ ReceiveTrack(c)
    \/ c \in PubConn /\ Claim(c)
    \/ c \in SubConn /\ Negotiate(c)
    \/ c \in SubConn /\ Register(c)
    \/ Return(c)
    \/ CloseRegistration(c)
    \/ CloseTransport(c)

Watcher(c) == WatcherNotify(c) \/ WatcherQuit(c)

TrackHandler(c) == LookupForPacket(c) \/ FeedPacket(c)

SessionStep ==
    \/ \E c \in Conn : Client(c) \/ Main(c)
    \/ \E c \in SubConn : Watcher(c)
    \/ \E c \in PubConn : TrackHandler(c)

\* The server's part of a stream request.
Responder(h) == ChannelClosed(h) \/ LeaveStream(h)

StreamStep ==
    \/ \E h \in Streamer : \/ \E ch \in Channel : Lookup(h, ch)
                           \/ JoinStream(h)
                           \/ JoinFails(h)
                           \/ TakeChunk(h)
                           \/ Written(h)
                           \/ ClientAborts(h)
                           \/ Responder(h)
    \/ \E ch \in Channel : EncoderExits(ch)

Next ==
    \/ SessionStep /\ UNCHANGED streamVars
    \/ StreamStep /\ UNCHANGED sessionVars

\* The Go scheduler runs every goroutine that can go on; clients and the
\* network owe nothing.
Fairness ==
    /\ \A c \in Conn : WF_vars(Main(c) /\ UNCHANGED streamVars)
    /\ \A c \in SubConn : WF_vars(Watcher(c) /\ UNCHANGED streamVars)

Spec == Init /\ [][Next]_vars

FairSpec == Spec /\ Fairness
-----------------------------------------------------------------------------
(* Safety.                                                                 *)

\* A channel is never held by a connection that is no longer served: whoever
\* publishes on it is in its select loop or on the way through Close, for
\* this very channel.  So "already in use" (AddPublisher) is never said on
\* behalf of a dead session.
HolderIsServed ==
    \A ch \in Channel : OnAir(ch) =>
        LET p == publisher[ch] IN
            /\ loop[p] \in {"serving", "closing"}
            /\ chan[p] = ch

\* Whatever way a subscriber's session ends, its entry in the registry is
\* gone when Close has gone past the registry, unless the client named another
\* channel at the end: a second connect_subscriber sets channelName before it
\* fails, Close looks there, and the entry is left for good.  Nobody is
\* registered with two channels.
RegisteredIsServed ==
    \A ch \in Channel : \A s \in subscribers[ch] :
        /\ \/ loop[s] \in {"serving", "closing"} /\ chan[s] = ch
           \/ loop[s] \in InClose \cup {"closed"} /\ chan[s] # ch
        /\ \A other \in Channel \ {ch} : s \notin subscribers[other]

\* Audio stays on its channel: a subscriber is fed by a track made for its own
\* channel, whatever publishers came and went between its lookup and its
\* registration, and a channel's encoder has read only packets of connections
\* that named this channel.
HearsOwnChannel ==
    \A ch \in Channel :
        /\ \A s \in subscribers[ch] : heard[s] \in PubConn /\ chan[heard[s]] = ch
        /\ \A p \in encoded[ch] : chan[p] = ch

\* RemovePublisher reaches every subscriber: on a channel off air all of them
\* were told to quit, unless some RemovePublisher panicked half way.
OffAirIsTold ==
    \/ \E p \in PubConn : loop[p] = "panicked" /\ chan[p] # None
    \/ \A ch \in Channel : ~OnAir(ch) => subscribers[ch] \subseteq quit

\* The server closes a socket without a word only if its reader stopped:
\* because the client left, or sent something that is not JSON text.  To every
\* other client it said "error" or "channel_closed" before, whichever of the
\* main goroutine and the watcher ended the session.
NoSilentHangup ==
    \A c \in Conn :
        loop[c] = "closed" /\ reader[c] = "reading" => told[c] # "nothing"

\* A listener of a Stable stream is served by a request that is still there to
\* leave, so the encoder is not kept alive by a request that ended.
ListenerIsServed ==
    \A ch \in Channel : \A h \in listeners[ch] :
        /\ at[h] \in {"streaming", "writing", "leaving"}
        /\ wants[h] = ch

\* "only permit one publisher per channel" (registry.go:13): two connections
\* never both hold an accepted connect_publisher for one channel.
OnePublisherPerChannel ==
    \A p, q \in PubConn :
        loop[p] = "serving" /\ loop[q] = "serving" /\ chan[p] = chan[q] => p = q

\* "tell all subscribers to quit" (registry.go:99): RemovePublisher leaves
\* no subscriber behind that was not told.
AllToldToQuit ==
    \A ch \in Channel : ~OnAir(ch) => subscribers[ch] \subseteq quit

-----------------------------------------------------------------------------
(* Liveness, under Fairness.                                               *)

\* A publisher that goes away, or is no longer read, stops holding its channel,
\* however its subscribers behave: no step of its Close waits for them.
PublisherLeavesChannel ==
    \A p \in PubConn, ch \in Channel :
        publisher[ch] = p /\ reader[p] = "returned" ~> publisher[ch] # p

\* A subscriber told to quit ends up closed.
ToldSubscriberLeaves ==
    \A s \in SubConn : s \in quit ~> loop[s] = "closed"

\* A session whose reader stopped is closed, except that a publisher whose
\* audio track never arrives stays in connectPublisher.
GoneSessionEnds ==
    \A c \in Conn : reader[c] = "returned" ~> loop[c] \in Ended \cup {"await", "stuck"}
=============================================================================
