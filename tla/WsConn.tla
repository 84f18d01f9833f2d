------------------------------- MODULE WsConn -------------------------------
(***************************************************************************)
(* One websocket connection at the grain of its goroutines, channels and   *)
(* mutex (http.go, conn.go): what Session takes in single steps.           *)
(*   main    wsHandler: the select loop, its handlers, the deferred Close  *)
(*   reader  reads the socket and sends on the unbuffered wsInMsg          *)
(*   watch   the watcher that connect_subscriber starts                    *)
(*   feed    the track handler, which sends on localTrackChan              *)
(*   ice     the callback that sends on infoChan                           *)
(*   cand    the callback that writes ICE candidates to the client         *)
(* The callbacks run in goroutines of pion, which pc.Close() does not wait *)
(* for.  A write ends: it succeeds, or fails when the client is gone (the  *)
(* code sets no deadline, so this is an assumption about the network).     *)
(* Pings that succeed change nothing; panics are in Session.               *)
(***************************************************************************)
EXTENDS Naturals, Sequences

CONSTANT MaxWire \* bound: messages of the client on their way

ASSUME MaxWireIsNat == MaxWire \in Nat

VARIABLES
    publishes,  \* it is a publisher's
    sent, wire, \* what the client sent once; its messages on their way
    gone,       \* the client closed the socket, or it broke
    reader,     \* "reading", "quit", or the message it sends on wsInMsg
    main,       \* its place, or the message it handles
    left, after,\* messages main has to write, and where it goes then
    mu,         \* who holds Conn's mutex
    peer,       \* how far the peer connection is set up
    watch, feed, ice, cand,
    registered, \* in the registry
    renamed,    \* channelName is not the channel it is registered with
    told        \* the registry closed QuitChan

clientVars == <<publishes, sent, wire, gone>>
mainVars == <<main, left, after>>
otherVars == <<watch, feed, ice, cand>>
serverVars == <<registered, renamed, told>>
vars == <<clientVars, mainVars, otherVars, serverVars, reader, mu, peer>>

Key == {"ice_candidate", "get_channels", "session", "connect"}

Place == {"select", "lock", "write", "await", "claim", "register", "close",
          "teardown", "closed"}

TypeOK ==
    /\ publishes \in BOOLEAN
    /\ sent \subseteq Key /\ wire \in Seq(Key) /\ Len(wire) <= MaxWire
    /\ gone \in BOOLEAN
    /\ reader \in {"reading", "quit"} \cup Key
    /\ main \in Place \cup Key
    /\ left \in 0 .. 2 /\ after \in {"select", "register", "close", "info"}
    /\ mu \in {"free", "main", "watcher", "candidate"}
    /\ peer \in {"new", "offered", "answered", "closed"}
    /\ watch \in {"none", "waiting", "lock", "write", "quit", "done"}
    /\ feed \in {"none", "offer", "copying", "ended"}
    /\ ice \in {"idle", "send"} /\ cand \in {"idle", "lock", "write"}
    /\ registered \in BOOLEAN /\ renamed \in BOOLEAN /\ told \in BOOLEAN

Init ==
    /\ publishes \in BOOLEAN
    /\ sent = {} /\ wire = <<>> /\ gone = FALSE
    /\ reader = "reading" /\ main = "select" /\ left = 0 /\ after = "select"
    /\ mu = "free" /\ peer = "new"
    /\ watch = "none" /\ feed = "none" /\ ice = "idle" /\ cand = "idle"
    /\ registered = FALSE /\ renamed = FALSE /\ told = FALSE

-----------------------------------------------------------------------------
(* The client, and the rest of the server.                                 *)

\* What the pages send: candidates any time, one offer, and one connect of a
\* publisher.  A subscriber's page asks for the channels, and may send a connect
\* for each channel it waits for (subscriber.js:349), all on this connection.
SentOnce == IF publishes THEN {"session", "connect"} ELSE {"session"}

Send(key) ==
    /\ ~gone /\ main # "closed" /\ Len(wire) < MaxWire
    /\ key \notin sent /\ (key = "get_channels" => ~publishes)
    /\ wire' = Append(wire, key)
    /\ sent' = sent \cup ({key} \cap SentOnce)
    /\ UNCHANGED <<mainVars, otherVars, serverVars, publishes, gone>>
    /\ UNCHANGED <<reader, mu, peer>>

Hangup ==
    /\ ~gone
    /\ gone' = TRUE
    /\ UNCHANGED <<mainVars, otherVars, serverVars, publishes, sent>>
    /\ UNCHANGED <<wire, reader, mu, peer>>

\* RemovePublisher tells the subscribers of its channel.
ChannelCloses ==
    /\ registered /\ ~publishes /\ ~told
    /\ told' = TRUE
    /\ UNCHANGED <<clientVars, mainVars, otherVars, reader>>
    /\ UNCHANGED <<mu, peer, registered, renamed>>

-----------------------------------------------------------------------------
(* The reader.                                                             *)

Read ==
    /\ reader = "reading" /\ wire # <<>> /\ main # "closed"
    /\ reader' = Head(wire) /\ wire' = Tail(wire)
    /\ UNCHANGED <<mainVars, otherVars, serverVars, publishes, sent>>
    /\ UNCHANGED <<gone, mu, peer>>

ReadFails ==
    /\ reader = "reading" /\ (gone \/ main = "closed")
    /\ reader' = "quit"
    /\ UNCHANGED <<clientVars, mainVars, otherVars, serverVars, mu, peer>>

\* A message that is no text or no JSON: the reader returns, while the client
\* is there.
Unreadable ==
    /\ reader = "reading" /\ ~gone /\ wire = <<>>
    /\ reader' = "quit"
    /\ UNCHANGED <<clientVars, mainVars, otherVars, serverVars, mu, peer>>

-----------------------------------------------------------------------------
(* The main goroutine: the cases of its select.                            *)

\* Slip: the reader closes wsInMsg when it quits.
TakeMessageFromClosed ==
    /\ main = "select" /\ reader # "reading"
    /\ main' = reader /\ reader' = "reading"
    /\ UNCHANGED <<clientVars, otherVars, serverVars, left, after, mu, peer>>

TakeMessage ==
    /\ main = "select" /\ reader \in Key
    /\ main' = reader /\ reader' = "reading"
    /\ UNCHANGED <<clientVars, otherVars, serverVars, left, after, mu, peer>>

\* Slip: quitchan has no case.
SeesReaderQuit == reader = "quit"

\* wsReadQuitChan or quitchan is closed.
SeesQuit == reader = "quit" \/ watch = "done"

\* One of them is seen, or a ping fails.
Leave ==
    /\ main = "select" /\ (SeesQuit \/ gone)
    /\ main' = "close"
    /\ UNCHANGED <<clientVars, otherVars, serverVars, reader, left>>
    /\ UNCHANGED <<after, mu, peer>>

Reply(n, place) == main' = "lock" /\ left' = n /\ after' = place

\* Slip: infos are taken from a connection that is registered.
TakeInfoOnceRegistered ==
    /\ main = "select" /\ ice = "send" /\ registered
    /\ ice' = "idle" /\ Reply(1, "info")
    /\ UNCHANGED <<clientVars, serverVars, reader, mu, peer>>
    /\ UNCHANGED <<watch, feed, cand>>

TakeInfo ==
    /\ main = "select" /\ ice = "send"
    /\ ice' = "idle" /\ Reply(1, "info")
    /\ UNCHANGED <<clientVars, serverVars, reader, mu, peer>>
    /\ UNCHANGED <<watch, feed, cand>>

-----------------------------------------------------------------------------
(* The handlers of handleWSMsg.                                            *)

\* The handler fails: its error is written, and wsHandler returns.
Fail == Reply(1, "close")

HandleCandidate ==
    /\ main = "ice_candidate"
    /\ \/ main' = "select" /\ UNCHANGED <<left, after>>
       \/ Fail
    /\ UNCHANGED <<peer, renamed>>

HandleGetChannels ==
    /\ main = "get_channels"
    /\ Reply(1, "select")
    /\ UNCHANGED <<peer, renamed>>

\* A publisher's offer is answered, and a password may be asked for; a
\* subscriber's is kept until it connects.
HandleSession ==
    /\ main = "session"
    /\ \/ publishes /\ peer' = "answered" /\ \E n \in 1 .. 2 : Reply(n, "select")
       \/ ~publishes /\ peer' = "offered" /\ Reply(1, "select")
       \/ Fail /\ UNCHANGED peer
    /\ UNCHANGED renamed

\* A publisher waits for its track.
ConnectPublisher ==
    /\ publishes
    /\ \/ main' = "await" /\ UNCHANGED <<left, after>>
       \/ Fail
    /\ UNCHANGED <<peer, renamed>>

\* A subscriber's offer is answered.  Without one, or when it was answered
\* before, CreateAnswer fails; but channelName has been set by then.
ConnectSubscriber ==
    /\ ~publishes
    /\ \/ peer = "offered" /\ peer' = "answered" /\ Reply(1, "register") /\ UNCHANGED renamed
       \/ Fail /\ UNCHANGED peer /\ (renamed' = registered \/ UNCHANGED renamed)

HandleConnect == main = "connect" /\ (ConnectPublisher \/ ConnectSubscriber)

Handle ==
    /\ HandleCandidate \/ HandleGetChannels \/ HandleSession \/ HandleConnect
    /\ UNCHANGED <<clientVars, otherVars, reader, mu, registered, told>>

\* localTrack := <-c.peer.localTrackChan
ReceiveTrack ==
    /\ main = "await" /\ feed = "offer"
    /\ main' = "claim" /\ feed' = "copying"
    /\ UNCHANGED <<clientVars, serverVars, reader, left, after, mu>>
    /\ UNCHANGED <<peer, watch, ice, cand>>

\* AddPublisher, or AddSubscriber once the watcher is started; a bad channel
\* name is found before that.
Register ==
    /\ \/ main = "claim" /\ UNCHANGED watch
       \/ main = "register" /\ watch' = "waiting"
    /\ \/ registered' = TRUE /\ main' = "select" /\ UNCHANGED <<left, after>>
       \/ Fail /\ UNCHANGED registered
    /\ UNCHANGED <<clientVars, reader, mu, peer, feed, ice, cand, renamed, told>>

BadName ==
    /\ main = "register"
    /\ Fail
    /\ UNCHANGED <<clientVars, otherVars, serverVars, reader, mu, peer>>

-----------------------------------------------------------------------------
(* writeMsg, by main.                                                      *)

Lock ==
    /\ main = "lock" /\ mu = "free"
    /\ main' = "write" /\ mu' = "main"
    /\ UNCHANGED <<clientVars, otherVars, serverVars, reader>>
    /\ UNCHANGED <<left, after, peer>>

Written ==
    \/ left > 1 /\ left' = left - 1 /\ main' = "lock" /\ UNCHANGED after
    \/ /\ left = 1 /\ left' = 0 /\ UNCHANGED after
       /\ main' = IF after = "info" THEN "select" ELSE after

\* A handler that cannot write its answer fails; an info or an error that
\* cannot be written makes wsHandler return.
WriteFails ==
    /\ gone
    /\ \/ after \in {"select", "register"} /\ Fail
       \/ after \in {"info", "close"} /\ main' = "close" /\ UNCHANGED <<left, after>>

\* Slip: the mutex is unlocked only after a write that succeeded.
WriteUnlockingLast ==
    /\ main = "write"
    /\ (Written /\ mu' = "free") \/ (WriteFails /\ UNCHANGED mu)
    /\ UNCHANGED <<clientVars, otherVars, serverVars, reader, peer>>

Write ==
    /\ main = "write"
    /\ Written \/ WriteFails
    /\ mu' = "free"
    /\ UNCHANGED <<clientVars, otherVars, serverVars, reader, peer>>

-----------------------------------------------------------------------------
(* Close.                                                                  *)

\* It looks in the channel named last.
Unregister ==
    /\ main = "close" /\ mu = "free"
    /\ main' = "teardown" /\ mu' = "main"
    /\ \/ renamed /\ UNCHANGED registered
       \/ ~renamed /\ registered' = FALSE
    /\ UNCHANGED <<clientVars, otherVars, reader, left, after, peer, renamed, told>>

\* Slip: pc.Close() is left out.
TeardownSocket ==
    /\ main = "teardown"
    /\ main' = "closed" /\ mu' = "free"
    /\ UNCHANGED <<clientVars, otherVars, serverVars, reader>>
    /\ UNCHANGED <<left, after, peer>>

\* pc.Close() and wsConn.Close().
Teardown ==
    /\ main = "teardown"
    /\ main' = "closed" /\ mu' = "free" /\ peer' = "closed"
    /\ UNCHANGED <<clientVars, otherVars, serverVars, reader, left, after>>

-----------------------------------------------------------------------------
(* The other goroutines.                                                   *)

\* The watcher is told, writes channel_closed and closes quitchan.  Only it
\* closes quitchan, so the other case of its select is never taken.
WatcherIsTold ==
    /\ watch = "waiting" /\ told
    /\ watch' = "lock"
    /\ UNCHANGED mu

\* Slip: the watcher writes to the socket without writeMsg.
WatcherWritesUnlocked ==
    /\ watch = "lock"
    /\ watch' = "write"
    /\ UNCHANGED mu

WatcherLocks ==
    /\ watch = "lock" /\ mu = "free"
    /\ watch' = "write" /\ mu' = "watcher"

WatcherWrites ==
    /\ watch = "write"
    /\ watch' = "quit" /\ mu' = "free"

WatcherQuits ==
    /\ watch = "quit"
    /\ watch' = "done"
    /\ UNCHANGED mu

Watcher ==
    /\ WatcherIsTold \/ WatcherLocks \/ WatcherWrites \/ WatcherQuits
    /\ UNCHANGED <<clientVars, mainVars, serverVars, reader, peer>>
    /\ UNCHANGED <<feed, ice, cand>>

\* onIceCandidate.
CandidateComes == cand = "idle" /\ peer = "answered" /\ cand' = "lock" /\ UNCHANGED mu

CandidateLocks == cand = "lock" /\ mu = "free" /\ cand' = "write" /\ mu' = "candidate"

CandidateWritten == cand = "write" /\ cand' = "idle" /\ mu' = "free"

OnIceCandidate ==
    /\ CandidateComes \/ CandidateLocks \/ CandidateWritten
    /\ UNCHANGED <<clientVars, mainVars, serverVars, reader, peer>>
    /\ UNCHANGED <<watch, feed, ice>>

\* rtcStateChangeHandler, for "connected" and "disconnected".
IceChanges ==
    /\ ice = "idle" /\ peer = "answered"
    /\ ice' = "send"
    /\ UNCHANGED <<clientVars, mainVars, serverVars, reader, mu>>
    /\ UNCHANGED <<peer, watch, feed, cand>>

\* rtcTrackHandlerPublisher is called; a read or a write of its loop fails.
TrackComes == feed = "none" /\ publishes /\ peer = "answered" /\ feed' = "offer"

TrackEnds == feed = "copying" /\ feed' = "ended"

TrackHandler ==
    /\ TrackComes \/ TrackEnds
    /\ UNCHANGED <<clientVars, mainVars, serverVars, reader, mu>>
    /\ UNCHANGED <<peer, watch, ice, cand>>

-----------------------------------------------------------------------------
Environment ==
    \/ \E key \in Key : Send(key)
    \/ Hangup
    \/ Unreadable
    \/ ChannelCloses

Main ==
    \/ TakeMessage
    \/ Leave
    \/ TakeInfo
    \/ Handle
    \/ ReceiveTrack
    \/ Register
    \/ BadName
    \/ Lock
    \/ Write
    \/ Unregister
    \/ Teardown

Others ==
    \/ Read
    \/ ReadFails
    \/ Watcher
    \/ OnIceCandidate
    \/ IceChanges
    \/ TrackHandler

Next == Environment \/ Main \/ Others

Spec == Init /\ [][Next]_vars

\* Goroutines run; select picks at random among its cases and a mutex is not
\* withheld for good from one that waits for it.  Nothing is assumed of the
\* client, of ICE or of the other sessions.
FairSpec ==
    /\ Spec
    /\ WF_vars(Handle \/ ReceiveTrack \/ Register \/ BadName \/ Write \/ Teardown)
    /\ WF_vars(Read \/ ReadFails)
    /\ SF_vars(TakeMessage) /\ SF_vars(TakeInfo) /\ SF_vars(Leave)
    /\ SF_vars(Lock \/ Unregister)
    /\ SF_vars(Watcher) /\ SF_vars(OnIceCandidate /\ cand # "idle")
    /\ WF_vars(peer = "closed" /\ TrackHandler)

-----------------------------------------------------------------------------
InClose == {"close", "teardown", "closed"}

\* The socket supports one writer at a time (http.go:73): main, the watcher
\* and the ICE callback never write at once, nor while Close tears down.
OneWriter ==
    /\ main \in {"write", "teardown"} => watch # "write" /\ cand # "write"
    /\ watch = "write" => cand # "write"

\* An ICE callback that sends on the unbuffered infoChan is heard, unless the
\* main goroutine waits for a track or has left its loop.
InfoIsSent == ice = "send" ~> ice = "idle" \/ main \in InClose \cup {"await"}

\* So is the reader that sends a message.
MessageIsTaken ==
    reader \in Key ~> reader \notin Key \/ main \in InClose \cup {"await"}

\* A subscriber whose channel closed is let go, however much its client goes
\* on sending and ICE goes on changing.
ToldIsLetGo == told ~> main = "closed"

\* What a closed connection leaves behind is at most goroutines blocked in
\* one of the three sends, and a watcher that was not told; no reader, track
\* handler or writer goes on.  (A registration left behind may tell it later:
\* it ends then.)
LeavesOnlyBlocked ==
    main = "closed" ~>
        /\ reader \in Key \cup {"quit"}
        /\ feed \in {"none", "offer", "ended"}
        /\ watch \in {"none", "waiting", "done"} /\ cand = "idle"
=============================================================================
