--------------------------- MODULE StreamHandler ---------------------------
(***************************************************************************)
(* GET /stream/{channel}: stableStreamHandler (stream_handler.go), one     *)
(* goroutine per request.  It looks the channel up in the registry and     *)
(* then uses the struct it got without holding any lock.                   *)
(***************************************************************************)
EXTENDS Registry

VARIABLES
    at,     \* place of the request's goroutine
    wants   \* the channel it looked up

streamVars == <<at, wants>>

StreamTypeOK ==
    /\ at \in [Streamer -> {"idle", "found", "streaming", "writing", "leaving", "done"}]
    /\ wants \in [Streamer -> Channel \cup {None}]

StreamInit ==
    /\ at = [h \in Streamer |-> "idle"]
    /\ wants = [h \in Streamer |-> None]

Proceed(h, place) == at' = [at EXCEPT ![h] = place]

\* reg.GetChannel, answered 404 when the channel is off air.
Lookup(h, ch) ==
    /\ at[h] = "idle"
    /\ \/ OnAir(ch) /\ Proceed(h, "found")
       \/ ~OnAir(ch) /\ Proceed(h, "done")
    /\ wants' = [wants EXCEPT ![h] = ch]
    /\ UNCHANGED registryVars

\* channel.Stable.Join.
JoinStream(h) ==
    /\ at[h] = "found"
    /\ Proceed(h, "streaming")
    /\ Join(wants[h], h)
    /\ UNCHANGED <<wants, publisher, localTrack, subscribers, quit>>

\* Join could not start the encoder: answered 503.
JoinFails(h) ==
    /\ at[h] = "found"
    /\ ~Running(wants[h])
    /\ Proceed(h, "done")
    /\ UNCHANGED <<wants, registryVars>>

\* The loop takes a chunk from the listener's channel and writes it.
TakeChunk(h) ==
    /\ at[h] = "streaming"
    /\ h \in listeners[wants[h]]
    /\ Proceed(h, "writing")
    /\ UNCHANGED <<wants, registryVars>>

\* The write returns: it has no deadline, so the client decides when.
Written(h) ==
    /\ at[h] = "writing"
    /\ Proceed(h, "streaming")
    /\ UNCHANGED <<wants, registryVars>>

\* The client cancels the request, or a write to it fails.
ClientAborts(h) ==
    /\ at[h] \in {"streaming", "writing"}
    /\ Proceed(h, "leaving")
    /\ UNCHANGED <<wants, registryVars>>

\* The receive from the listener's channel reports that it was closed and, in
\* the end, drained.
ChannelClosed(h) ==
    /\ at[h] = "streaming"
    /\ h \notin listeners[wants[h]]
    /\ Proceed(h, "leaving")
    /\ UNCHANGED <<wants, registryVars>>

\* Slip: the stream to leave is looked up again, and found only on air.
LeaveStreamOnAir(h) ==
    /\ at[h] = "leaving"
    /\ Proceed(h, "done")
    /\ \/ OnAir(wants[h]) /\ Leave(wants[h], h)
       \/ ~OnAir(wants[h]) /\ UNCHANGED relayVars
    /\ UNCHANGED <<wants, publisher, localTrack, subscribers, quit>>

\* defer channel.Stable.Leave(listenerID)
LeaveStream(h) ==
    /\ at[h] = "leaving"
    /\ Proceed(h, "done")
    /\ Leave(wants[h], h)
    /\ UNCHANGED <<wants, publisher, localTrack, subscribers, quit>>

\* The encoder of ch exits by itself; the goroutine waiting for it calls
\* StopAll.
EncoderExits(ch) ==
    /\ Running(ch)
    /\ StopAll(ch)
    /\ UNCHANGED <<streamVars, publisher, localTrack, subscribers, quit>>
=============================================================================
