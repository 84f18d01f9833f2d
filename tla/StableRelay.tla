---------------------------- MODULE StableRelay ----------------------------
(***************************************************************************)
(* What a channel's StableStream (stablestream.go) promises to the rest of *)
(* the server, one atomic step per method: a set of HTTP listeners, and an *)
(* encoder (ffmpeg) that exists exactly while somebody listens.  How the   *)
(* methods reach this with a mutex, a process and its goroutines is not    *)
(* this module's subject.                                                  *)
(***************************************************************************)

CONSTANTS
    Channel,    \* channel names
    PubConn,    \* websocket connections of publisher pages
    Streamer    \* requests for GET /stream/{channel}

VARIABLES
    listeners,  \* StableStream.listeners: the joined requests, per channel
    encoded     \* the publisher connections whose packets entered the
                \* channel's running encoder

relayVars == <<listeners, encoded>>

RelayTypeOK ==
    /\ listeners \in [Channel -> SUBSET Streamer]
    /\ encoded \in [Channel -> SUBSET PubConn]

RelayInit ==
    /\ listeners = [ch \in Channel |-> {}]
    /\ encoded = [ch \in Channel |-> {}]

\* StableStream.running: ffmpeg is started by the first Join and stopped with
\* the last listener.
Running(ch) == listeners[ch] # {}

\* Join, when the encoder runs already or can be started: a started encoder
\* has read nothing yet (`encoded` was emptied when the last one stopped).
Join(ch, h) ==
    /\ listeners' = [listeners EXCEPT ![ch] = @ \cup {h}]
    /\ UNCHANGED encoded

\* Drop the listeners S; stop the encoder when nobody is left.
Drop(ch, S) ==
    /\ listeners' = [listeners EXCEPT ![ch] = @ \ S]
    /\ encoded' = IF listeners[ch] \subseteq S
                    THEN [encoded EXCEPT ![ch] = {}] ELSE encoded

\* Leave: also called, harmlessly, by a listener that StopAll removed before.
Leave(ch, h) == Drop(ch, {h})

\* StopAll: every listener's channel is closed and the encoder stopped.
StopAll(ch) == Drop(ch, listeners[ch])

\* WriteRTP of a packet read by publisher connection p: dropped when no
\* encoder runs.
WriteRTP(ch, p) ==
    /\ encoded' = IF Running(ch)
                    THEN [encoded EXCEPT ![ch] = @ \cup {p}] ELSE encoded
    /\ UNCHANGED listeners

RelayNext ==
    \E ch \in Channel :
        \/ \E h \in Streamer : Join(ch, h) \/ Leave(ch, h)
        \/ StopAll(ch)
        \/ \E p \in PubConn : WriteRTP(ch, p)

RelaySpec == RelayInit /\ [][RelayNext]_relayVars
=============================================================================
