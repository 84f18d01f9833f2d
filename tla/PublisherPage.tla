--------------------------- MODULE PublisherPage ---------------------------
(***************************************************************************)
(* The publisher's page, publisher.js over common.js: it asks for the      *)
(* microphone, offers a WebRTC session, publishes on the channel the user  *)
(* submits, reloads itself when ICE fails and reconnects when the          *)
(* websocket closes.  wsSend is a closure of common.js over the first      *)
(* socket of the page; attemptReconnect replaces window.ws and window.pc   *)
(* but not that closure.                                                   *)
(*                                                                         *)
(* Of the server the model knows what it made of the messages of the       *)
(* current connection.  Muting and recording are in PublisherAudio.        *)
(***************************************************************************)
EXTENDS Page, Naturals

VARIABLES
    first,    \* window.ws is still the socket wsSend sends on
    pending,  \* reconnect timers that are running
    handle,   \* reconnectTimeout holds a timer, which may have fired
    asking,   \* getUserMedia requests not answered: by "load", "reconnect"
    mic,      \* the audio track, and the offer made when it was added
    named,    \* channelName is set
    form,     \* "input" (the form is shown) or "output"
    stored,   \* babelcast_settings in localStorage, by its channel
    auto,     \* the interval that connects to the restored channel runs
    served,   \* what the server made of this connection
    wanted    \* history: the page saved a channel before it reloaded, and
              \* the user did not refresh it since

retryVars == <<first, pending, handle>>
micVars == <<asking, mic>>
channelVars == <<named, form, stored, auto>>
pageVars == <<retryVars, micVars, channelVars>>
vars == <<connVars, pageVars, served, wanted>>

TypeOK ==
    /\ ConnTypeOK
    /\ first \in BOOLEAN /\ handle \in BOOLEAN /\ named \in BOOLEAN
    /\ auto \in BOOLEAN /\ wanted \in BOOLEAN
    /\ pending \in Nat
    /\ asking \subseteq {"load", "reconnect"}
    /\ mic \in {"none", "offering", "live", "stopped"}
    /\ form \in {"input", "output"}
    /\ stored \in {"none", "unnamed", "named"}
    /\ served \in {"nothing", "offered", "asked", "stuck",
                  "onair", "refused", "ended"}

Init ==
    /\ ConnInit
    /\ first = TRUE /\ pending = 0 /\ handle = FALSE
    /\ asking = {"load"} /\ mic = "none" /\ named = FALSE /\ form = "input"
    /\ stored = "none" /\ auto = FALSE
    /\ served = "nothing" /\ wanted = FALSE

-----------------------------------------------------------------------------
(* Messages to the server.                                                 *)

\* wsSend skips the message unless the first socket is open.
Delivered == first /\ ws = "open"

\* connect_publisher.  Without an offer the server waits for a track that
\* cannot come, and handles no later message of this connection.
AskServer ==
    IF Delivered /\ served = "nothing"
      THEN served' \in {"stuck", "refused"}
      ELSE served' = IF Delivered /\ served = "offered" THEN "asked" ELSE served

ConnectToChannel == named' = TRUE /\ form' = "output" /\ AskServer

\* The user submits the form.
Submit ==
    /\ form = "input"
    /\ ConnectToChannel
    /\ UNCHANGED <<connVars, retryVars, micVars, stored, auto, wanted>>

-----------------------------------------------------------------------------
(* Reloads.                                                                *)

\* The page starts over; localStorage is all that stays.
LoadPage ==
    /\ InitializeCommon
    /\ first' = TRUE /\ pending' = 0 /\ handle' = FALSE
    /\ asking' = {"load"} /\ mic' = "none"
    /\ named' = FALSE /\ form' = "input" /\ auto' = FALSE
    /\ served' = "nothing"

\* saveCurrentSettings before a reload.
SaveAndReload ==
    /\ stored' = IF named THEN "named" ELSE "unnamed"
    /\ wanted' = (wanted \/ named)
    /\ LoadPage

\* The server has answered the offer, and ICE is under way.
Answered == served \in {"offered", "asked", "onair"}

IceFails ==
    /\ IceFailed
    /\ ice = "new" => Answered
    /\ SaveAndReload

IceTimerFires ==
    /\ iceTimer
    /\ \/ TimerReloads /\ SaveAndReload
       \/ ~TimerReloads /\ iceTimer' = FALSE
          /\ UNCHANGED <<ws, ice, pageVars, served, wanted>>

ReloadButton == form = "output" /\ SaveAndReload

\* The browser's refresh, or another microphone picked: nothing is saved.
Refresh ==
    /\ LoadPage
    /\ wanted' = FALSE
    /\ UNCHANGED stored

-----------------------------------------------------------------------------
(* The microphone and the offer.                                           *)

\* Slip: the restored channel only fills the form in.
RestoreForm ==
    /\ auto' = (stored = "named")
    /\ stored' = "none"
    /\ UNCHANGED named

\* restoreSettings, and the interval that follows when there is a channel.
RestoreSettings ==
    \/ /\ stored = "none"
       /\ UNCHANGED <<named, stored, auto>>
    \/ /\ stored # "none"
       /\ named' = (stored = "named")
       /\ auto' = (stored = "named")
       /\ stored' = "none"

\* getUserMedia resolves for the handler of the page's load or of a
\* reconnect.  On a peer connection that was closed meanwhile addTrack
\* throws, and the rest of the handler does not run.
MicGranted(by) ==
    /\ by \in asking
    /\ asking' = asking \ {by}
    /\ \/ ice = "closed" /\ mic' = "live" /\ UNCHANGED <<named, stored, auto>>
       \/ /\ ice # "closed"
          /\ mic' = "offering"
          /\ IF by = "load" THEN RestoreSettings
                            ELSE UNCHANGED <<named, stored, auto>>
    /\ UNCHANGED <<connVars, retryVars, form, served, wanted>>

MicDenied(by) ==
    /\ by \in asking
    /\ asking' = asking \ {by}
    /\ UNCHANGED <<connVars, retryVars, mic, named, form, stored>>
    /\ UNCHANGED <<auto, served, wanted>>

\* createOffer resolves, or rejects when the peer connection is closed.
SendOffer ==
    /\ mic = "offering"
    /\ mic' = "live"
    /\ served' = IF Delivered /\ ice # "closed" /\ served = "nothing"
                   THEN "offered" ELSE served
    /\ UNCHANGED <<connVars, retryVars, asking, channelVars, wanted>>

\* The handler of attemptReconnect connects to the channel again.
IceConnects ==
    /\ Answered
    /\ IceConnected
    /\ IF ~first /\ named THEN ConnectToChannel
                          ELSE UNCHANGED <<named, form, served>>
    /\ UNCHANGED <<ws, retryVars, micVars, stored, auto, wanted>>

IceDisconnects ==
    /\ IceDisconnected
    /\ UNCHANGED <<ws, pageVars, served, wanted>>

\* checkConnectionState finds ICE connected, or is given up after 10 s.
AutoConnect ==
    /\ auto
    /\ ice = "connected"
    /\ auto' = FALSE
    /\ IF form = "input" THEN ConnectToChannel
                         ELSE UNCHANGED <<named, form, served>>
    /\ UNCHANGED <<connVars, retryVars, micVars, stored, wanted>>

AutoConnectExpires ==
    /\ auto
    /\ auto' = FALSE
    /\ UNCHANGED <<connVars, retryVars, micVars, named, form, stored>>
    /\ UNCHANGED <<served, wanted>>

-----------------------------------------------------------------------------
(* The server's side of the connection.                                    *)

ServerAnswers ==
    /\ served = "asked"
    /\ \/ ice = "connected" /\ served' = "onair"
       \/ served' = "refused"
    /\ UNCHANGED <<connVars, pageVars, wanted>>

\* "error": the form is shown again.  The server then closes the socket.
ErrorMessage ==
    /\ served = "refused"
    /\ ws = "open"
    /\ form' = "input"
    /\ served' = "ended"
    /\ UNCHANGED <<connVars, retryVars, micVars, named, stored, auto, wanted>>

ClearReconnectionTimer ==
    /\ pending' = IF handle THEN 0 ELSE pending
    /\ handle' = FALSE

\* "info", sent when the server sees ICE connect or disconnect.
InfoMessage ==
    /\ ws = "open"
    /\ ice \in {"connected", "disconnected"}
    /\ ClearReconnectionTimer
    /\ UNCHANGED <<connVars, first, micVars, channelVars, served, wanted>>

-----------------------------------------------------------------------------
(* Losing the websocket and reconnecting.                                  *)

\* Slip: a timer is started though one is running.
StartReconnectionTimerAlways(held) == 1

\* The timers startReconnectionTimer starts: none when reconnectTimeout
\* holds one, be it one that has fired.
StartReconnectionTimer(held) == IF held THEN 0 ELSE 1

\* onclose: the timer, audioTrack.stop() and pc.close().
SocketClosed ==
    /\ ws' = "closed"
    /\ ice' = "closed"
    /\ mic' = IF mic \in {"live", "offering"} THEN "stopped" ELSE mic

\* Slip: a failed attempt is not tried again.
GiveUp == 0

\* onerror of a socket made by attemptReconnect starts a timer.
TryAgain == 1

\* An open socket closes.  When it breaks, the sockets of attemptReconnect
\* have their onerror run just before onclose.
SocketLost ==
    /\ ws = "open"
    /\ SocketClosed
    /\ \/ pending' = pending + StartReconnectionTimer(handle)
       \/ /\ ~first
          /\ pending' = pending + TryAgain + StartReconnectionTimer(TRUE)
    /\ handle' = TRUE
    /\ UNCHANGED <<first, iceTimer, asking, channelVars, served, wanted>>

\* A socket cannot be opened.  Handlers other than onerror are not set yet
\* on one made by attemptReconnect.
SocketFails ==
    /\ ws = "connecting"
    /\ \/ /\ first
          /\ SocketClosed
          /\ pending' = pending + StartReconnectionTimer(handle)
       \/ /\ ~first
          /\ ws' = "closed"
          /\ pending' = pending + TryAgain
          /\ UNCHANGED <<ice, mic>>
    /\ handle' = TRUE
    /\ UNCHANGED <<first, iceTimer, asking, channelVars, served, wanted>>

\* A socket made by attemptReconnect comes with a new peer connection, and
\* the microphone is asked for again.
SocketOpens ==
    /\ ws = "connecting"
    /\ ws' = "open"
    /\ \/ first /\ UNCHANGED <<ice, iceTimer, asking>>
       \/ /\ ~first
          /\ ice' = "new" /\ iceTimer' = FALSE
          /\ asking' = asking \cup {"reconnect"}
    /\ UNCHANGED <<retryVars, mic, channelVars, served, wanted>>

AttemptReconnect ==
    /\ pending > 0
    /\ pending' = pending - 1
    /\ first' = FALSE
    /\ ws' = "connecting"
    /\ served' = "nothing"
    /\ UNCHANGED <<ice, iceTimer, handle, micVars, channelVars, wanted>>

-----------------------------------------------------------------------------
User ==
    \/ Submit
    \/ ReloadButton
    \/ Refresh
    \/ \E by \in asking : MicGranted(by) \/ MicDenied(by)

Browser ==
    \/ SendOffer
    \/ IceConnects
    \/ IceDisconnects
    \/ IceFails
    \/ IceTimerFires
    \/ AutoConnect
    \/ AutoConnectExpires
    \/ AttemptReconnect

Network ==
    \/ SocketOpens
    \/ SocketFails
    \/ SocketLost
    \/ ServerAnswers
    \/ ErrorMessage
    \/ InfoMessage

Next == User \/ Browser \/ Network

Spec == Init /\ [][Next]_vars

\* Timers fire, and a socket that is tried again and again opens some time.
FairSpec ==
    /\ Spec
    /\ WF_vars(AttemptReconnect)
    /\ WF_vars(IceTimerFires)
    /\ SF_vars(SocketOpens)

-----------------------------------------------------------------------------
\* At most one reconnect is under way: no timer runs while the page has a
\* socket that is open or being opened, and there are never two, although
\* three handlers start them (onclose, onerror and the first page's onclose).
OneReconnect == pending <= 1 /\ (pending = 1 => ws = "closed")

\* A page that reloads itself again and again, because ICE keeps failing,
\* does not forget the channel on the way from channelName to localStorage
\* and back.
ChannelKept == wanted => named \/ stored = "named"

\* "Re-establish the WebRTC connection using the selected microphone"
\* (publisher.js:512): the offer made on a socket that is open reaches the
\* server.
OfferReachesServer ==
    [][SendOffer /\ ws = "open" /\ served = "nothing"
        => served' = "offered"]_vars

\* When the first socket of a page is lost, the page comes back to an open
\* one, however often the attempts fail before.
ComesBackOnline == ws = "closed" /\ first ~> ws = "open"

\* A peer connection does not stay "disconnected": it recovers, is closed, or
\* the page reloads.
IceLossIsRepaired == ice = "disconnected" ~> ice # "disconnected"
=============================================================================
