------------------------ MODULE PublisherPageProofs ------------------------
(***************************************************************************)
(* Proofs about PublisherPage.  OneReconnect is inductive with the types.  *)
(* ChannelKept is not: a page with a stored channel must not save its      *)
(* settings before it has restored them.  Unrestored says why it cannot:   *)
(* until the handler that restores them has run there is no session whose  *)
(* ICE could fail, and a page that lost its session before that never gets *)
(* a message through again.  NotStranded and StaysOffAir say what becomes  *)
(* of such a page.                                                         *)
(***************************************************************************)
EXTENDS PublisherPage, TLAPS

Answering == {"offered", "asked", "onair"}

Unrestored ==
    /\ stored # "none" =>
        /\ served \notin Answering
        /\ ice \in {"new", "closed"}
        /\ first /\ mic # "none" => ice = "closed"
    /\ first => "reconnect" \notin asking
    /\ first /\ ice = "closed" => ws = "closed"
    /\ wanted => stored # "unnamed" /\ (form = "output" => named)

IInv == TypeOK /\ OneReconnect /\ ChannelKept /\ Unrestored

\* The two halves of TypeOK: Boolean-valued variables, and the others.
FlagTypeOK ==
    /\ iceTimer \in BOOLEAN /\ first \in BOOLEAN /\ handle \in BOOLEAN
    /\ named \in BOOLEAN /\ auto \in BOOLEAN /\ wanted \in BOOLEAN

ValueTypeOK ==
    /\ ws \in {"connecting", "open", "closed"}
    /\ ice \in {"new", "connected", "disconnected", "closed"}
    /\ pending \in Nat
    /\ asking \subseteq {"load", "reconnect"}
    /\ mic \in {"none", "offering", "live", "stopped"}
    /\ form \in {"input", "output"}
    /\ stored \in {"none", "unnamed", "named"}
    /\ served \in {"nothing", "offered", "asked", "stuck",
                  "onair", "refused", "ended"}

LEMMA FlagStep == TypeOK /\ [Next]_vars => FlagTypeOK'
<1> SUFFICES ASSUME TypeOK, [Next]_vars PROVE FlagTypeOK'
    OBVIOUS
<1> USE DEF TypeOK, ConnTypeOK, FlagTypeOK, connVars, retryVars, micVars, channelVars, pageVars
<1>1. ASSUME SaveAndReload PROVE FlagTypeOK'
  BY <1>1, Zenon DEF SaveAndReload, LoadPage, InitializeCommon
<1>2. CASE User
  <2>1. ASSUME NEW by \in asking, MicGranted(by) \/ MicDenied(by) PROVE FlagTypeOK'
    BY <2>1, Zenon DEF MicGranted, MicDenied, RestoreSettings
  <2>2. CASE Submit
    BY <2>2, Zenon DEF Submit, ConnectToChannel, AskServer, Delivered
  <2>3. CASE Refresh
    BY <2>3, Zenon DEF Refresh, LoadPage, InitializeCommon
  <2> QED BY <1>1, <1>2, <2>1, <2>2, <2>3 DEF User, ReloadButton
<1>3. CASE Browser
  <2>1. CASE SendOffer
    BY <2>1, Zenon DEF SendOffer
  <2>2. CASE IceConnects
    BY <2>2, Zenon DEF IceConnects, IceConnected, ConnectToChannel, AskServer, Delivered
  <2>3. CASE IceDisconnects
    BY <2>3, Zenon DEF IceDisconnects, IceDisconnected
  <2>4. CASE IceTimerFires
    BY <1>1, <2>4, Zenon DEF IceTimerFires
  <2>5. CASE AutoConnect
    BY <2>5, Zenon DEF AutoConnect, ConnectToChannel, AskServer, Delivered
  <2>6. CASE AutoConnectExpires
    BY <2>6, Zenon DEF AutoConnectExpires
  <2>7. CASE AttemptReconnect
    BY <2>7, Zenon DEF AttemptReconnect
  <2> QED BY <1>1, <1>3, <2>1, <2>2, <2>3, <2>4, <2>5, <2>6, <2>7 DEF Browser, IceFails
<1>4. CASE Network
  <2>1. CASE SocketOpens
    BY <2>1, Zenon DEF SocketOpens
  <2>2. CASE SocketFails \/ SocketLost
    BY <2>2, Zenon DEF SocketFails, SocketLost, SocketClosed, TryAgain, StartReconnectionTimer
  <2>3. CASE ServerAnswers \/ ErrorMessage
    BY <2>3, Zenon DEF ServerAnswers, ErrorMessage
  <2>4. CASE InfoMessage
    BY <2>4, Zenon DEF InfoMessage, ClearReconnectionTimer
  <2> QED BY <1>4, <2>1, <2>2, <2>3, <2>4 DEF Network
<1> QED BY <1>2, <1>3, <1>4 DEF Next, vars

LEMMA ValueStep == TypeOK /\ [Next]_vars => ValueTypeOK'
<1> SUFFICES ASSUME TypeOK, [Next]_vars PROVE ValueTypeOK'
    OBVIOUS
<1> USE DEF TypeOK, ConnTypeOK, ValueTypeOK, connVars, retryVars, micVars, channelVars, pageVars
<1>1. ASSUME SaveAndReload PROVE ValueTypeOK'
  BY <1>1 DEF SaveAndReload, LoadPage, InitializeCommon
<1>2. CASE User
  <2>1. ASSUME NEW by \in asking, MicGranted(by) \/ MicDenied(by) PROVE ValueTypeOK'
    <3>1. asking' = asking \ {by} /\ UNCHANGED <<ws, ice, pending, form, served>>
      BY <2>1, Zenon DEF MicGranted, MicDenied
    <3>2. mic' \in {"offering", "live", mic} /\ stored' \in {"none", stored}
      BY <2>1, Zenon DEF MicGranted, MicDenied, RestoreSettings
    <3> QED BY <3>1, <3>2
  <2>2. CASE Submit
    BY <2>2 DEF Submit, ConnectToChannel, AskServer, Delivered
  <2>3. CASE Refresh
    BY <2>3 DEF Refresh, LoadPage, InitializeCommon
  <2> QED BY <1>1, <1>2, <2>1, <2>2, <2>3 DEF User, ReloadButton
<1>3. CASE Browser
  <2>1. CASE SendOffer
    BY <2>1 DEF SendOffer
  <2>2. CASE IceConnects
    BY <2>2 DEF IceConnects, IceConnected, ConnectToChannel, AskServer, Delivered
  <2>3. CASE IceDisconnects
    BY <2>3 DEF IceDisconnects, IceDisconnected
  <2>4. CASE IceTimerFires
    BY <1>1, <2>4 DEF IceTimerFires
  <2>5. CASE AutoConnect
    BY <2>5 DEF AutoConnect, ConnectToChannel, AskServer, Delivered
  <2>6. CASE AutoConnectExpires
    BY <2>6 DEF AutoConnectExpires
  <2>7. CASE AttemptReconnect
    BY <2>7 DEF AttemptReconnect
  <2> QED BY <1>1, <1>3, <2>1, <2>2, <2>3, <2>4, <2>5, <2>6, <2>7 DEF Browser, IceFails
<1>4. CASE Network
  <2>1. CASE SocketOpens
    BY <2>1 DEF SocketOpens
  <2>2. CASE SocketFails \/ SocketLost
    <3>1. pending' \in Nat
      <4> DEFINE n == StartReconnectionTimer(handle)
                 m == StartReconnectionTimer(TRUE)
      <4>1. m = 0 /\ n \in {0, 1}
        BY Zenon DEF StartReconnectionTimer
      <4>2. \/ pending' = pending + n
            \/ pending' = pending + 1 + m
            \/ pending' = pending + 1
        BY <2>2, Zenon DEF SocketFails, SocketLost, SocketClosed, TryAgain
      <4> HIDE DEF n, m
      <4> QED BY <4>1, <4>2
    <3>2. ws' = "closed" /\ ice' \in {ice, "closed"} /\ mic' \in {mic, "stopped"}
      BY <2>2, Zenon DEF SocketFails, SocketLost, SocketClosed
    <3>3. UNCHANGED <<asking, form, stored, served>>
      BY <2>2 DEF SocketFails, SocketLost
    <3> QED BY <3>1, <3>2, <3>3
  <2>3. CASE ServerAnswers \/ ErrorMessage
    BY <2>3 DEF ServerAnswers, ErrorMessage
  <2>4. CASE InfoMessage
    BY <2>4 DEF InfoMessage, ClearReconnectionTimer
  <2> QED BY <1>4, <2>1, <2>2, <2>3, <2>4 DEF Network
<1> QED BY <1>2, <1>3, <1>4 DEF Next, vars

LEMMA TypeStep == TypeOK /\ [Next]_vars => TypeOK'
BY FlagStep, ValueStep, Zenon DEF TypeOK, ConnTypeOK, FlagTypeOK, ValueTypeOK

\* Timers are started only where a socket closes, and the page had none
\* running while it had that socket.
LEMMA ReconnectStep == TypeOK /\ OneReconnect /\ [Next]_vars => OneReconnect'
<1> SUFFICES ASSUME TypeOK, OneReconnect, [Next]_vars PROVE OneReconnect'
    OBVIOUS
<1> USE DEF TypeOK, OneReconnect, connVars, retryVars, pageVars
<1>1. ASSUME LoadPage PROVE OneReconnect'
  BY <1>1 DEF LoadPage
<1>2. CASE User
  BY <1>1, <1>2 DEF User, Submit, ReloadButton, SaveAndReload, Refresh, MicGranted, MicDenied
<1>3. CASE Browser
  BY <1>1, <1>3 DEF Browser, SendOffer, IceConnects, IceDisconnects, IceFails, SaveAndReload,
                    IceTimerFires, AutoConnect, AutoConnectExpires, AttemptReconnect
<1>4. CASE SocketOpens
  BY <1>4 DEF SocketOpens
<1>5. CASE SocketFails \/ SocketLost
  BY <1>5 DEF SocketFails, SocketLost, SocketClosed, TryAgain, StartReconnectionTimer
<1>6. CASE ServerAnswers \/ ErrorMessage \/ InfoMessage
  BY <1>6 DEF ServerAnswers, ErrorMessage, InfoMessage, ClearReconnectionTimer
<1> QED BY <1>2, <1>3, <1>4, <1>5, <1>6 DEF Next, Network, vars

ChannelInv == ChannelKept /\ Unrestored

\* Saving is safe: whoever can reload the page has restored what was stored.
LEMMA SaveStep ==
    ASSUME ChannelInv, SaveAndReload,
           stored = "none" \/ named \/ ~wanted
    PROVE  ChannelInv'
BY DEF ChannelInv, ChannelKept, Unrestored, Answering, SaveAndReload, LoadPage,
       InitializeCommon

LEMMA ChannelStep == TypeOK /\ ChannelInv /\ [Next]_vars => ChannelInv'
<1> SUFFICES ASSUME TypeOK, ChannelInv, [Next]_vars PROVE ChannelInv'
    OBVIOUS
<1> USE DEF TypeOK, ConnTypeOK, ChannelInv, ChannelKept, Unrestored, Answering,
            connVars, retryVars, micVars, channelVars, pageVars
<1>1. CASE User
  <2>1. ASSUME NEW by \in asking, MicGranted(by) \/ MicDenied(by) PROVE ChannelInv'
    BY <2>1 DEF MicGranted, MicDenied, RestoreSettings
  <2>2. CASE Submit
    BY <2>2 DEF Submit, ConnectToChannel, AskServer, Delivered
  <2>3. CASE Refresh
    BY <2>3 DEF Refresh, LoadPage, InitializeCommon
  <2>4. CASE ReloadButton
    BY <2>4, SaveStep DEF ReloadButton
  <2> QED BY <1>1, <2>1, <2>2, <2>3, <2>4 DEF User
<1>2. CASE Browser
  <2>1. CASE SendOffer
    BY <2>1 DEF SendOffer, Delivered
  <2>2. CASE IceConnects
    BY <2>2 DEF IceConnects, Answered, IceConnected, ConnectToChannel, AskServer, Delivered
  <2>3. CASE IceDisconnects
    BY <2>3 DEF IceDisconnects, IceDisconnected
  <2>4. CASE IceFails
    BY <2>4, SaveStep DEF IceFails, IceFailed, Answered
  <2>5. CASE IceTimerFires
    BY <2>5, SaveStep DEF IceTimerFires, TimerReloads
  <2>6. CASE AutoConnect
    BY <2>6 DEF AutoConnect, ConnectToChannel, AskServer, Delivered
  <2>7. CASE AutoConnectExpires
    BY <2>7 DEF AutoConnectExpires
  <2>8. CASE AttemptReconnect
    BY <2>8 DEF AttemptReconnect
  <2> QED BY <1>2, <2>1, <2>2, <2>3, <2>4, <2>5, <2>6, <2>7, <2>8 DEF Browser
<1>3. CASE Network
  <2>1. CASE SocketOpens
    BY <2>1 DEF SocketOpens
  <2>2. CASE SocketFails
    BY <2>2 DEF SocketFails, SocketClosed
  <2>3. CASE SocketLost
    BY <2>3 DEF SocketLost, SocketClosed
  <2>4. CASE ServerAnswers \/ ErrorMessage \/ InfoMessage
    BY <2>4 DEF ServerAnswers, ErrorMessage, InfoMessage
  <2> QED BY <1>3, <2>1, <2>2, <2>3, <2>4 DEF Network
<1> QED BY <1>1, <1>2, <1>3 DEF Next, vars

LEMMA InductiveInvariant == Spec => []IInv
<1> USE DEF IInv
<1>1. Init => TypeOK
  <2>1. Init => FlagTypeOK
    BY Zenon DEF Init, ConnInit, FlagTypeOK
  <2>2. Init => ValueTypeOK
    BY DEF Init, ConnInit, ValueTypeOK
  <2> QED BY <2>1, <2>2, Zenon DEF TypeOK, ConnTypeOK, FlagTypeOK, ValueTypeOK
<1>2. Init => OneReconnect /\ ChannelInv
  BY DEF Init, ConnInit, OneReconnect, ChannelInv, ChannelKept, Unrestored, Answering
<1>3. IInv /\ [Next]_vars => IInv'
  BY TypeStep, ReconnectStep, ChannelStep DEF ChannelInv
<1> QED BY <1>1, <1>2, <1>3, PTL DEF Spec, ChannelInv

\* The page's variables keep their types.
THEOREM TypeCorrect == Spec => []TypeOK
<1>1. IInv => TypeOK
  BY DEF IInv
<1> QED BY <1>1, InductiveInvariant, PTL

\* The page never has two reconnects under way, however often its sockets
\* fail.
THEOREM ReconnectsOnce == Spec => []OneReconnect
<1>1. IInv => OneReconnect
  BY DEF IInv
<1> QED BY <1>1, InductiveInvariant, PTL

\* However often ICE fails, the channel survives the page's own reloads.
THEOREM KeepsChannel == Spec => []ChannelKept
<1>1. IInv => ChannelKept
  BY DEF IInv
<1> QED BY <1>1, InductiveInvariant, PTL
-----------------------------------------------------------------------------
(* What becomes of a page whose first socket is lost.  That its reconnect  *)
(* timer runs is the safe half of ComesBackOnline, whose other half is the *)
(* fairness of timers and sockets.  handle is the part that makes it       *)
(* inductive: a handle kept from an earlier loss would start no timer.     *)

TimerAfterLoss ==
    first => IF ws = "closed" THEN pending = 1 ELSE pending = 0 /\ ~handle

LEMMA LossStep == TypeOK /\ TimerAfterLoss /\ [Next]_vars => TimerAfterLoss'
<1> SUFFICES ASSUME TypeOK, TimerAfterLoss, [Next]_vars PROVE TimerAfterLoss'
    OBVIOUS
<1> USE DEF connVars, retryVars, pageVars
<1>1. ASSUME LoadPage PROVE TimerAfterLoss'
  BY <1>1, Zenon DEF LoadPage, InitializeCommon, TimerAfterLoss
<1>2. ASSUME UNCHANGED <<ws, first, pending, handle>> PROVE TimerAfterLoss'
  BY <1>2, Zenon DEF TimerAfterLoss
<1>3. CASE User
  BY <1>1, <1>2, <1>3, Zenon DEF User, Submit, ReloadButton, SaveAndReload, Refresh,
                                 MicGranted, MicDenied
<1>4. CASE Browser
  <2>1. CASE SendOffer \/ IceDisconnects \/ AutoConnectExpires
    BY <1>2, <2>1, Zenon DEF SendOffer, IceDisconnects, AutoConnectExpires
  <2>2. CASE IceConnects \/ AutoConnect
    BY <1>2, <2>2, Zenon DEF IceConnects, AutoConnect
  <2>3. CASE IceFails \/ IceTimerFires
    BY <1>1, <1>2, <2>3, Zenon DEF IceFails, IceTimerFires, SaveAndReload
  <2>4. CASE AttemptReconnect
    BY <2>4, Zenon DEF AttemptReconnect, TimerAfterLoss
  <2> QED BY <1>4, <2>1, <2>2, <2>3, <2>4 DEF Browser
<1>5. CASE SocketOpens
  BY <1>5, Zenon DEF SocketOpens, TimerAfterLoss
<1>6. CASE SocketFails \/ SocketLost
  <2>1. ws' = "closed" /\ first' = first
    BY <1>6, Zenon DEF SocketFails, SocketLost, SocketClosed
  <2>2. first => pending = 0 /\ StartReconnectionTimer(handle) = 1
    BY <1>6, Zenon DEF SocketFails, SocketLost, TimerAfterLoss, StartReconnectionTimer
  <2>3. first => pending' = pending + StartReconnectionTimer(handle)
    BY <1>6, Zenon DEF SocketFails, SocketLost
  <2>4. first => pending' = 1
    BY <2>2, <2>3
  <2> QED BY <2>1, <2>4, Zenon DEF TimerAfterLoss
<1>7. CASE ServerAnswers \/ ErrorMessage
  BY <1>2, <1>7, Zenon DEF ServerAnswers, ErrorMessage
<1>8. CASE InfoMessage
  <2>1. ws = "open" /\ ws' = ws /\ first' = first /\ ~handle'
        /\ (handle \/ pending' = pending)
    BY <1>8, Zenon DEF InfoMessage, ClearReconnectionTimer
  <2> QED BY <2>1, Zenon DEF TimerAfterLoss
<1>9. CASE UNCHANGED vars
  BY <1>2, <1>9, Zenon DEF vars
<1> QED BY <1>3, <1>4, <1>5, <1>6, <1>7, <1>8, <1>9 DEF Next, Network

\* A page whose first socket is lost has exactly one reconnect under way, so
\* that only a timer and a socket are needed to bring it back.  No info of
\* the server and no reload can leave it closed with nothing running, or
\* with a handle of reconnectTimeout that stops startReconnectionTimer.
THEOREM NotStranded == Spec => [](first /\ ws = "closed" => pending = 1)
<1>1. Init => TimerAfterLoss
  BY DEF Init, ConnInit, TimerAfterLoss
<1>2. TimerAfterLoss => (first /\ ws = "closed" => pending = 1)
  BY DEF TimerAfterLoss
<1> QED BY <1>1, <1>2, LossStep, TypeCorrect, PTL DEF Spec

OffAir == ~first => served = "nothing"

LEMMA OffAirStep == TypeOK /\ OffAir /\ [Next]_vars => OffAir'
<1> SUFFICES ASSUME TypeOK, OffAir, [Next]_vars PROVE OffAir'
    OBVIOUS
<1> USE DEF OffAir, connVars, retryVars, pageVars, Delivered
<1>1. ASSUME LoadPage PROVE OffAir'
  BY <1>1 DEF LoadPage
<1>2. ASSUME AskServer, first' = first PROVE OffAir'
  BY <1>2 DEF AskServer
<1>3. CASE User
  BY <1>1, <1>2, <1>3 DEF User, Submit, ConnectToChannel, ReloadButton, SaveAndReload, Refresh,
                          MicGranted, MicDenied
<1>4. CASE Browser
  <2>1. CASE SendOffer \/ IceDisconnects \/ AutoConnectExpires \/ AttemptReconnect
    BY <2>1 DEF SendOffer, IceDisconnects, AutoConnectExpires, AttemptReconnect
  <2>2. CASE IceConnects \/ AutoConnect
    BY <1>2, <2>2 DEF IceConnects, AutoConnect, ConnectToChannel
  <2>3. CASE IceFails \/ IceTimerFires
    BY <1>1, <2>3 DEF IceFails, IceTimerFires, SaveAndReload
  <2> QED BY <1>4, <2>1, <2>2, <2>3 DEF Browser
<1>5. CASE Network
  BY <1>5 DEF Network, SocketOpens, SocketFails, SocketLost, ServerAnswers, ErrorMessage, InfoMessage
<1> QED BY <1>3, <1>4, <1>5 DEF Next, vars

\* A page that replaced its first socket gets nothing through on the new one
\* until it is loaded again: wsSend (common.js) goes on testing and using
\* the socket it closed over.  What run lost_offer shows of one offer holds
\* of every message, on every connection of such a page.
THEOREM StaysOffAir == Spec => [](~first => served = "nothing")
<1>1. Init => OffAir
  BY DEF Init, OffAir
<1> QED BY <1>1, OffAirStep, TypeCorrect, PTL DEF Spec, OffAir
=============================================================================
